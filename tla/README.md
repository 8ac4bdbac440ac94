# Verification of CS-Showcase

CS-Showcase is a chat demo: a C++ backend (a thread pool, a WebSocket server,
SQLite) and a React frontend that shows the backend's threads and transactions
as they happen. This directory holds TLA+ models of the backend's concurrent
core, of the bytes it exchanges with a browser and of the frontend's
connection, the TLC configurations that check them on small instances, and
theorems that the TLA+ proof system checks for all instances. Paths below
are relative to the repository; `backend/...` lines are those of
`PROJECT.json`'s `map`.

Run a check with `tlc -config <run>.cfg <MC module>.tla`, a proof with
`tlapm <module>.tla`.

## 1. The system

| Component | State it keeps | Operations | Interacts with |
|---|---|---|---|
| `core::ThreadPool` (`backend/src/core/ThreadPool.cpp`) | `workers`, `tasks`, `queue_mutex`, `condition`, `stop` | constructor, destructor, `submitTask`, `workerLoop` | runs the server's handlers |
| `db::DBConnection` (`backend/src/db/DBConnection.cpp`) | the `sqlite3` handle (and, in SQLite, the open transaction) | `connect`, `executeTransaction`, `close` | called by every handler, with no lock |
| `server::WebSocketServer` (`backend/src/server/WebSocketServer.cpp`) | `connected_clients`, `clients_mutex`, one `handleClient` per worker | `acceptConnections`, `handleClient`, `broadcastMessage` | pool, database, peers |
| `core::LockManager` (`backend/src/core/LockManager.cpp`) | `resource_owners`, `manager_mutex`, `manager_cv` | `acquireLock`, `releaseLock` | used by `tests/test_race_conditions.cpp` |
| `db::ConnectionPool` (`backend/src/db/ConnectionPool.cpp`) | `available_connections`, `pool_mutex`, `cv` | constructor, destructor, `getConnection`, `releaseConnection` | owns DBConnections; used by a test only |
| `server::TCPServer` (`backend/src/server/TCPServer.cpp`), `main` | `server_socket`, `is_running`; in Winsock, the sockets and the count of WSAStartup | `start`, `acceptConnections`, `stop`, destructor | base class of the WebSocket server; shares Winsock with every other server of the process |
| Frame codec (inside `WebSocketServer.cpp`) | none | length byte, mask | |
| `crypto::sha1`, `crypto::base64_encode` | none | the handshake's answer | |
| Frontend (`frontend/src/App.jsx`) | `status`, `socket`, `messages`, the logs, `activeThreads` | connect, reconnect after 2 s, the message handlers, `sendMessage` | peer of the server |
| `ConnectionManager`, `Models.h`, `Protocol.h`, `schema.sql`, `ChatUI.jsx`, `ServerLogPanel.jsx`, `useWebSocket.js` | | empty bodies or declarations | used by nothing |

How a message travels: `acceptConnections` submits a closure to the pool; a
worker runs `handleClient`, which keeps the worker until the peer disconnects;
each frame becomes one INSERT in `executeTransaction` on the one shared
connection; four or five broadcasts tell every listed client about it.

What is hard in this code, and what makes each component correct:

* **Thread pool.** One `notify_one` per push while workers come and go between
  tasks; a destructor that joins. Correct if no task is lost, duplicated or
  reordered, no worker sleeps beside a task nobody is coming for, an open pool
  goes on taking tasks, and shutdown ends.
* **Database connection.** BEGIN, statements and COMMIT are separate calls on a
  handle shared by all handlers; the results of BEGIN and COMMIT are ignored.
  Correct if the answer tells what became of the rows and calls are atomic.
* **Server.** Handles that the system gives out again, a list changed and
  walked by all handlers, sends that block under the list's mutex, a `recv`
  that does not respect frames. Correct if the list is exact, every socket has
  one owner and is closed, broadcasts reach all in one order, what is announced
  is true, and every connection is served and cleaned up.
* **TCP server.** A start of four steps that fails half way, a handle kept
  after it was closed, a count of WSAStartup that all servers share, a loop that
  serves one client after the other and that `stop` does not end. Correct if a
  server uses and closes only sockets that are its own, leaves none open, and
  no client waits for ever.
* **Connection pool.** Threads that sleep on one condition variable, that hold
  connections while they wait for more, and that outlive the pool. Correct if a
  connection is in one place, no wakeup is lost, `getConnection` returns, and
  every connection is closed.
* **Frontend.** `close` is asynchronous, an effect that StrictMode runs twice,
  a timer that may outlive its component, a counter fed by events that start
  too late. Correct if there is one live connection, the one `sendMessage`
  uses, the app reconnects, and what it shows is what happened.
* **Codec.** Padding and 32-bit arithmetic in sha1, the last group of base64,
  lengths above 125. Correct if a browser accepts the handshake, a text arrives
  as typed, and its events arrive.
* **Lock manager.** One condition variable for all resources, no limit on the
  wait, releases by threads that hold nothing, and `operator[]`, which enters
  an owner 0. Correct if locks exclude, no wakeup is lost, and callers that
  order their resources are never deadlocked.

`PROJECT.json` lists each hazard at its line with the properties that cover it.

## 2. The modules

```
TaskQueue   <--refines-- ThreadPool    <-- MCThreadPool, ThreadPoolProofs
AtomicStore <--refines-- DBConnection  <-- MCDBConnection, DBConnectionProofs
TaskQueue + DBConnection --composed in--> WebSocketServer
            WebSocketServer <-- MCWebSocketServer, WebSocketServerProofs
TCPServer       <-- MCTCPServer, TCPServerProofs
Lease <--refines-- LockManager     <-- MCLockManager, LockManagerProofs
Lease <--refines-- ConnectionPool  <-- MCConnectionPool, ConnectionPoolProofs
App             <-- MCApp, AppProofs
Bits <-- Handshake <-- Frames <-- MCFrames, FramesProofs
Bits <-- SecureHash  <-- FramesProofs (what sha1 computes is what SecureHash says)
```

### ThreadPool, and TaskQueue, which it implements

`TaskQueue` is the promise: a FIFO queue, a worker runs the oldest task, and a
queue that stays open starts every task. `ThreadPool` is the code. An action is
the code between two points where another thread can run: taking
`queue_mutex`, and each critical section up to where it gives the mutex back.
`workers[w]` says where a worker is in `workerLoop`: `locking` (it must take
the mutex), `testing` (it holds it and evaluates the predicate), `waiting` (in
`condition.wait`, which may end spuriously), `running`, `exited`. `NotifyOne`
chooses any sleeping worker. The destructor's lock lives to the closing brace,
so `DtorLock` takes the mutex and only `DtorReturn` gives it back. The
constructor may spawn any number of `Worker`, none included, because `main`
passes `hardware_concurrency()`, which may be 0. `submitted` and `started` are
history variables. The assumption on callers is the C++ lifetime rule:
`submitTask` is called after the constructor returned and not once the
destructor has begun.

### DBConnection, and AtomicStore, which it implements for calls that do not overlap

`AtomicStore` is what `DBConnection.h` says: a call adds all its rows and
answers TRUE, or none and answers FALSE. `DBConnection` runs
`executeTransaction` a statement at a time; between two statements any other
caller may run its own. SQLite is external (`SqlBegin`, `SqlInsert`,
`SqlRollback`, `SqlCommit`): a statement is atomic, the transaction belongs to
the connection, BEGIN fails inside one, COMMIT and ROLLBACK fail outside, an
INSERT outside commits by itself. `Script` says which statements the database
rejects (a duplicate key, a table that does not exist, an apostrophe);
`Faults` which may also fail for a reason outside the program (SQLITE_BUSY).
Rows are pairs (call, statement), so a row's text is left out. `overlapped` and
`commitFailed` are history: `AtomicStoreSpec` speaks of the steps taken while
both are FALSE, in behaviours where other calls may have overlapped before.

### WebSocketServer

Composes `TaskQueue` (the pool) and `DBConnection` (through INSTANCE; a handler
in `execute` takes DBConnection's steps). `at[w]` is the handler's place:
`request`, `spawned`, `register`, `receive`, `begin`, `insert`, `execute`,
`outcome`, `lock`, `chat`, `unregister`, `close`, `terminated`. A broadcast is
three actions (take `clients_mutex`, send to the client under the cursor,
release), so handlers interleave at every send. Peers and the network are
external: a peer asks, sends frames, disconnects with FIN (what it sent can
still be received) or RST (it is lost), and may stop reading, in which case a
send to it blocks. A request comes in one part or in two; the rest of one
(`Rest`: what is decoded from it) stays on the wire if `recv` returned only the
first part, and is then received as a frame. `Receive` takes the first frame of
what is on the wire and drops any others that came in the same `recv`. Handles
are reused after `closesocket`. `Faults` says which of a call's statements may
fail for a reason outside the program: `ExecuteReturns` has, like
DBConnection, a COMMIT that fails and is answered with true. `owed` and
`announced` are history: which clients a broadcast has not reached, and what was
said of which message. A frame is a value
of `Msg`; its bytes are the module Frames. The database is open from the start and its
table exists, as in `tests/test_tcp_server.cpp`, the program that also calls
`start`.

### TCPServer

Several server objects of one process. `start` is one action per Winsock call
(`WSAStartup`, `OpenSocket`, `Bind`, `Listen`), each of which may fail and
undoes nothing. `AcceptConnections` runs the loop after `start`, or without it
as `main` does; a turn is `Accept`, `Recv`, `Send`, `Close`. `stop` is two
actions, `Stop` (closesocket) and `WSACleanup`, because the loop and other
servers may run between them; it may be called at any time, twice, and by the
destructor, after which the object is `gone`. `is_running` is left out: it is
set where the loop begins and nothing resets it, so the loop has no end, and
where `accept` fails at once it changes nothing. Winsock is external: handles
are given out again, the last WSACleanup closes all sockets of the process, a
listener that is closed resets its backlog. `start` is called once on each
object: called again it would overwrite the handle it holds.

### LockManager, and Lease, which it and ConnectionPool implement

`Lease` is the promise of both: a thing is used by one thread at a time, from
the return of `acquireLock` or `getConnection` until it is given back.

Each critical section of `manager_mutex` waits for nothing but `manager_cv`,
so each is one action: `Call`, `Sleep` (the predicate is false), `Grab` (it is
true), `ReleaseLock`, which writes what `resource_owners[r] == thread_id`
writes: a missing key is entered with 0 before the comparison. The callers are
external: with `Ordered` they take resources in increasing order, the first
strategy `LockManager.h` names; `Strays` may release what they do not hold
(`LockManager.cpp:32` names that case).

### ConnectionPool

As in LockManager a critical section of `pool_mutex` waits for nothing but
`cv` and is one action: `getConnection` is `Call`, turns of its wait (`Sleep`,
a wakeup, spurious or not) and `Take`; `Release` pushes and wakes all. The
constructor's loop is one `Create` per turn. `Destroy` empties the queue;
connections still lent are closed when their last `shared_ptr` goes (`Drop`).
The callers are external and keep two rules: they release what they got, once,
and no call is in progress when the destructor runs.

### App

The effect of `App.jsx` that owns the WebSocket, event by event (JavaScript
runs one handler at a time, so a handler is an action). Both builds are
modelled: in development StrictMode mounts, cleans up and mounts again, so
there are two effects with their own `ws`, `reconnectTimer` and `isMounted`.
`readyState` is the browser's view of a WebSocket and `link` the network's: a
`close` of a connection whose `open` event is already queued does not stop that
event, and a closing connection stays until the browser gives up, because the
server never answers a Close frame. The server's side is what `handleClient`
broadcasts in a handler's life (`Answer`, `Register`, `Receive`, `Announce`,
`Leave`, `Terminate`), with its order: a client is told of its own thread before
it is listed. An `open` handler uses `ws`, the effect's latest socket, which
need not be the one that opened.

`messages` is the chat box: a `sendMessage` of the app itself appends a "You"
entry, a chat event a "Client" entry, and an event that does not parse a "Raw"
one ('Server (Raw)', the catch). The server puts a text into its INSERT event
and its chat event as it is, so `Texts` has three kinds: plain ones, ones with a
quote or a backslash, whose events do not parse, and ones whose fields replace
those of both events and make them a history, which empties the chat box. `said`
is history: the events broadcast for texts; `handling` is the text whose chat
event a thread still owes, `sent` what the app has sent and nobody received.

### Handshake and Frames

`Handshake` runs `sha1` and `base64_encode` on the key, an iteration of their
loops per action; a `uint32_t` is two 16-bit halves. `Frames` continues with
one text message: the browser masks and frames it, `Recv` returns the frame, a
part of it, or the frame and the next one, `Receive` unmasks what is there and
makes the five events, `Broadcast` sends each under a length byte that is
`message.length()` in a `char`. The browser is external and follows RFC 6455
(`Read`): it takes a length byte of 126 or 127 for the announcement of a longer
length, which it finds in the first bytes of the JSON text, and waits for that
many bytes; from 128 on the frame counts as masked, and it fails the connection.
Texts are bytes, events are their kinds and lengths. `Bits` has the bit
operators, and `SecureHash` is what `crypto::sha1` promises: SHA-1 as FIPS 180-4
defines it, on numbers below 2^32.

What is assumed of the inputs is what the code around them gives: a key is
`substr(.., 24)` of the request, so it has at most 24 characters
(`KeysAssumption`); a text typed into an input box holds no NUL and its frame
fits into the 4096 bytes of `recv`'s buffer (`TextAssumption`); a
`std::thread::id` is written as a number of 64 bits, at most 20 digits
(`IdAssumption`).

## 3. The runs

| Run | Instance | What it shows |
|---|---|---|
| `pool` | 3 workers (0 to 3 spawned), 2 clients, 2 tasks, 3 submits; 10 108 states | `TasksConserved`, `WorkConserving`, `DestructorNeverReturns`; refinement of TaskQueue, with its fairness: an open pool goes on taking tasks |
| `pool_shutdown` | 2 workers | violation: the destructor never returns |
| `db_shared` | 3 callers on one connection, INSERT and COMMIT may fail; 11 247 states | `NoDanglingTransaction`, `CommittedWhileClean`; refinement of AtomicStore by the calls that do not overlap |
| `lock_ordered` | threads 0..2, 3 resources, 3 calls each; 41 074 states | `HeldIsOwned`, `NoLostWakeup`, `NoCircularWait`, `AcquireReturns` |
| `conn_pool` | 3 threads, 2 of 4 connections each, 3 calls each; 48 749 states | `OnePlace`, `NoSleeperForgotten`, `SomebodyReturns`, `GetReturns`, `ClosedInTheEnd` |
| `server_safety` | 2 workers, 2 handles, 3 connections, 2 messages, resets, stalls, a Close frame, requests in two parts, INSERT and COMMIT may fail; 638 365 states (symmetry) | `ListIsExact`, `SocketHasOneOwner`, `BroadcastsInStep`, `DurableWhileClean` |
| `server_progress` | 2 workers, 3 connections, a peer that stalls and reads again; 44 138 states | `DisconnectIsCleanedUp`, `AcceptedIsServed` |
| `server_lost_commit` | 2 workers, one message rejected | violation: [COMMIT] announced for a row that was rolled back |
| `server_stalled` | 2 workers, 1 message, a peer that never reads again | violation: a send to it blocks under `clients_mutex`, and the handler of another client, which has disconnected, never gets the mutex to remove it (`DisconnectedIsRemoved`) |
| `tcp_server` | 2 servers, 2 clients, 3 handles, 2 stops each; 519 113 states | `OwnHandles`, `ClientsAreFinished` |
| `app` | 2 workers, both builds, 1 lost connection, 1 other tab, 1 text of three kinds; 446 508 states | `NoZombie`, `ShownOnce`, `SocketIsCurrent`, `CounterIsExact`, `Reconnects` |
| `codec` | 7 keys, 46 messages, 3 masks, whole, cut and joined frames; 96 544 states | `AnswerIsKnown`, `TextArrives`, `ShortMessagesAreSeen` |

Type invariants are checked in the runs of each module; DBConnection's is part of
`server_safety`'s. Every property of a passing run has a mutant in `PROJECT.json`: a plausible bug
in a mapped definition that makes TLC find the property violated.

**Why these bounds.** Pool: three workers are the fewest where one sleeps, one
is woken and one comes back from a task and overtakes it; a queue of three
exceeds what two workers can take. Database: the transactions of two calls mix
already with two callers, the third is there when the first two have ended;
three calls, of two statements that succeed, of one that fails in the middle,
and of one that fails at once, are every shape of a call. Locks: a cycle of
three threads needs three resources; each thread can take all of them.
Connection pool: four connections are one more than three threads with one
each in hand can exhaust, the boundary of `EnoughConnections`; with three the
deadlock is there. Server: with two handlers and more connections than
handles, a handle is given out again while the other handler broadcasts; the
life of one handler with one message is seven broadcasts to interleave with;
each of the two messages can succeed, be rejected, or be announced after a COMMIT
that failed, be a frame of its own or the rest of a request.
TCP server: with three handles and two servers that each hold a listener the
third serves a connection and is given out again; the second stop of a server is
the one that closes a handle that is no longer its own. App: one loss lets a connection die in every state and be replaced, and the two
events of one text can be separated by the loss, repeated, or out of order. (The
safety properties were also checked with two texts, plain and quoted, 4 418 166
states; with `Reconnects` that instance takes too long for a run.) Codec: 19 characters are the most that fit into
one block of sha1, 125 bytes into a length byte; messages have every length
around the limits, and `Segments` cut a frame inside its header, its mask and
its text; two masks make some bytes of the text 0 on the wire, which is what the
cleared buffer holds when they are lost. `MaxSubmits`, `MaxAcquires`, `MaxGets`, `MaxAccepts`,
`MaxStops`, `MaxLosses`, `MaxTabs` and `MaxChats` bound the counters; `sent` bounds the
frames, each of which is sent once.

**Deadlock** is not checked: in every model the outside may stop (no more
calls, connections or messages), and the pool's destructor does stop for ever,
which `DestructorNeverReturns` and `pool_shutdown` state. Where a thread must
not be stuck, a liveness property says so.

**Fairness.** All of it is weak fairness of the steps of a thread, or an event
loop, that can run: the system schedules it. Taking a mutex gets no strong
fairness, since `std::mutex` promises none; it is not needed, because in the
pool a worker that overtakes takes a task or goes to sleep, and in the others
each thread makes finitely many rounds. Assumptions about the outside are
separate formulas used only where a run needs them: tasks return
(`TasksReturn`: a handler returns when its client disconnects), peers leave
(`LeavingPeers`), peers that stopped reading read again (`ReadingPeers`, with
strong fairness of the blocked send: nobody else can fill that buffer again,
since the sender holds `clients_mutex`), both in `PoliteSpec`; holders of a
lock release it (`ReleaseHeld`), holders of a connection return it. Without
`ReadingPeers` the run `server_stalled` shows what happens. The TCP server's
loop gets weak fairness as one thread, a `stop` that has begun completes, and
clients say something or leave (`SpeakOrLeave`), without which one silent client
stops the loop for all; nobody need start or stop a server. In App the browser
delivers events and fires timers, other tabs leave, and losses are finitely
many; nobody need send. The fairness of App is of the renderer (`Rendering`),
of the events of a WebSocket (`Browser`), of the timers and of the server's
threads (`Thread`).

## 4. The theorems

For every value of the constants (any number of threads, tasks, calls,
statements, resources), from the named ASSUMEs of each module:

* **ThreadPoolProofs.** `TypeCorrect`, `NoTaskLost` (`TasksConserved`),
  `NoLostWakeup` (`WorkConserving`), `DestructorHangs`
  (`DestructorNeverReturns`), `ImplementsTaskQueue` (`TaskQueueSpec`). None of
  the properties is inductive alone. `IInv` adds `MutexInv` (who is in a
  critical section is who holds the mutex), `ShutdownInv` (`stop` is set only
  while the destructor holds the mutex, so no worker exits) and `RunningInv`.
  `WorkConserving` counts: a push adds a task and, if someone sleeps, moves one
  sleeper to the workers on their way; a worker that leaves them for a task
  takes one with it; one that leaves to sleep has found the queue empty. Each
  case is a lemma on cardinalities of finite sets.
* **DBConnectionProofs.** `TypeCorrect`; `TransactionsEnd`
  (`NoDanglingTransaction`) and `CleanCallsAreDurable` (`CommittedWhileClean`),
  for any number of concurrent callers and any faults;
  `ExclusiveCallsAreAtomic` (`AtomicStoreSpec`): while no two calls have
  overlapped and no COMMIT has failed, every step is one of the atomic store or
  none, with no hypothesis on the callers; `ExclusiveCallsAreCommitted`: if no
  two calls ever overlap and no COMMIT fails, TRUE means committed, whatever
  was rejected, so a mutex around `executeTransaction` would be enough. The
  invariants are
  `StoreInv` (the handle and the transaction), `CallInv` (a call in progress
  has one caller and no answer), `CleanInv` (while nothing failed, every row
  inserted is in the file or in the open transaction, and the transaction ends
  with whoever commits first) and `ExclusiveInv` (the open transaction holds
  exactly the rows of the one call in progress).
* **WebSocketServerProofs.** `TypeCorrect`; `ListExact` (`ListIsExact`);
  `OneOwner` (`SocketHasOneOwner`); `InStep` (`BroadcastsInStep`); `Durable`
  (`DurableWhileClean`): all of the server's invariants, for any number of
  workers, handles, connections and messages. The inductive invariant
  `ServerInv` joins the three facts about sockets, none of which is inductive
  alone, with `PlaceInv` (what a handler's place says about its socket, its
  message and `clients_mutex`) and `PeerInv` (what a peer may be doing while its
  socket is queued, served or closed): a handle can be given out again only when
  no handler, queue entry or list entry has it. `InStep` needs the position of
  a client in the list under appending and removal, and that the cursor moves
  only under the mutex. Every step of the server is a step of DBConnection or
  leaves its variables alone (`DatabaseStep`), so the lemmas of
  DBConnectionProofs carry over by INSTANCE (`DatabaseInv`), and what the pool
  does is a step of TaskQueue: `UsesTaskQueue` and `UsesAtomicStore` say that
  the server's parts are behaviours of the abstract specifications that
  ThreadPool and DBConnection implement. `OutcomesAreTold`: an outcome that was
  broadcast is the final answer for its message. `Durable` follows from
  these: until the first INSERT or COMMIT that fails. The three others have the
  premise that no COMMIT fails, whose result `DBConnection.cpp:32` ignores.
  `NoTransactionLeft`: a transaction is open only while a handler is inside
  `executeTransaction`, whatever clients were lost and messages rejected.
  `SerialHandlersAreDurable` and `OneHandlerIsDurable`: if transactions do not
  overlap, in particular with one pool thread, [COMMIT] is announced only for
  what is in the file, also after a message was rejected. So the overlap is the
  only cause of what `server_lost_commit` shows, where no COMMIT fails for a
  reason outside the program.
* **LockManagerProofs.** `TypeCorrect`; `MutualExclusion` (`HeldIsOwned`),
  `ImplementsLease` (refinement of Lease) and `NoSleeperForgotten`
  (`NoLostWakeup`), for any stray releases and any order of the calls;
  `OrderingPreventsDeadlock` (`NoCircularWait`), for ordered callers, assuming
  `ZeroIsNoPhantom`: there is no thread 0, or no other thread releases a free
  resource. The argument: with `OrderInv` (a thread wants a resource above all
  it holds) and `NoPhantom` (an owner that is a thread holds the resource), the
  thread of a cycle that wants the highest resource waits for one that holds it
  and wants a higher one. The highest exists because inclusion of finite sets
  is well-founded.
* **ConnectionPoolProofs.** `TypeCorrect`; `LentOnce` (`OnePlace`);
  `ImplementsLease` (refinement of Lease, also beyond the end of the pool);
  `NoLostWakeup` (`NoSleeperForgotten`); `NoDeadlock` (`SomebodyReturns`).
  `LifeInv` says what is empty in each phase of the pool's life. The last
  argument is a pigeonhole: if every thread that holds something waited for
  more, each would hold at most `MaxHeld - 1` connections (`HeldInv`), all
  would be lent, and sending each to its holder and its number there would map
  `PoolSize` connections one to one into
  `Cardinality(Thread) * (MaxHeld - 1)` places.
* **TCPServerProofs.** `TypeCorrect`; `HandlesOwned` (`OwnHandles`), for any
  number of servers. `CountInv` says that Winsock's count is the number of
  servers whose WSAStartup is not undone, so while every server keeps the
  discipline the last WSACleanup finds no socket of another; `Own` holds only
  until a server breaks it, and what breaks it is never repaired, so that
  the premise, once lost, is lost for good.
* **AppProofs.** `TypeCorrect`; `OneConnection` (`NoZombie`); `SocketUsable`
  (`SocketIsCurrent`); `NoneTwice` (`ShownOnce`); `CounterFollows`
  (`CounterIsExact`): all of App's invariants, for any number of losses,
  threads, tabs and messages. `AppInv` says that an effect's WebSockets are
  closed, but for its `ws`, and the timer runs only when that one is closed too
  (`EffectInv`); what the browser and the network can disagree on (`StateInv`);
  which effect is mounted in each phase (`PhaseInv`); and that a connection is
  served by one thread and listed only while it reads (`ServerInv`). `OnceInv`
  adds that the events on each wire are in order and, on the wire of a
  current WebSocket, newer than all that is shown; events on the wire of an
  older one are never handled. `SaidInv` says that a text has one INSERT event
  and at most one chat event, which comes later and has the same text: so two
  entries of one text are its INSERT event and then its chat event, and the
  first is shown only by the catch. `CountInv` speaks of what will be counted when
  the wire has been handled: the last announcement of a thread on it decides
  (`Counts`). Appending an announcement changes that for its own thread only
  (`CountAppend`), and handling the first event does not change it
  (`CountTail`). Until a loss, every listed current WebSocket is sent
  every announcement.
* **FramesProofs**, of sha1, base64 and the frames, for every key, text, mask,
  segment and length of a thread id.
  * *Bits.* A bit operation on bytes or halves is eight or sixteen bits of its
    own (`Bits`), so what the operators do is a lemma on one bit and one on the
    sum of the bits: a byte is the sum of its bits, and xor with the mask twice
    is the byte again. `HalvesAreUint32`: a pair of halves adds, complements and
    rotates as a `uint32_t` does.
  * *The invariant.* `IInv` is `HsInv` (types, and for each place in `sha1` how
    long `data` and `w` are: from it come `TypeCorrect` (`TypeOK`) and
    `ArraysAreInBounds`, that no index is out of range), `FrTypes`, `Course`
    (what has been typed, framed, received and decoded at each place),
    `TextArrives` and `Told` (which events are still to come). `TextsArrive`
    (`TextArrives`) computes what is decoded from a frame of which a part is
    missing; `ShortMessages` (`ShortMessagesAreSeen`) follows the five events of a
    message under their length bytes.
  * *base64.* `Base64IsDecoded`: each group of four characters determines its
    three bytes, so nothing is lost, and '=' stands exactly for what the last
    group lacks. `AnswerCarriesTheHash`: a browser that decodes the answer has
    the 20 bytes of sha1's words.
  * *SHA-1.* `AnswerIsStandard`: for every key, `accept_key` is the base64 of the
    hash FIPS 180-4 defines; `KnownAnswersAreGiven` (`AnswerIsKnown`) is the same
    for the answers the run knows, assuming that they are the standard's.
    `SecureHash` states the recurrences of the standard as a relation between a
    padded message, its schedules, working variables and hash values, because
    the provers cannot unfold a recursive definition. `StandardIsDefined` proves
    that there are such values for every key, by an induction over sets of
    numbers (`UpTo`, from the well-foundedness of inclusion of finite sets);
    `Agrees` says, for each place in `sha1`, that its variables are what any
    such computation has at that point. The code's Ch and Maj use `|` where the
    standard has xor: they are equal bit by bit.

TLC only: everything under fairness (`FairTaskQueueSpec`, `AcquireReturns`,
`GetReturns`, `ClosedInTheEnd`, `DisconnectIsCleanedUp`, `AcceptedIsServed`,
`ShutdownReturns`, `ClientsAreFinished`, `Reconnects`), which is out of the
prover's reach, as is ENABLED. Every other property that a passing run checks
is a theorem. That the answers `MCFrames` knows are the standard's is taken from
RFC 6455 and from the run, where the code computes them. Theorems with an
operator parameter (the library's induction) cannot be instantiated by the
provers installed; no module here uses RECURSIVE.

What the run had not shown, the proof did: `TextArrives` used to say that a cut
frame is decoded as typed only if the lost bytes are 0, which is false for texts
of less than four bytes, that do not use the end of the mask. `Unused` names
that case now, and a segment of three bytes lets `codec` reach it.

## 5. What the code does not do

Shown by violation runs, with the line each contradicts (`findings`):

* the pool's destructor holds `queue_mutex` across its joins and never returns
  (`ThreadPool.cpp:14`);
* `executeTransaction` without a lock on a shared connection: the ROLLBACK of
  one handler removes the row of another, whose COMMIT then fails unnoticed and
  is announced as [COMMIT] (`WebSocketServer.cpp:133`);
* a client that does not read holds up every handler, because sends are made
  under `clients_mutex` (`WebSocketServer.cpp:28`): the socket of a client that
  has disconnected stays listed.

Seen while modelling, and left without a run of their own:

* The result of COMMIT is ignored, so a call can answer true for rows that
  SQLITE_BUSY kept out of the file, even with a single caller, which is then
  announced as [COMMIT], and leaves the transaction open (`DurableWhileClean` and
  `CommittedWhileClean` hold only until the first failure).
* The chat message is broadcast although its INSERT failed (`App.jsx:200` says
  otherwise); the payload of a Close frame is stored and broadcast as chat.
* Of frames that arrive together in one `recv` only the first is handled, and a
  frame of which only a part has arrived is decoded with zeros in place of the
  rest, stored and broadcast (`TextArrives` says which texts survive).
* `ShortMessagesAreSeen` is exact: the INSERT event takes 55 bytes and the chat
  event 53 and the thread id, so a message of about 70 bytes makes an event of
  more than 125, whose length byte is wrong. After one of 126 or 127 bytes every
  browser waits for a frame that never ends, and shows nothing more; a longer one
  makes it fail its connection.
* The text of a message goes into the JSON of its events as it is
  (`WebSocketServer.cpp:129`, `149`). With a quote or a backslash neither event
  parses, and the chat box shows both, raw (`ShownOnce` says that this is the
  only way a text is shown twice); a text can also replace the fields of its own
  events, for example make them a history.
* A request that arrives in two parts is refused if the key is not in the first,
  and otherwise the rest is decoded as a frame, stored and broadcast.
* As many clients that stay as there are workers starve the next one
  (`AcceptedIsServed` needs `LeavingPeers`).
* "Active Threads" counts the threads announced since the tab was listed: not
  its own, not those of earlier tabs, and it is not reset when a connection is
  lost (`CounterIsExact` says what it counts; `README.md:66` says more).
* A message sent on a connection that is down but not yet known to be is lost,
  and shown as sent.
* A release of a free resource by a thread other than 0 leaves an owner 0 that
  only a release by 0 removes, so nobody else can acquire it.
* `main` never calls `start`, so its accept loop spins on an invalid socket.
* `stop` ends no loop: nothing resets `is_running` (`TCPServer.h:20`: "Safely
  stops the server"). It keeps the handle it closed, so a loop that still runs
  may accept on a socket the system has since given to another server, and the
  second `stop`, the destructor's, may close it. `WSACleanup` of a server whose
  WSAStartup failed takes away the count of another. `OwnHandles` has the
  premise `Disciplined` for these three reasons.
* A program that returns after a failed `start`, as
  `tests/test_tcp_server.cpp:25`, destroys its thread pool and hangs there.

## 6. Not modelled, and the plan

Not modelled for good: SQLite's inside (`sqlite3.h` is the declarations of a
third-party library, 13 425 of the repository's 14 360 source lines, so the
share of all lines that `map` covers says little; of the program's own lines it
covers more than a third, and the rest is include lines, logging, markup,
styling and texts), the wording of events and SQL, logging, and the files with
empty bodies. Left for later, in this order:

1. LockManager with stray releases by threads other than 0 and with unordered
   callers, as runs (the theorems cover both but for `NoCircularWait`).
2. In App, texts that turn their events into events of other types (a thread
   that was never spawned, a transaction that was never run).

No code connects ConnectionPool with `executeTransaction`, so their composition,
where Lease would give that calls on one connection do not overlap, is no part
of the models.
