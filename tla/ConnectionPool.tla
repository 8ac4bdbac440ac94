--------------------------- MODULE ConnectionPool ----------------------------
(***************************************************************************)
(* db::ConnectionPool (backend/src/db/ConnectionPool.cpp): a queue of      *)
(* connections under pool_mutex; getConnection waits on cv while the queue *)
(* is empty.                                                               *)
(*                                                                         *)
(* A critical section of pool_mutex waits for nothing but cv, so each is   *)
(* one action: getConnection is Call, any number of turns of the wait      *)
(* (Sleep, and a wakeup), then Take.                                       *)
(*                                                                         *)
(* The callers are external, and keep two rules: a thread releases what it *)
(* has got and nothing else, once; and by the C++ lifetime rule the pool   *)
(* is not used before its constructor returns, nor once its destructor     *)
(* begins, when no call is in progress.  A thread may still own a          *)
(* connection then: the last shared_ptr to it closes it (Drop).            *)
(***************************************************************************)
EXTENDS Integers, Sequences, FiniteSets

CONSTANTS
  Thread,    \* the threads that call the pool
  PoolSize,  \* pool_size
  MaxHeld,   \* connections a thread holds at once at most: callers' habit
  MaxGets    \* bound: calls of getConnection by each thread

ASSUME FinitelyManyThreads == IsFiniteSet(Thread)
ASSUME SizeAssumption ==
  PoolSize \in Nat /\ MaxHeld \in Nat \ {0} /\ MaxGets \in Nat

(* The connections, numbered in the order the constructor makes them. *)
Connection == 1..PoolSize

VARIABLES
  life,                   \* "constructing", "open" or "gone"
  created,                \* the number of connections made so far
  available_connections,  \* the queue
  getting,                \* the threads inside getConnection
  asleep,                 \* those of them that wait on cv
  lent,                   \* lent[t]: got by t and not released since
  closed,                 \* the connections that have been closed
  gets                    \* gets[t]: calls of getConnection by t

vars == <<life, created, available_connections, getting, asleep, lent, closed,
          gets>>

Queued == {available_connections[i] : i \in DOMAIN available_connections}

------------------------------------------------------------------------------
Init ==
  /\ life = "constructing"
  /\ created = 0
  /\ available_connections = <<>>
  /\ getting = {} /\ asleep = {}
  /\ lent = [t \in Thread |-> {}]
  /\ closed = {}
  /\ gets = [t \in Thread |-> 0]

CreateOneMore ==  \* mutant: i <= pool_size
  /\ life = "constructing"
  /\ created <= PoolSize
  /\ created' = created + 1
  /\ available_connections' = Append(available_connections, created + 1)
  /\ UNCHANGED <<life, getting, asleep, lent, closed, gets>>

(* One turn of the constructor's loop.  The result of connect is ignored:  *)
(* a connection that could not be opened is pushed like any other.         *)
Create ==
  /\ life = "constructing"
  /\ created < PoolSize
  /\ created' = created + 1
  /\ available_connections' = Append(available_connections, created + 1)
  /\ UNCHANGED <<life, getting, asleep, lent, closed, gets>>

Constructed ==
  /\ life = "constructing"
  /\ created >= PoolSize
  /\ life' = "open"
  /\ UNCHANGED <<created, available_connections, getting, asleep, lent, closed,
                 gets>>

------------------------------------------------------------------------------
Call(t) ==
  /\ life = "open"
  /\ t \notin getting
  /\ Cardinality(lent[t]) < MaxHeld
  /\ gets[t] < MaxGets
  /\ getting' = getting \cup {t}
  /\ gets' = [gets EXCEPT ![t] = @ + 1]
  /\ UNCHANGED <<life, created, available_connections, asleep, lent, closed>>

(* getConnection, when the queue is empty *)
Sleep(t) ==
  /\ t \in getting \ asleep
  /\ available_connections = <<>>
  /\ asleep' = asleep \cup {t}
  /\ UNCHANGED <<life, created, available_connections, getting, lent, closed,
                 gets>>

SpuriousWakeup(t) ==
  /\ t \in asleep
  /\ asleep' = asleep \ {t}
  /\ UNCHANGED <<life, created, available_connections, getting, lent, closed,
                 gets>>

TakeWithoutPop(t) ==  \* mutant: front without pop
  /\ t \in getting \ asleep
  /\ available_connections # <<>>
  /\ lent' = [lent EXCEPT ![t] = @ \cup {Head(available_connections)}]
  /\ getting' = getting \ {t}
  /\ UNCHANGED <<life, created, available_connections, asleep, closed, gets>>

(* getConnection, when it is not *)
Take(t) ==
  /\ t \in getting \ asleep
  /\ available_connections # <<>>
  /\ lent' = [lent EXCEPT ![t] = @ \cup {Head(available_connections)}]
  /\ available_connections' = Tail(available_connections)
  /\ getting' = getting \ {t}
  /\ UNCHANGED <<life, created, asleep, closed, gets>>

Releasing(t, c) ==
  /\ life = "open"
  /\ t \notin getting
  /\ c \in lent[t]
  /\ lent' = [lent EXCEPT ![t] = @ \ {c}]
  /\ UNCHANGED <<life, created, getting, closed, gets>>

ReleaseSilently(t, c) ==  \* mutant: no notify_all
  /\ Releasing(t, c)
  /\ available_connections' = Append(available_connections, c)
  /\ UNCHANGED asleep

ReleaseForgets(t, c) ==  \* mutant: no push
  /\ Releasing(t, c)
  /\ asleep' = {}
  /\ UNCHANGED available_connections

(* releaseConnection: push, notify_all *)
Release(t, c) ==
  /\ Releasing(t, c)
  /\ available_connections' = Append(available_connections, c)
  /\ asleep' = {}

ReleaseAny(t) == \E c \in lent[t] : Release(t, c)

------------------------------------------------------------------------------
CloseFirst ==  \* mutant: if instead of while
  /\ life = "open"
  /\ getting = {}
  /\ life' = "gone"
  /\ closed' = IF available_connections = <<>> THEN closed
               ELSE closed \cup {Head(available_connections)}
  /\ available_connections' = <<>>
  /\ UNCHANGED <<created, getting, asleep, lent, gets>>

(* The destructor closes what is in the queue. *)
Destroy ==
  /\ life = "open"
  /\ getting = {}
  /\ life' = "gone"
  /\ closed' = closed \cup Queued
  /\ available_connections' = <<>>
  /\ UNCHANGED <<created, getting, asleep, lent, gets>>

(* The last shared_ptr goes: ~DBConnection calls close. *)
Drop(t, c) ==
  /\ life = "gone"
  /\ c \in lent[t]
  /\ lent' = [lent EXCEPT ![t] = @ \ {c}]
  /\ closed' = closed \cup {c}
  /\ UNCHANGED <<life, created, available_connections, getting, asleep, gets>>

DropAny(t) == \E c \in lent[t] : Drop(t, c)

Next ==
  \/ Create
  \/ Constructed
  \/ \E t \in Thread : Call(t)
  \/ \E t \in Thread : Sleep(t)
  \/ \E t \in Thread : SpuriousWakeup(t)
  \/ \E t \in Thread : Take(t)
  \/ \E t \in Thread : ReleaseAny(t)
  \/ Destroy
  \/ \E t \in Thread : DropAny(t)

Spec == Init /\ [][Next]_vars

(***************************************************************************)
(* Fairness: a thread that can run is run, and the callers use what they   *)
(* got for a limited time (tests/test_connection_pool.cpp: a second), and  *)
(* return it, or let go of it when the pool is gone.  pool_mutex need not  *)
(* be handed over fairly: the calls are finitely many.                     *)
(***************************************************************************)
Fairness ==
  \A t \in Thread : /\ WF_vars(Sleep(t) \/ Take(t))
                    /\ WF_vars(ReleaseAny(t))
                    /\ WF_vars(DropAny(t))

FairSpec == Spec /\ Fairness

------------------------------------------------------------------------------
TypeOK ==
  /\ life \in {"constructing", "open", "gone"}
  /\ created \in 0..PoolSize
  /\ available_connections \in Seq(Connection)
  /\ getting \subseteq Thread
  /\ asleep \subseteq getting
  /\ lent \in [Thread -> SUBSET Connection]
  /\ closed \subseteq Connection
  /\ gets \in [Thread -> Nat]

(***************************************************************************)
(* A connection that was made is in one place: once in the queue, with one *)
(* thread, or closed.  So no two threads share a connection (which is what *)
(* makes executeTransaction atomic), none is closed while in use, and none *)
(* is lost.                                                                *)
(***************************************************************************)
OnePlace ==
  /\ \A i, j \in DOMAIN available_connections :
       available_connections[i] = available_connections[j] => i = j
  /\ \A s, t \in Thread : s # t => lent[s] \cap lent[t] = {}
  /\ \A t \in Thread : lent[t] \cap (Queued \cup closed) = {}
  /\ Queued \cap closed = {}
  /\ 1..created = Queued \cup closed \cup UNION {lent[t] : t \in Thread}

(***************************************************************************)
(* No wakeup is lost: while a thread sleeps in getConnection the queue is  *)
(* empty.                                                                  *)
(***************************************************************************)
NoSleeperForgotten == asleep # {} => available_connections = <<>>

(***************************************************************************)
(* Threads that hold connections while they wait for more do not deadlock  *)
(* if the pool is large enough: when it is exhausted, somebody who holds a *)
(* connection is not waiting for another.                                  *)
(***************************************************************************)
EnoughConnections == PoolSize > Cardinality(Thread) * (MaxHeld - 1)

SomebodyReturns ==
  (EnoughConnections /\ life = "open" /\ available_connections = <<>>) =>
    \E t \in Thread : t \notin getting /\ lent[t] # {}

(***************************************************************************)
(* getConnection returns, if the pool is large enough and the callers give *)
(* connections back.                                                       *)
(***************************************************************************)
GetReturns == \A t \in Thread : (t \in getting) ~> (t \notin getting)

(***************************************************************************)
(* Every connection is closed in the end, also those that were lent when   *)
(* the pool was destroyed.                                                 *)
(***************************************************************************)
ClosedInTheEnd == (life = "gone") ~> (closed = Connection)
==============================================================================
