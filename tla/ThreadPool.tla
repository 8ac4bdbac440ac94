----------------------------- MODULE ThreadPool ------------------------------
(***************************************************************************)
(* core::ThreadPool (backend/src/core/ThreadPool.cpp): a queue of tasks    *)
(* under queue_mutex, workers that sleep on a condition variable, and a    *)
(* destructor that sets stop and joins the workers.                        *)
(*                                                                         *)
(* One action is one step between two points where another thread can run: *)
(* taking queue_mutex, and each critical section up to where it gives the  *)
(* mutex back.  condition.wait gives up the mutex and starts to sleep in   *)
(* one step; a woken thread must take the mutex again (state "locking")    *)
(* before it tests the predicate, and it may wake spuriously.              *)
(*                                                                         *)
(* One thread (Owner) constructs and destroys the pool, others (Client)    *)
(* submit.  The C++ lifetime rule is the only assumption on them: a client *)
(* calls submitTask after the constructor has returned and not once the    *)
(* destructor has begun, and no call is in progress when it begins.        *)
(***************************************************************************)
EXTENDS Naturals, Sequences, FiniteSets

CONSTANTS
  Worker,      \* the threads the constructor may spawn
  Client,      \* the threads that call submitTask
  Owner,       \* the thread that constructs and destroys the pool
  Task,        \* the callables that are submitted
  NoTask,      \* an empty std::function
  Nobody,      \* the owner of a mutex that is free
  MaxSubmits   \* bound: the number of calls of submitTask

ASSUME WorkerAssumption == IsFiniteSet(Worker)
ASSUME ThreadAssumption ==
  /\ Worker \cap Client = {}
  /\ Owner \notin Worker \cup Client
  /\ Nobody \notin Worker \cup Client \cup {Owner}
ASSUME TaskAssumption == NoTask \notin Task
ASSUME BoundAssumption == MaxSubmits \in Nat

VARIABLES
  life,         \* where the pool is between its constructor and destructor
  workers,      \* workers[w]: where thread w is in workerLoop
  task,         \* task[w]: the local variable task of workerLoop in w
  tasks,        \* the queue
  queue_mutex,  \* the thread that holds queue_mutex, or Nobody
  stop,
  calling,      \* calling[c]: the task c is pushing, or NoTask
  submitted,    \* history: every task pushed, in order
  started       \* history: every task taken from the queue, in order

vars == <<life, workers, task, tasks, queue_mutex, stop, calling,
          submitted, started>>

Life   == {"constructing", "open", "closing", "joining", "gone"}
Place  == {"unborn", "locking", "testing", "waiting", "running", "exited"}
Thread == Worker \cup Client \cup {Owner}

At(place) == {w \in Worker : workers[w] = place}

HasWorkers == At("unborn") # Worker

------------------------------------------------------------------------------
Init ==
  /\ life = "constructing"
  /\ workers = [w \in Worker |-> "unborn"]
  /\ task = [w \in Worker |-> NoTask]
  /\ tasks = <<>>
  /\ queue_mutex = Nobody
  /\ stop = FALSE
  /\ calling = [c \in Client |-> NoTask]
  /\ submitted = <<>>
  /\ started = <<>>

(***************************************************************************)
(* The constructor: one thread after the other, num_threads of them, which *)
(* may be 0 (main passes hardware_concurrency()); the rest of Worker stays *)
(* unborn.  A worker runs as soon as it is spawned, while the constructor  *)
(* is still in its loop.                                                   *)
(***************************************************************************)
Spawn(w) ==
  /\ life = "constructing"
  /\ workers[w] = "unborn"
  /\ workers' = [workers EXCEPT ![w] = "locking"]
  /\ UNCHANGED <<life, task, tasks, queue_mutex, stop, calling, submitted,
                 started>>

Constructed ==
  /\ life = "constructing"
  /\ life' = "open"
  /\ UNCHANGED <<workers, task, tasks, queue_mutex, stop, calling, submitted,
                 started>>

------------------------------------------------------------------------------
(* What notify_one and notify_all of the condition variable do to workers. *)

NotifyIfEmpty ==  \* mutant: notify only when the queue was empty
  \/ /\ At("waiting") = {} \/ tasks # <<>>
     /\ UNCHANGED workers
  \/ /\ tasks = <<>>
     /\ \E w \in At("waiting") : workers' = [workers EXCEPT ![w] = "locking"]

NotifyOne ==
  \/ /\ At("waiting") = {}
     /\ UNCHANGED workers
  \/ \E w \in At("waiting") : workers' = [workers EXCEPT ![w] = "locking"]

NotifyAll ==
  workers' = [w \in Worker |-> IF workers[w] = "waiting" THEN "locking"
                                                          ELSE workers[w]]

(* submitTask: take the mutex; then push, notify one worker, release. *)

SubmitLock(c, t) ==
  /\ life = "open"
  /\ calling[c] = NoTask
  /\ Len(submitted) < MaxSubmits
  /\ queue_mutex = Nobody
  /\ queue_mutex' = c
  /\ calling' = [calling EXCEPT ![c] = t]
  /\ UNCHANGED <<life, workers, task, tasks, stop, submitted, started>>

PushMovedFrom(c) ==  \* mutant: the task is pushed after it was moved from
  /\ calling[c] # NoTask
  /\ tasks' = Append(tasks, NoTask)
  /\ submitted' = Append(submitted, calling[c])
  /\ NotifyOne
  /\ queue_mutex' = Nobody
  /\ calling' = [calling EXCEPT ![c] = NoTask]
  /\ UNCHANGED <<life, task, stop, started>>

PushFront(c) ==  \* mutant: a stack instead of a queue
  /\ calling[c] # NoTask
  /\ tasks' = <<calling[c]>> \o tasks
  /\ submitted' = Append(submitted, calling[c])
  /\ NotifyOne
  /\ queue_mutex' = Nobody
  /\ calling' = [calling EXCEPT ![c] = NoTask]
  /\ UNCHANGED <<life, task, stop, started>>

SubmitPush(c) ==
  /\ calling[c] # NoTask
  /\ tasks' = Append(tasks, calling[c])
  /\ submitted' = Append(submitted, calling[c])
  /\ NotifyOne
  /\ queue_mutex' = Nobody
  /\ calling' = [calling EXCEPT ![c] = NoTask]
  /\ UNCHANGED <<life, task, stop, started>>

------------------------------------------------------------------------------
(* workerLoop *)

Lock(w) ==
  /\ workers[w] = "locking"
  /\ queue_mutex = Nobody
  /\ queue_mutex' = w
  /\ workers' = [workers EXCEPT ![w] = "testing"]
  /\ UNCHANGED <<life, task, tasks, stop, calling, submitted, started>>

WaitOnce(w) ==  \* mutant: condition.wait without the predicate
  /\ workers[w] = "testing"
  /\ ~stop
  /\ workers' = [workers EXCEPT ![w] = "waiting"]
  /\ queue_mutex' = Nobody
  /\ UNCHANGED <<life, task, tasks, stop, calling, submitted, started>>

Wait(w) ==
  /\ workers[w] = "testing"
  /\ tasks = <<>> /\ ~stop
  /\ workers' = [workers EXCEPT ![w] = "waiting"]
  /\ queue_mutex' = Nobody
  /\ UNCHANGED <<life, task, tasks, stop, calling, submitted, started>>

SpuriousWakeup(w) ==
  /\ workers[w] = "waiting"
  /\ workers' = [workers EXCEPT ![w] = "locking"]
  /\ UNCHANGED <<life, task, tasks, queue_mutex, stop, calling, submitted,
                 started>>

ProceedWithoutPop(w) ==  \* mutant: front without pop
  /\ workers[w] = "testing"
  /\ tasks # <<>> \/ stop
  /\ IF tasks = <<>>
     THEN /\ workers' = [workers EXCEPT ![w] = "exited"]
          /\ UNCHANGED <<task, tasks, started>>
     ELSE /\ workers' = [workers EXCEPT ![w] = "running"]
          /\ task' = [task EXCEPT ![w] = Head(tasks)]
          /\ started' = Append(started, Head(tasks))
          /\ UNCHANGED tasks
  /\ queue_mutex' = Nobody
  /\ UNCHANGED <<life, stop, calling, submitted>>

(***************************************************************************)
(* The predicate holds: return if the pool stops and nothing is left,      *)
(* otherwise take the oldest task.  Either way the mutex is released (by   *)
(* the lock's destructor, or by lock.unlock before the task is called).    *)
(***************************************************************************)
Proceed(w) ==
  /\ workers[w] = "testing"
  /\ tasks # <<>> \/ stop
  /\ IF tasks = <<>>
     THEN /\ workers' = [workers EXCEPT ![w] = "exited"]
          /\ UNCHANGED <<task, tasks, started>>
     ELSE /\ workers' = [workers EXCEPT ![w] = "running"]
          /\ task' = [task EXCEPT ![w] = Head(tasks)]
          /\ tasks' = Tail(tasks)
          /\ started' = Append(started, Head(tasks))
  /\ queue_mutex' = Nobody
  /\ UNCHANGED <<life, stop, calling, submitted>>

Finish(w) ==
  /\ workers[w] = "running"
  /\ workers' = [workers EXCEPT ![w] = "locking"]
  /\ task' = [task EXCEPT ![w] = NoTask]
  /\ UNCHANGED <<life, tasks, queue_mutex, stop, calling, submitted, started>>

------------------------------------------------------------------------------
(***************************************************************************)
(* The destructor.  Its unique_lock lives until the closing brace, so      *)
(* queue_mutex is held from DtorLock to DtorReturn, across every join.     *)
(***************************************************************************)
DtorLock ==
  /\ life = "open"
  /\ \A c \in Client : calling[c] = NoTask
  /\ queue_mutex = Nobody
  /\ queue_mutex' = Owner
  /\ life' = "closing"
  /\ UNCHANGED <<workers, task, tasks, stop, calling, submitted, started>>

DtorStopAndUnlock ==  \* mutant: lock.unlock() before the joins
  /\ life = "closing"
  /\ stop' = TRUE
  /\ NotifyAll
  /\ queue_mutex' = Nobody
  /\ life' = "joining"
  /\ UNCHANGED <<task, tasks, calling, submitted, started>>

DtorStop ==
  /\ life = "closing"
  /\ stop' = TRUE
  /\ NotifyAll
  /\ life' = "joining"
  /\ UNCHANGED <<task, tasks, queue_mutex, calling, submitted, started>>

DtorReturn ==
  /\ life = "joining"
  /\ \A w \in Worker : workers[w] \in {"unborn", "exited"}
  /\ life' = "gone"
  /\ queue_mutex' = Nobody
  /\ UNCHANGED <<workers, task, tasks, stop, calling, submitted, started>>

------------------------------------------------------------------------------
(* A worker's own progress: everything but its task and a spurious wakeup. *)
WorkerStep(w) == Lock(w) \/ Wait(w) \/ Proceed(w)

Next ==
  \/ \E w \in Worker : Spawn(w)
  \/ Constructed
  \/ \E c \in Client, t \in Task : SubmitLock(c, t)
  \/ \E c \in Client : SubmitPush(c)
  \/ \E w \in Worker : Lock(w)
  \/ \E w \in Worker : Wait(w)
  \/ \E w \in Worker : SpuriousWakeup(w)
  \/ \E w \in Worker : Proceed(w)
  \/ \E w \in Worker : Finish(w)
  \/ DtorLock
  \/ DtorStop
  \/ DtorReturn

Spec == Init /\ [][Next]_vars

(***************************************************************************)
(* Fairness: the operating system runs every thread that can run.  WF is   *)
(* enough for Lock: queue_mutex need not be handed over fairly, because a  *)
(* worker that overtakes another one takes a task or goes to sleep.        *)
(* Nothing makes the owner destroy the pool, a client submit, or a         *)
(* sleeping worker wake spuriously.                                        *)
(***************************************************************************)
Fairness ==
  /\ \A w \in Worker : WF_vars(WorkerStep(w))
  /\ WF_vars(Constructed)
  /\ \A c \in Client : WF_vars(SubmitPush(c))
  /\ WF_vars(DtorStop) /\ WF_vars(DtorReturn)

FairSpec == Spec /\ Fairness

(* Every task returns: true of a handler whose client disconnects. *)
TasksReturn == \A w \in Worker : WF_vars(Finish(w))

TerminatingSpec == FairSpec /\ TasksReturn

------------------------------------------------------------------------------
TypeOK ==
  /\ life \in Life
  /\ workers \in [Worker -> Place]
  /\ task \in [Worker -> Task \cup {NoTask}]
  /\ tasks \in Seq(Task)
  /\ queue_mutex \in Thread \cup {Nobody}
  /\ stop \in BOOLEAN
  /\ calling \in [Client -> Task \cup {NoTask}]
  /\ submitted \in Seq(Task)
  /\ started \in Seq(Task)

(***************************************************************************)
(* No task is lost, duplicated or reordered between submitTask and the     *)
(* worker that runs it: what was submitted is what was started, followed   *)
(* by what still waits in the queue.                                       *)
(***************************************************************************)
TasksConserved == submitted = started \o tasks

(***************************************************************************)
(* No wakeup is lost: while some worker sleeps, at least as many workers   *)
(* are on their way to the queue as there are tasks in it.  This is what   *)
(* makes one notify_one per push enough, although a worker that has just   *)
(* finished a task can take the one another worker was woken for.          *)
(***************************************************************************)
WorkConserving ==
  At("waiting") # {} =>
    Len(tasks) <= Cardinality(At("locking") \cup At("testing"))

(***************************************************************************)
(* What the code does at shutdown: with at least one worker the destructor *)
(* never gets past its joins, because a worker can return only while it    *)
(* holds queue_mutex and finds stop set, and stop is only ever seen set by *)
(* threads while the destructor itself keeps queue_mutex.                  *)
(***************************************************************************)
DestructorNeverReturns ==
  HasWorkers => life # "gone" /\ At("exited") = {}

(* The comment of ~ThreadPool: terminate all threads and join gracefully.  *)
ShutdownReturns == (life = "closing") ~> (life = "gone")

(***************************************************************************)
(* The pool implements the abstract task queue.                            *)
(***************************************************************************)
TQ == INSTANCE TaskQueue WITH
        pending <- tasks, running <- task,
        open <- HasWorkers /\ life \in {"constructing", "open"}

TaskQueueSpec == TQ!Spec
FairTaskQueueSpec == TQ!FairSpec
==============================================================================
