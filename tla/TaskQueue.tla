------------------------------ MODULE TaskQueue ------------------------------
(***************************************************************************)
(* What core::ThreadPool promises to the code that submits to it: tasks    *)
(* leave one FIFO queue, each exactly once and in the order they were      *)
(* submitted, a worker runs one task at a time, and while the pool has not *)
(* begun to shut down a queued task cannot be ignored for ever by workers  *)
(* that are free.  Locks, the condition variable and the workers' loop are *)
(* below this level: ThreadPool.tla has them, and implements this module.  *)
(***************************************************************************)
EXTENDS Sequences

CONSTANTS Worker,   \* the threads of the pool
          Task,     \* what is submitted
          NoTask    \* not a task: the value of a worker that runs nothing

VARIABLES pending,  \* the tasks submitted and not yet taken, oldest first
          running,  \* running[w]: the task worker w executes, or NoTask
          open      \* the pool has workers and is not being destroyed

tqVars == <<pending, running, open>>

Init ==
  /\ pending = <<>>
  /\ running = [w \in Worker |-> NoTask]
  /\ open \in BOOLEAN

Submit(t) ==
  /\ pending' = Append(pending, t)
  /\ running' = running /\ open' = open

Start(w) ==
  /\ running[w] = NoTask
  /\ pending # <<>>
  /\ running' = [running EXCEPT ![w] = Head(pending)]
  /\ pending' = Tail(pending)
  /\ open' = open

Finish(w) ==
  /\ running[w] # NoTask
  /\ running' = [running EXCEPT ![w] = NoTask]
  /\ pending' = pending /\ open' = open

Open ==
  /\ ~open
  /\ open' = TRUE
  /\ UNCHANGED <<pending, running>>

Close ==
  /\ open
  /\ open' = FALSE
  /\ UNCHANGED <<pending, running>>

StartSome == \E w \in Worker : Start(w)

Next ==
  \/ \E t \in Task : Submit(t)
  \/ StartSome
  \/ \E w \in Worker : Finish(w)
  \/ Open
  \/ Close

Spec == Init /\ [][Next]_tqVars

(***************************************************************************)
(* The promise about scheduling: some free worker takes a queued task, as  *)
(* long as the pool stays open.  How long a task runs is the submitter's   *)
(* affair, so nothing is promised about Finish.                            *)
(***************************************************************************)
FairSpec == Spec /\ WF_tqVars(open /\ StartSome)
==============================================================================
