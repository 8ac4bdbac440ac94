-------------------------- MODULE ThreadPoolProofs ---------------------------
(***************************************************************************)
(* Proofs about ThreadPool, for any finite set of workers (none included), *)
(* any clients, tasks and bound.                                           *)
(***************************************************************************)
EXTENDS ThreadPool, FiniteSetTheorems, SequenceTheorems, TLAPS

(* Who is inside a critical section is who holds queue_mutex. *)
MutexInv ==
  /\ \A w \in Worker : workers[w] = "testing" <=> queue_mutex = w
  /\ \A c \in Client : calling[c] # NoTask <=> queue_mutex = c
  /\ life \in {"closing", "joining"} <=> queue_mutex = Owner

(***************************************************************************)
(* stop is set under the mutex that only the destructor's end gives back,  *)
(* so no worker ever sees it set and none returns from workerLoop.         *)
(***************************************************************************)
ShutdownInv ==
  /\ stop <=> life \in {"joining", "gone"}
  /\ \A w \in Worker : workers[w] # "exited"
  /\ life = "gone" => ~HasWorkers

RunningInv == \A w \in Worker : workers[w] = "running" <=> task[w] # NoTask

IInv ==
  /\ TypeOK
  /\ MutexInv
  /\ ShutdownInv
  /\ RunningInv
  /\ TasksConserved
  /\ WorkConserving

------------------------------------------------------------------------------
(* A task that leaves the head of the queue moves to the end of the tasks  *)
(* started: the history as a whole stays the same.                         *)
LEMMA HeadMoves ==
  ASSUME NEW S, NEW s \in Seq(S), NEW q \in Seq(S), q # <<>>
  PROVE  Append(s, Head(q)) \o Tail(q) = s \o q
<1>1. /\ Head(q) \in S
      /\ Tail(q) \in Seq(S)
      /\ Len(Tail(q)) = Len(q) - 1
      /\ Len(q) \in Nat \ {0}
      /\ \A i \in 1..Len(Tail(q)) : Tail(q)[i] = q[i + 1]
      /\ Head(q) = q[1]
  BY HeadTailProperties, EmptySeq
<1>2. /\ Append(s, Head(q)) \in Seq(S)
      /\ Len(Append(s, Head(q))) = Len(s) + 1
      /\ Len(s) \in Nat
      /\ \A i \in 1..Len(s) : Append(s, Head(q))[i] = s[i]
      /\ Append(s, Head(q))[Len(s) + 1] = Head(q)
  BY <1>1, AppendProperties, LenProperties
<1> DEFINE l == Append(s, Head(q)) \o Tail(q)
           r == s \o q
<1>3. /\ l \in Seq(S) /\ Len(l) = Len(s) + Len(q)
      /\ \A i \in 1..Len(s) + Len(q) :
           l[i] = IF i <= Len(s) + 1 THEN Append(s, Head(q))[i]
                                     ELSE Tail(q)[i - (Len(s) + 1)]
  BY <1>1, <1>2, ConcatProperties
<1>4. /\ r \in Seq(S) /\ Len(r) = Len(s) + Len(q)
      /\ \A i \in 1..Len(s) + Len(q) :
           r[i] = IF i <= Len(s) THEN s[i] ELSE q[i - Len(s)]
  BY ConcatProperties
<1>5. ASSUME NEW i \in 1..Len(l) PROVE l[i] = r[i]
  <2>1. CASE i <= Len(s)
    BY <2>1, <1>2, <1>3, <1>4
  <2>2. CASE i = Len(s) + 1
    BY <2>2, <1>1, <1>2, <1>3, <1>4
  <2>3. CASE i > Len(s) + 1
    <3>1. i - (Len(s) + 1) \in 1..Len(Tail(q))
      BY <2>3, <1>1, <1>2, <1>3
    <3>2. l[i] = q[(i - (Len(s) + 1)) + 1]
      BY <2>3, <3>1, <1>1, <1>2, <1>3
    <3> QED BY <2>3, <3>2, <1>2, <1>3, <1>4
  <2> QED BY <2>1, <2>2, <2>3, <1>2, <1>3
<1> QED BY <1>3, <1>4, <1>5, SeqEqual

(* A task appended to the queue is appended to the history. *)
LEMMA TailGrows ==
  ASSUME NEW S, NEW s \in Seq(S), NEW q \in Seq(S), NEW e \in S
  PROVE  Append(s \o q, e) = s \o Append(q, e)
<1>1. s \o q \in Seq(S) /\ <<e>> \in Seq(S)
  BY ConcatProperties
<1>2. Append(s \o q, e) = (s \o q) \o <<e>>
  BY <1>1, AppendIsConcat
<1>3. Append(q, e) = q \o <<e>>
  BY AppendIsConcat
<1> QED BY <1>1, <1>2, <1>3, ConcatAssociative

------------------------------------------------------------------------------
LEMMA NextType == TypeOK /\ [Next]_vars => TypeOK'
<1> SUFFICES ASSUME TypeOK, [Next]_vars PROVE TypeOK'
  OBVIOUS
<1> USE DEF TypeOK, Thread, Life, Place
<1>1. ASSUME NEW w \in Worker, Spawn(w) PROVE TypeOK'
  BY <1>1 DEF Spawn
<1>2. CASE Constructed
  BY <1>2 DEF Constructed
<1>3. ASSUME NEW c \in Client, NEW t \in Task, SubmitLock(c, t) PROVE TypeOK'
  BY <1>3 DEF SubmitLock
<1>4. ASSUME NEW c \in Client, SubmitPush(c) PROVE TypeOK'
  <2>1. workers' \in [Worker -> Place]
    BY <1>4 DEF SubmitPush, NotifyOne, At
  <2>2. calling[c] \in Task
    BY <1>4 DEF SubmitPush
  <2>3. tasks' \in Seq(Task) /\ submitted' \in Seq(Task)
    BY <1>4, <2>2, AppendProperties DEF SubmitPush
  <2> QED BY <1>4, <2>1, <2>3 DEF SubmitPush
<1>5. ASSUME NEW w \in Worker, Lock(w) PROVE TypeOK'
  BY <1>5 DEF Lock
<1>6. ASSUME NEW w \in Worker, Wait(w) PROVE TypeOK'
  BY <1>6 DEF Wait
<1>7. ASSUME NEW w \in Worker, SpuriousWakeup(w) PROVE TypeOK'
  BY <1>7 DEF SpuriousWakeup
<1>8. ASSUME NEW w \in Worker, Proceed(w) PROVE TypeOK'
  <2>1. CASE tasks = <<>>
    BY <1>8, <2>1 DEF Proceed
  <2>2. CASE tasks # <<>>
    <3>1. Head(tasks) \in Task /\ Tail(tasks) \in Seq(Task)
      BY <2>2, HeadTailProperties
    <3>2. Append(started, Head(tasks)) \in Seq(Task)
      BY <3>1, AppendProperties
    <3> QED BY <1>8, <2>2, <3>1, <3>2 DEF Proceed
  <2> QED BY <2>1, <2>2
<1>9. ASSUME NEW w \in Worker, Finish(w) PROVE TypeOK'
  BY <1>9 DEF Finish
<1>10. CASE DtorLock
  BY <1>10 DEF DtorLock
<1>11. CASE DtorStop
  BY <1>11 DEF DtorStop, NotifyAll
<1>12. CASE DtorReturn
  BY <1>12 DEF DtorReturn
<1>13. CASE UNCHANGED vars
  BY <1>13 DEF vars
<1> QED BY <1>1, <1>2, <1>3, <1>4, <1>5, <1>6, <1>7, <1>8, <1>9, <1>10,
           <1>11, <1>12, <1>13 DEF Next

LEMMA NextMutex == TypeOK /\ MutexInv /\ [Next]_vars => MutexInv'
<1> SUFFICES ASSUME TypeOK, MutexInv, [Next]_vars PROVE MutexInv'
  OBVIOUS
<1> USE ThreadAssumption, TaskAssumption DEF TypeOK, Thread, Life, Place, MutexInv
<1>1. ASSUME NEW w \in Worker, Spawn(w) PROVE MutexInv'
  BY <1>1 DEF Spawn
<1>2. CASE Constructed
  BY <1>2 DEF Constructed
<1>3. ASSUME NEW c \in Client, NEW t \in Task, SubmitLock(c, t) PROVE MutexInv'
  BY <1>3 DEF SubmitLock
<1>4. ASSUME NEW c \in Client, SubmitPush(c) PROVE MutexInv'
  <2>1. \A w \in Worker : workers'[w] = "testing" <=> workers[w] = "testing"
    BY <1>4 DEF SubmitPush, NotifyOne, At
  <2> QED BY <1>4, <2>1 DEF SubmitPush
<1>5. ASSUME NEW w \in Worker, Lock(w) PROVE MutexInv'
  BY <1>5 DEF Lock
<1>6. ASSUME NEW w \in Worker, Wait(w) PROVE MutexInv'
  BY <1>6 DEF Wait
<1>7. ASSUME NEW w \in Worker, SpuriousWakeup(w) PROVE MutexInv'
  BY <1>7 DEF SpuriousWakeup
<1>8. ASSUME NEW w \in Worker, Proceed(w) PROVE MutexInv'
  <2>1. \E place \in {"exited", "running"} :
           workers' = [workers EXCEPT ![w] = place]
    BY <1>8 DEF Proceed
  <2> QED BY <1>8, <2>1 DEF Proceed
<1>9. ASSUME NEW w \in Worker, Finish(w) PROVE MutexInv'
  BY <1>9 DEF Finish
<1>10. CASE DtorLock
  BY <1>10 DEF DtorLock
<1>11. CASE DtorStop
  BY <1>11 DEF DtorStop, NotifyAll
<1>12. CASE DtorReturn
  BY <1>12 DEF DtorReturn
<1>13. CASE UNCHANGED vars
  BY <1>13 DEF vars
<1> QED BY <1>1, <1>2, <1>3, <1>4, <1>5, <1>6, <1>7, <1>8, <1>9, <1>10,
           <1>11, <1>12, <1>13 DEF Next

LEMMA NextShutdown ==
  TypeOK /\ MutexInv /\ ShutdownInv /\ [Next]_vars => ShutdownInv'
<1> SUFFICES ASSUME TypeOK, MutexInv, ShutdownInv, [Next]_vars
             PROVE  ShutdownInv'
  OBVIOUS
<1> USE DEF TypeOK, Life, Place, ShutdownInv, HasWorkers, At
<1>1. ASSUME NEW w \in Worker, Spawn(w) PROVE ShutdownInv'
  BY <1>1 DEF Spawn
<1>2. CASE Constructed
  BY <1>2 DEF Constructed
<1>3. ASSUME NEW c \in Client, NEW t \in Task, SubmitLock(c, t)
      PROVE  ShutdownInv'
  BY <1>3 DEF SubmitLock
<1>4. ASSUME NEW c \in Client, SubmitPush(c) PROVE ShutdownInv'
  <2>1. \A w \in Worker : workers'[w] # "exited"
    BY <1>4 DEF SubmitPush, NotifyOne
  <2> QED BY <1>4, <2>1 DEF SubmitPush, NotifyOne
<1>5. ASSUME NEW w \in Worker, Lock(w) PROVE ShutdownInv'
  BY <1>5 DEF Lock
<1>6. ASSUME NEW w \in Worker, Wait(w) PROVE ShutdownInv'
  BY <1>6 DEF Wait
<1>7. ASSUME NEW w \in Worker, SpuriousWakeup(w) PROVE ShutdownInv'
  BY <1>7 DEF SpuriousWakeup
<1>8. ASSUME NEW w \in Worker, Proceed(w) PROVE ShutdownInv'
  <2>1. ~stop
    <3>1. queue_mutex = w /\ queue_mutex # Owner
      BY <1>8, ThreadAssumption DEF Proceed, MutexInv
    <3>2. life \notin {"joining", "gone"}
      BY <3>1 DEF MutexInv
    <3> QED BY <3>2
  <2>2. workers' = [workers EXCEPT ![w] = "running"]
    BY <1>8, <2>1 DEF Proceed
  <2> QED BY <1>8, <2>2 DEF Proceed
<1>9. ASSUME NEW w \in Worker, Finish(w) PROVE ShutdownInv'
  BY <1>9 DEF Finish
<1>10. CASE DtorLock
  BY <1>10 DEF DtorLock
<1>11. CASE DtorStop
  BY <1>11 DEF DtorStop, NotifyAll
<1>12. CASE DtorReturn
  <2>1. \A w \in Worker : workers[w] = "unborn"
    BY <1>12 DEF DtorReturn
  <2>2. workers' = workers /\ stop' /\ life' = "gone"
    BY <1>12 DEF DtorReturn
  <2>3. ~HasWorkers'
    BY <2>1, <2>2
  <2>4. stop' <=> life' \in {"joining", "gone"}
    BY <2>2
  <2>5. \A w \in Worker : workers'[w] # "exited"
    BY <2>1, <2>2
  <2> QED BY <2>3, <2>4, <2>5
<1>13. CASE UNCHANGED vars
  BY <1>13 DEF vars
<1> QED BY <1>1, <1>2, <1>3, <1>4, <1>5, <1>6, <1>7, <1>8, <1>9, <1>10,
           <1>11, <1>12, <1>13 DEF Next

(* A worker that takes a task finds one in the queue: stop is not set. *)
LEMMA ProceedTakes ==
  ASSUME TypeOK, MutexInv, ShutdownInv, NEW w \in Worker, Proceed(w)
  PROVE  /\ tasks # <<>>
         /\ workers' = [workers EXCEPT ![w] = "running"]
         /\ task' = [task EXCEPT ![w] = Head(tasks)]
         /\ tasks' = Tail(tasks)
         /\ started' = Append(started, Head(tasks))
<1>1. queue_mutex = w /\ queue_mutex # Owner
  BY ThreadAssumption DEF Proceed, MutexInv
<1>2. HasWorkers
  BY DEF Proceed, HasWorkers, At
<1>3. ~stop
  BY <1>1, <1>2 DEF MutexInv, ShutdownInv
<1> QED BY <1>3 DEF Proceed

LEMMA NextRunning ==
  TypeOK /\ MutexInv /\ ShutdownInv /\ RunningInv /\ [Next]_vars => RunningInv'
<1> SUFFICES ASSUME TypeOK, MutexInv, ShutdownInv, RunningInv, [Next]_vars
             PROVE  RunningInv'
  OBVIOUS
<1> USE DEF TypeOK, Place, RunningInv
<1>1. ASSUME NEW w \in Worker, Spawn(w) PROVE RunningInv'
  BY <1>1 DEF Spawn
<1>2. ASSUME NEW c \in Client, SubmitPush(c) PROVE RunningInv'
  <2>1. \A w \in Worker : workers'[w] = "running" <=> workers[w] = "running"
    BY <1>2 DEF SubmitPush, NotifyOne, At
  <2> QED BY <1>2, <2>1 DEF SubmitPush
<1>3. ASSUME NEW w \in Worker, Lock(w) PROVE RunningInv'
  BY <1>3 DEF Lock
<1>4. ASSUME NEW w \in Worker, Wait(w) PROVE RunningInv'
  BY <1>4 DEF Wait
<1>5. ASSUME NEW w \in Worker, SpuriousWakeup(w) PROVE RunningInv'
  BY <1>5 DEF SpuriousWakeup
<1>6. ASSUME NEW w \in Worker, Proceed(w) PROVE RunningInv'
  <2>1. /\ tasks # <<>>
        /\ workers' = [workers EXCEPT ![w] = "running"]
        /\ task' = [task EXCEPT ![w] = Head(tasks)]
    BY <1>6, ProceedTakes
  <2>2. Head(tasks) # NoTask
    BY <2>1, HeadTailProperties, TaskAssumption
  <2> QED BY <2>1, <2>2
<1>7. ASSUME NEW w \in Worker, Finish(w) PROVE RunningInv'
  BY <1>7 DEF Finish
<1>8. CASE DtorStop
  BY <1>8 DEF DtorStop, NotifyAll
<1>9. CASE \/ Constructed \/ DtorLock \/ DtorReturn \/ UNCHANGED vars
           \/ \E c \in Client, t \in Task : SubmitLock(c, t)
  BY <1>9 DEF Constructed, DtorLock, DtorReturn, SubmitLock, vars
<1> QED BY <1>1, <1>2, <1>3, <1>4, <1>5, <1>6, <1>7, <1>8, <1>9 DEF Next

------------------------------------------------------------------------------
LEMMA NextConserved ==
  TypeOK /\ MutexInv /\ ShutdownInv /\ TasksConserved /\ [Next]_vars
    => TasksConserved'
<1> SUFFICES ASSUME TypeOK, MutexInv, ShutdownInv, TasksConserved, [Next]_vars
             PROVE  TasksConserved'
  OBVIOUS
<1> USE DEF TasksConserved
<1>1. ASSUME NEW c \in Client, SubmitPush(c) PROVE TasksConserved'
  <2>1. calling[c] \in Task /\ started \in Seq(Task) /\ tasks \in Seq(Task)
    BY <1>1 DEF SubmitPush, TypeOK
  <2>2. Append(started \o tasks, calling[c]) = started \o Append(tasks, calling[c])
    BY <2>1, TailGrows
  <2> QED BY <1>1, <2>2 DEF SubmitPush
<1>2. ASSUME NEW w \in Worker, Proceed(w) PROVE TasksConserved'
  <2>1. /\ tasks # <<>>
        /\ tasks' = Tail(tasks)
        /\ started' = Append(started, Head(tasks))
    BY <1>2, ProceedTakes
  <2>2. Append(started, Head(tasks)) \o Tail(tasks) = started \o tasks
    BY <2>1, HeadMoves DEF TypeOK
  <2> QED BY <1>2, <2>1, <2>2 DEF Proceed
<1>3. CASE \/ Constructed \/ DtorLock \/ DtorStop \/ DtorReturn
           \/ UNCHANGED vars
           \/ \E c \in Client, t \in Task : SubmitLock(c, t)
           \/ \E w \in Worker : \/ Spawn(w) \/ Lock(w) \/ Wait(w)
                               \/ SpuriousWakeup(w) \/ Finish(w)
  BY <1>3 DEF Constructed, DtorLock, DtorStop, DtorReturn, SubmitLock, Spawn,
              Lock, Wait, SpuriousWakeup, Finish, vars
<1> QED BY <1>1, <1>2, <1>3 DEF Next

------------------------------------------------------------------------------
(* The workers that are on their way to the queue. *)
Awake == At("locking") \cup At("testing")

LEMMA AwakeFinite ==
  /\ IsFiniteSet(Awake)
  /\ Cardinality(Awake) \in Nat
<1>1. Awake \in SUBSET Worker
  BY DEF Awake, At
<1>2. IsFiniteSet(Awake)
  BY <1>1, FS_Subset, WorkerAssumption
<1> QED BY <1>2, FS_CardinalityType

(* A worker that joins the others on their way raises their number by one. *)
LEMMA OneMoreAwake ==
  ASSUME TypeOK, NEW w \in Worker, w \notin Awake,
         workers' = [workers EXCEPT ![w] = "locking"]
  PROVE  Cardinality(Awake') = Cardinality(Awake) + 1
<1>1. Awake' = Awake \cup {w}
  BY DEF Awake, At, TypeOK
<1> QED BY <1>1, FS_AddElement, AwakeFinite

LEMMA NextWorkConserving ==
  TypeOK /\ MutexInv /\ ShutdownInv /\ WorkConserving /\ [Next]_vars
    => WorkConserving'
<1> SUFFICES ASSUME TypeOK, MutexInv, ShutdownInv, WorkConserving, [Next]_vars
             PROVE  (At("waiting") # {} => Len(tasks) <= Cardinality(Awake))'
  BY DEF WorkConserving, Awake
<1>0. /\ At("waiting") # {} => Len(tasks) <= Cardinality(Awake)
      /\ Len(tasks) \in Nat
      /\ Cardinality(Awake) \in Nat
  BY AwakeFinite, LenProperties DEF WorkConserving, Awake, TypeOK
<1>1. ASSUME NEW w \in Worker, NEW place \in {"unborn", "waiting", "running"},
             workers[w] = place, workers' = [workers EXCEPT ![w] = "locking"],
             UNCHANGED tasks
      PROVE  (At("waiting") # {} => Len(tasks) <= Cardinality(Awake))'
  <2>1. w \notin Awake
    BY <1>1 DEF Awake, At
  <2>2. Cardinality(Awake') = Cardinality(Awake) + 1
    BY <1>1, <2>1, OneMoreAwake
  <2>3. At("waiting")' # {} => At("waiting") # {}
    BY <1>1 DEF At, TypeOK
  <2> QED BY <1>0, <1>1, <2>2, <2>3
<1>2. ASSUME NEW c \in Client, SubmitPush(c)
      PROVE  (At("waiting") # {} => Len(tasks) <= Cardinality(Awake))'
  <2>1. Len(tasks') = Len(tasks) + 1
    BY <1>2, AppendProperties DEF SubmitPush, TypeOK
  <2>2. CASE At("waiting") = {} /\ UNCHANGED workers
    BY <2>2 DEF At
  <2>3. ASSUME NEW w \in At("waiting"),
               workers' = [workers EXCEPT ![w] = "locking"]
        PROVE  (At("waiting") # {} => Len(tasks) <= Cardinality(Awake))'
    <3>1. w \in Worker /\ w \notin Awake
      BY DEF At, Awake
    <3>2. Cardinality(Awake') = Cardinality(Awake) + 1
      BY <2>3, <3>1, OneMoreAwake
    <3> QED BY <1>0, <2>1, <3>2
  <2> QED BY <1>2, <2>2, <2>3 DEF SubmitPush, NotifyOne
<1>3. ASSUME NEW w \in Worker, Lock(w)
      PROVE  (At("waiting") # {} => Len(tasks) <= Cardinality(Awake))'
  <2>1. Awake' = Awake /\ At("waiting")' = At("waiting")
    BY <1>3 DEF Lock, Awake, At, TypeOK
  <2> QED BY <1>0, <1>3, <2>1 DEF Lock
<1>4. ASSUME NEW w \in Worker, Wait(w)
      PROVE  (At("waiting") # {} => Len(tasks) <= Cardinality(Awake))'
  <2>1. Len(tasks') = 0
    BY <1>4, EmptySeq DEF Wait
  <2>2. Cardinality(Awake') \in Nat
    <3>1. Awake' \in SUBSET Worker
      BY DEF Awake, At
    <3>2. IsFiniteSet(Awake')
      BY <3>1, FS_Subset, WorkerAssumption
    <3> QED BY <3>2, FS_CardinalityType
  <2> QED BY <2>1, <2>2
<1>5. ASSUME NEW w \in Worker, Proceed(w)
      PROVE  (At("waiting") # {} => Len(tasks) <= Cardinality(Awake))'
  <2>1. /\ tasks # <<>>
        /\ workers' = [workers EXCEPT ![w] = "running"]
        /\ tasks' = Tail(tasks)
    BY <1>5, ProceedTakes
  <2>2. Len(tasks') = Len(tasks) - 1
    BY <2>1, HeadTailProperties DEF TypeOK
  <2>3. w \in Awake /\ Awake' = Awake \ {w} /\ At("waiting")' = At("waiting")
    BY <1>5, <2>1 DEF Proceed, Awake, At, TypeOK
  <2>4. Cardinality(Awake') = Cardinality(Awake) - 1
    BY <2>3, FS_RemoveElement, AwakeFinite
  <2> QED BY <1>0, <2>2, <2>3, <2>4
<1>6. CASE DtorStop
  <2>1. At("waiting")' = {}
    BY <1>6 DEF DtorStop, NotifyAll, At
  <2> QED BY <2>1
<1>7. CASE UNCHANGED <<workers, tasks>>
  BY <1>0, <1>7 DEF At, Awake
<1>8. ASSUME NEW w \in Worker, Spawn(w) \/ SpuriousWakeup(w) \/ Finish(w)
      PROVE  (At("waiting") # {} => Len(tasks) <= Cardinality(Awake))'
  BY <1>1, <1>8 DEF Spawn, SpuriousWakeup, Finish
<1>9. CASE \/ Constructed \/ DtorLock \/ DtorReturn \/ UNCHANGED vars
           \/ \E c \in Client, t \in Task : SubmitLock(c, t)
  BY <1>7, <1>9 DEF Constructed, DtorLock, DtorReturn, SubmitLock, vars
<1> QED BY <1>2, <1>3, <1>4, <1>5, <1>6, <1>8, <1>9 DEF Next

------------------------------------------------------------------------------
LEMMA InitInv == Init => IInv
<1> SUFFICES ASSUME Init PROVE IInv
  OBVIOUS
<1> USE DEF Init
<1>1. TypeOK
  <2>1. <<>> \in Seq(Task)
    BY EmptySeq
  <2> QED BY <2>1 DEF TypeOK, Life, Place, Thread
<1>2. MutexInv /\ ShutdownInv /\ RunningInv
  BY ThreadAssumption DEF MutexInv, ShutdownInv, RunningInv
<1>3. TasksConserved
  BY ConcatEmptySeq, EmptySeq DEF TasksConserved
<1>4. WorkConserving
  BY DEF WorkConserving, At
<1> QED BY <1>1, <1>2, <1>3, <1>4 DEF IInv

LEMMA NextInv == IInv /\ [Next]_vars => IInv'
BY NextType, NextMutex, NextShutdown, NextRunning, NextConserved,
   NextWorkConserving DEF IInv

(* The strengthened invariant holds in every reachable state. *)
LEMMA Invariance == Spec => []IInv
BY InitInv, NextInv, PTL DEF Spec

(* Type correctness: every variable of the pool keeps its type. *)
THEOREM TypeCorrect == Spec => []TypeOK
<1>1. IInv => TypeOK
  BY DEF IInv
<1> QED BY <1>1, Invariance, PTL

(* submitTask and workerLoop lose, duplicate and reorder no task, whatever *)
(* the number of workers, submitting threads and tasks.                    *)
THEOREM NoTaskLost == Spec => []TasksConserved
<1>1. IInv => TasksConserved
  BY DEF IInv
<1> QED BY <1>1, Invariance, PTL

(* One notify_one per push is enough for any number of workers: no worker  *)
(* sleeps while more tasks are queued than workers are on their way.       *)
THEOREM NoLostWakeup == Spec => []WorkConserving
<1>1. IInv => WorkConserving
  BY DEF IInv
<1> QED BY <1>1, Invariance, PTL

(* A pool with at least one worker is never destroyed: the destructor does *)
(* not get past its joins, and no worker returns from workerLoop.          *)
THEOREM DestructorHangs == Spec => []DestructorNeverReturns
<1>1. IInv => DestructorNeverReturns
  BY DEF IInv, ShutdownInv, DestructorNeverReturns, At
<1> QED BY <1>1, Invariance, PTL

------------------------------------------------------------------------------
LEMMA InitRefines == Init => TQ!Init
BY DEF Init, TQ!Init

(* Only the constructor's loop brings a worker to life. *)
LEMMA OthersSpawnNothing ==
  ASSUME TypeOK, [Next]_vars, \A w \in Worker : ~Spawn(w)
  PROVE  At("unborn")' = At("unborn")
<1> SUFFICES \A w \in Worker : workers'[w] = "unborn" <=> workers[w] = "unborn"
  BY DEF At
<1> USE DEF TypeOK
<1>1. ASSUME NEW w \in Worker, Lock(w) \/ Wait(w) \/ SpuriousWakeup(w) \/ Finish(w)
      PROVE  \A v \in Worker : workers'[v] = "unborn" <=> workers[v] = "unborn"
  BY <1>1 DEF Lock, Wait, SpuriousWakeup, Finish
<1>2. ASSUME NEW w \in Worker, Proceed(w)
      PROVE  \A v \in Worker : workers'[v] = "unborn" <=> workers[v] = "unborn"
  <2>1. workers[w] = "testing" /\ \E place \in {"exited", "running"} :
           workers' = [workers EXCEPT ![w] = place]
    BY <1>2 DEF Proceed
  <2> QED BY <2>1
<1>3. ASSUME NEW c \in Client, SubmitPush(c)
      PROVE  \A v \in Worker : workers'[v] = "unborn" <=> workers[v] = "unborn"
  BY <1>3 DEF SubmitPush, NotifyOne, At
<1>4. CASE DtorStop
  BY <1>4 DEF DtorStop, NotifyAll
<1>5. CASE \/ Constructed \/ DtorLock \/ DtorReturn \/ UNCHANGED vars
           \/ \E c \in Client, t \in Task : SubmitLock(c, t)
  BY <1>5 DEF Constructed, DtorLock, DtorReturn, SubmitLock, vars
<1> QED BY <1>1, <1>2, <1>3, <1>4, <1>5 DEF Next

(* Every step of the pool is a step of the abstract queue, or changes      *)
(* nothing the abstract queue shows.                                       *)
LEMMA NextRefines == IInv /\ [Next]_vars => [TQ!Next]_(TQ!tqVars)
<1> SUFFICES ASSUME IInv, [Next]_vars PROVE [TQ!Next]_(TQ!tqVars)
  OBVIOUS
<1> DEFINE begun  == life \in {"constructing", "open"}
           opened == HasWorkers /\ begun
<1>1. ASSUME \A w \in Worker : ~Spawn(w), life' = life PROVE opened' = opened
  <2>1. At("unborn")' = At("unborn")
    BY <1>1, OthersSpawnNothing DEF IInv
  <2> QED BY <1>1, <2>1 DEF HasWorkers
<1>2. ASSUME NEW c \in Client, SubmitPush(c), \A w \in Worker : ~Spawn(w)
      PROVE  TQ!Next
  <2>1. calling[c] \in Task
    BY <1>2 DEF SubmitPush, IInv, TypeOK
  <2>2. opened' = opened
    BY <1>1, <1>2 DEF SubmitPush
  <2>3. TQ!Submit(calling[c])
    BY <1>2, <2>2 DEF SubmitPush, TQ!Submit
  <2> QED BY <2>1, <2>3 DEF TQ!Next
<1>3. ASSUME NEW w \in Worker, Proceed(w), \A v \in Worker : ~Spawn(v)
      PROVE  TQ!Next
  <2>1. /\ tasks # <<>>
        /\ task' = [task EXCEPT ![w] = Head(tasks)]
        /\ tasks' = Tail(tasks)
    BY <1>3, ProceedTakes DEF IInv
  <2>2. task[w] = NoTask
    BY <1>3 DEF Proceed, IInv, RunningInv
  <2>3. opened' = opened
    BY <1>1, <1>3 DEF Proceed
  <2>4. TQ!Start(w)
    BY <2>1, <2>2, <2>3 DEF TQ!Start
  <2> QED BY <2>4 DEF TQ!Next, TQ!StartSome
<1>4. ASSUME NEW w \in Worker, Finish(w), \A v \in Worker : ~Spawn(v)
      PROVE  TQ!Next
  <2>1. task[w] # NoTask
    BY <1>4 DEF Finish, IInv, RunningInv
  <2>2. opened' = opened
    BY <1>1, <1>4 DEF Finish
  <2>3. TQ!Finish(w)
    BY <1>4, <2>1, <2>2 DEF Finish, TQ!Finish
  <2> QED BY <2>3 DEF TQ!Next
<1>5. ASSUME DtorLock, \A v \in Worker : ~Spawn(v)
      PROVE  [TQ!Next]_(TQ!tqVars)
  <2>1. UNCHANGED <<tasks, task>> /\ begun /\ ~begun'
    BY <1>5 DEF DtorLock
  <2>2. CASE HasWorkers
    <3>1. TQ!Close
      BY <2>1, <2>2 DEF TQ!Close
    <3> QED BY <3>1 DEF TQ!Next
  <2>3. CASE ~HasWorkers
    <3>1. opened' = opened
      BY <2>1, <2>3
    <3> QED BY <2>1, <3>1 DEF TQ!tqVars
  <2> QED BY <2>2, <2>3
<1>6. ASSUME NEW w \in Worker, Spawn(w) PROVE [TQ!Next]_(TQ!tqVars)
  <2>1. UNCHANGED <<tasks, task>> /\ opened'
    BY <1>6 DEF Spawn, HasWorkers, At, IInv, TypeOK
  <2>2. CASE opened
    <3>1. opened' = opened
      BY <2>1, <2>2 DEF HasWorkers
    <3> QED BY <2>1, <3>1 DEF TQ!tqVars
  <2>3. CASE ~opened
    <3>1. TQ!Open
      BY <2>1, <2>3 DEF TQ!Open
    <3> QED BY <3>1 DEF TQ!Next
  <2> QED BY <2>2, <2>3
<1>7. ASSUME \/ Constructed \/ DtorStop \/ DtorReturn \/ UNCHANGED vars
             \/ \E c \in Client, t \in Task : SubmitLock(c, t)
             \/ \E w \in Worker : Lock(w) \/ Wait(w) \/ SpuriousWakeup(w),
             \A v \in Worker : ~Spawn(v)
      PROVE  UNCHANGED TQ!tqVars
  <2>1. UNCHANGED <<tasks, task>> /\ begun' = begun
    BY <1>7 DEF Constructed, DtorStop, DtorReturn, SubmitLock, Lock, Wait,
                SpuriousWakeup, vars
  <2>2. At("unborn")' = At("unborn")
    BY <1>7, OthersSpawnNothing DEF IInv
  <2>3. opened' = opened
    BY <2>1, <2>2 DEF HasWorkers
  <2> QED BY <2>1, <2>3 DEF TQ!tqVars
<1> QED BY <1>2, <1>3, <1>4, <1>5, <1>6, <1>7 DEF Next

(* The pool with its mutex, its condition variable and its destructor      *)
(* implements the abstract task queue.                                     *)
THEOREM ImplementsTaskQueue == Spec => TaskQueueSpec
<1>1. Init /\ [][Next]_vars /\ []IInv => TQ!Init /\ [][TQ!Next]_(TQ!tqVars)
  BY InitRefines, NextRefines, PTL
<1> QED BY <1>1, Invariance, PTL DEF Spec, TaskQueueSpec, TQ!Spec
==============================================================================
