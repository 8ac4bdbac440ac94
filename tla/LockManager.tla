----------------------------- MODULE LockManager ------------------------------
(***************************************************************************)
(* core::LockManager (backend/src/core/LockManager.cpp): named locks,      *)
(* each a key of resource_owners, all under one manager_mutex and one      *)
(* condition variable.                                                     *)
(*                                                                         *)
(* Every critical section of manager_mutex runs without waiting for        *)
(* anything but manager_cv, so each is one action: acquireLock is Call,    *)
(* then any number of turns of the wait (Sleep, and a wakeup), then Grab.  *)
(*                                                                         *)
(* The callers are external.  A thread passes its own id (0 to 9 in        *)
(* tests/test_race_conditions.cpp) and takes resources in increasing order *)
(* if Ordered: the first of the strategies LockManager.h names, which is   *)
(* the callers' affair since acquireLock refuses nothing.                  *)
(***************************************************************************)
EXTENDS Integers

CONSTANTS
  Thread,       \* the ids of the threads
  Resources,    \* the number of resources
  Ordered,      \* do threads take resources in increasing order
  Strays,       \* threads that may release what they do not hold
  MaxAcquires,  \* bound: calls of acquireLock by each thread
  Free,         \* no entry in resource_owners
  None          \* a thread that is not in acquireLock

ASSUME ThreadsAreIds == Thread \subseteq Int
ASSUME ResourceBound == Resources \in Nat
ASSUME FreeIsNoId == Free \notin Thread \cup {0}
ASSUME NoneIsNoResource == None \notin Int
ASSUME SettingAssumption ==
  /\ Ordered \in BOOLEAN
  /\ Strays \subseteq Thread
  /\ MaxAcquires \in Nat

(* The resource ids, numbered in the order the callers agree on *)
Resource == 1..Resources

VARIABLES
  resource_owners,  \* resource_owners[r]: the id in the map, or Free
  want,             \* want[t]: the resource t waits for in acquireLock
  asleep,           \* the threads in manager_cv.wait
  held,             \* held[t]: acquired by t and not released by it since
  calls             \* calls[t]: the number of calls of acquireLock by t

vars == <<resource_owners, want, asleep, held, calls>>

------------------------------------------------------------------------------
Init ==
  /\ resource_owners = [r \in Resource |-> Free]
  /\ want = [t \in Thread |-> None]
  /\ asleep = {}
  /\ held = [t \in Thread |-> {}]
  /\ calls = [t \in Thread |-> 0]

Call(t, r) ==
  /\ want[t] = None
  /\ calls[t] < MaxAcquires
  /\ Ordered => \A q \in held[t] : q < r
  /\ want' = [want EXCEPT ![t] = r]
  /\ calls' = [calls EXCEPT ![t] = @ + 1]
  /\ UNCHANGED <<resource_owners, asleep, held>>

(* acquireLock, when the predicate of the wait is false *)
Sleep(t) ==
  /\ want[t] # None /\ t \notin asleep
  /\ resource_owners[want[t]] # Free
  /\ asleep' = asleep \cup {t}
  /\ UNCHANGED <<resource_owners, want, held, calls>>

SpuriousWakeup(t) ==
  /\ t \in asleep
  /\ asleep' = asleep \ {t}
  /\ UNCHANGED <<resource_owners, want, held, calls>>

(* acquireLock, when it is true *)
Grab(t) ==
  /\ want[t] # None /\ t \notin asleep
  /\ resource_owners[want[t]] = Free
  /\ resource_owners' = [resource_owners EXCEPT ![want[t]] = t]
  /\ held' = [held EXCEPT ![t] = @ \cup {want[t]}]
  /\ want' = [want EXCEPT ![t] = None]
  /\ UNCHANGED <<asleep, calls>>

EntryMinusOne(r) ==  \* mutant: a missing key is entered with -1
  IF resource_owners[r] = Free THEN -1 ELSE resource_owners[r]

(* resource_owners[r] of the code: operator[] enters a missing key with 0 *)
Entry(r) ==
  IF resource_owners[r] = Free THEN 0 ELSE resource_owners[r]

Releasing(t, r) ==
  /\ want[t] = None
  /\ r \in held[t] \/ t \in Strays
  /\ held' = [held EXCEPT ![t] = @ \ {r}]
  /\ UNCHANGED <<want, calls>>

ReleaseNotifyOne(t, r) ==  \* mutant: notify_one instead of notify_all
  /\ Releasing(t, r)
  /\ resource_owners' = [resource_owners EXCEPT
                           ![r] = IF Entry(r) = t THEN Free ELSE Entry(r)]
  /\ \/ asleep = {} /\ UNCHANGED asleep
     \/ \E s \in asleep : asleep' = asleep \ {s}

ReleaseUnchecked(t, r) ==  \* mutant: erase whoever owns the resource
  /\ Releasing(t, r)
  /\ resource_owners' = [resource_owners EXCEPT ![r] = Free]
  /\ asleep' = {}

ReleaseKeepsEntry(t, r) ==  \* mutant: no erase
  /\ Releasing(t, r)
  /\ resource_owners' = [resource_owners EXCEPT ![r] = Entry(r)]
  /\ asleep' = {}

(* releaseLock *)
ReleaseLock(t, r) ==
  /\ Releasing(t, r)
  /\ resource_owners' = [resource_owners EXCEPT
                           ![r] = IF Entry(r) = t THEN Free ELSE Entry(r)]
  /\ asleep' = {}

ReleaseHeld(t) == \E r \in held[t] : ReleaseLock(t, r)

Next ==
  \E t \in Thread :
    \/ \E r \in Resource : Call(t, r)
    \/ Sleep(t)
    \/ SpuriousWakeup(t)
    \/ Grab(t)
    \/ \E r \in Resource : ReleaseLock(t, r)

Spec == Init /\ [][Next]_vars

(***************************************************************************)
(* Fairness: a thread that can run is run, and a thread that holds a       *)
(* resource and waits for none releases it some time.  manager_mutex need  *)
(* not be handed over fairly: the calls are finitely many, as the loops of *)
(* tests/test_race_conditions.cpp are.                                     *)
(***************************************************************************)
Fairness ==
  \A t \in Thread : /\ WF_vars(Sleep(t) \/ Grab(t))
                    /\ WF_vars(ReleaseHeld(t))

FairSpec == Spec /\ Fairness

------------------------------------------------------------------------------
TypeOK ==
  /\ resource_owners \in [Resource -> Thread \cup {0, Free}]
  /\ want \in [Thread -> Resource \cup {None}]
  /\ asleep \subseteq Thread
  /\ held \in [Thread -> SUBSET Resource]
  /\ calls \in [Thread -> Nat]

(***************************************************************************)
(* Mutual exclusion: a thread that has acquired a resource and not         *)
(* released it owns it, whatever other threads release by mistake; so no   *)
(* two threads hold the same resource.                                     *)
(***************************************************************************)
HeldIsOwned ==
  \A t \in Thread : \A r \in held[t] : resource_owners[r] = t

(***************************************************************************)
(* No wakeup is lost, although all resources share one condition variable: *)
(* a thread that sleeps waits for a resource that is owned.                *)
(***************************************************************************)
NoLostWakeup ==
  \A t \in asleep : want[t] # None /\ resource_owners[want[t]] # Free

(***************************************************************************)
(* "Lock Ordering: ... guarantees no circular wait" (LockManager.h): in    *)
(* every set of threads there is one that does not wait for a resource     *)
(* owned by a thread of that set.                                          *)
(***************************************************************************)
NoCircularWait ==
  \A S \in SUBSET Thread :
    S # {} => \E t \in S : want[t] = None \/ resource_owners[want[t]] \notin S

(***************************************************************************)
(* acquireLock returns, if threads take resources in order and release     *)
(* them.                                                                   *)
(***************************************************************************)
AcquireReturns == \A t \in Thread : (want[t] # None) ~> (want[t] = None)
==============================================================================
