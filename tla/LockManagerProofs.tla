-------------------------- MODULE LockManagerProofs ---------------------------
(***************************************************************************)
(* Theorems about LockManager, for any threads, resources and stray        *)
(* releases.  The invariants are proved one after the other: types, then   *)
(* HeldIsOwned and NoLostWakeup (which need only types), then OrderInv,    *)
(* and NoPhantom, from which NoCircularWait follows.                       *)
(***************************************************************************)
EXTENDS LockManager, FiniteSetTheorems, TLAPS

(* The 0 that operator[] enters for a missing key is not mistaken for a    *)
(* thread: there is no thread 0, or no other one that releases a resource  *)
(* nobody owns.                                                            *)
ZeroIsNoPhantom == 0 \notin Thread \/ Strays \subseteq {0}

(* A resource owned by a thread is held by that thread.                    *)
NoPhantom ==
  \A r \in Resource, t \in Thread :
    resource_owners[r] = t => r \in held[t]

(* A thread waits for a resource above all those it holds.                 *)
OrderInv ==
  Ordered => \A t \in Thread : want[t] # None => \A q \in held[t] : q < want[t]

------------------------------------------------------------------------------
LEMMA InitType == Init => TypeOK
  BY DEF Init, TypeOK

LEMMA NextType == TypeOK /\ [Next]_vars => TypeOK'
<1> SUFFICES ASSUME TypeOK, [Next]_vars PROVE TypeOK'
  OBVIOUS
<1> USE DEF TypeOK
<1>1. ASSUME NEW t \in Thread, NEW r \in Resource, Call(t, r) PROVE TypeOK'
  BY <1>1 DEF Call
<1>2. ASSUME NEW t \in Thread, Sleep(t) PROVE TypeOK'
  BY <1>2 DEF Sleep
<1>3. ASSUME NEW t \in Thread, SpuriousWakeup(t) PROVE TypeOK'
  BY <1>3 DEF SpuriousWakeup
<1>4. ASSUME NEW t \in Thread, Grab(t) PROVE TypeOK'
  <2>1. want[t] \in Resource
    BY <1>4 DEF Grab
  <2> QED BY <1>4, <2>1 DEF Grab
<1>5. ASSUME NEW t \in Thread, NEW r \in Resource, ReleaseLock(t, r)
      PROVE TypeOK'
  BY <1>5 DEF ReleaseLock, Releasing, Entry
<1>6. CASE UNCHANGED vars
  BY <1>6 DEF vars
<1> QED BY <1>1, <1>2, <1>3, <1>4, <1>5, <1>6 DEF Next

(***************************************************************************)
(* Every variable of the lock manager and its callers keeps its type.      *)
(***************************************************************************)
THEOREM TypeCorrect == Spec => []TypeOK
<1> QED BY InitType, NextType, PTL DEF Spec

------------------------------------------------------------------------------
LEMMA NextHeld == TypeOK /\ HeldIsOwned /\ [Next]_vars => HeldIsOwned'
<1> SUFFICES ASSUME TypeOK, HeldIsOwned, [Next]_vars PROVE HeldIsOwned'
  OBVIOUS
<1> USE DEF TypeOK, HeldIsOwned
<1>1. ASSUME NEW t \in Thread, Grab(t) PROVE HeldIsOwned'
  BY <1>1, FreeIsNoId DEF Grab
<1>2. ASSUME NEW t \in Thread, NEW r \in Resource, ReleaseLock(t, r)
      PROVE HeldIsOwned'
  BY <1>2, FreeIsNoId DEF ReleaseLock, Releasing, Entry
<1>3. CASE \/ UNCHANGED vars
           \/ \E t \in Thread : \/ \E r \in Resource : Call(t, r)
                                \/ Sleep(t) \/ SpuriousWakeup(t)
  BY <1>3 DEF vars, Call, Sleep, SpuriousWakeup
<1> QED BY <1>1, <1>2, <1>3 DEF Next

(***************************************************************************)
(* Mutual exclusion, with any stray releases: what a thread has acquired   *)
(* and not released it owns, so releaseLock takes nothing from others.     *)
(***************************************************************************)
THEOREM MutualExclusion == Spec => []HeldIsOwned
<1>1. Init => TypeOK /\ HeldIsOwned
  BY InitType DEF Init, HeldIsOwned
<1> QED BY <1>1, NextType, NextHeld, PTL DEF Spec

(* What acquireLock grants is nobody's at that moment, and a stray release *)
(* changes nothing for the threads that hold something.                    *)
Use == INSTANCE Lease WITH Client <- Thread, Item <- Resource

LEMMA NextUse == TypeOK /\ HeldIsOwned /\ [Next]_vars => [Use!Next]_held
<1> SUFFICES ASSUME TypeOK, HeldIsOwned, [Next]_vars PROVE [Use!Next]_held
  OBVIOUS
<1>1. ASSUME NEW t \in Thread, Grab(t) PROVE Use!Next
  <2>1. PICK r \in Resource : r = want[t] /\ resource_owners[r] = Free
    BY <1>1 DEF Grab, TypeOK
  <2>2. \A u \in Thread : r \notin held[u]
    BY <2>1, FreeIsNoId DEF HeldIsOwned
  <2>3. held' = [held EXCEPT ![t] = @ \cup {r}]
    BY <1>1, <2>1 DEF Grab
  <2> QED BY <2>2, <2>3 DEF Use!Next, Use!Get
<1>2. ASSUME NEW t \in Thread, NEW r \in Resource, ReleaseLock(t, r)
      PROVE  [Use!Next]_held
  <2>1. held' = [held EXCEPT ![t] = @ \ {r}]
    BY <1>2 DEF ReleaseLock, Releasing
  <2>2. CASE r \in held[t]
    BY <2>1, <2>2 DEF Use!Next, Use!GiveBack
  <2>3. CASE r \notin held[t]
    BY <2>1, <2>3 DEF TypeOK
  <2> QED BY <2>2, <2>3
<1>3. CASE \/ UNCHANGED vars
           \/ \E t \in Thread : \/ \E r \in Resource : Call(t, r)
                                \/ Sleep(t) \/ SpuriousWakeup(t)
  BY <1>3 DEF vars, Call, Sleep, SpuriousWakeup
<1> QED BY <1>1, <1>2, <1>3 DEF Next

(***************************************************************************)
(* LockManager implements the exclusive use of resources, whatever is      *)
(* released by mistake and in whatever order the threads take them.        *)
(***************************************************************************)
THEOREM ImplementsLease == Spec => Use!Spec
<1>1. Init => TypeOK /\ HeldIsOwned /\ Use!Init
  BY InitType DEF Init, HeldIsOwned, Use!Init
<1> QED BY <1>1, NextType, NextHeld, NextUse, PTL DEF Spec, Use!Spec

------------------------------------------------------------------------------
LEMMA NextWakeup == TypeOK /\ NoLostWakeup /\ [Next]_vars => NoLostWakeup'
<1> SUFFICES ASSUME TypeOK, NoLostWakeup, [Next]_vars PROVE NoLostWakeup'
  OBVIOUS
<1> USE DEF TypeOK, NoLostWakeup
<1>1. ASSUME NEW t \in Thread, NEW r \in Resource, Call(t, r)
      PROVE NoLostWakeup'
  BY <1>1 DEF Call
<1>2. ASSUME NEW t \in Thread, Sleep(t) PROVE NoLostWakeup'
  BY <1>2 DEF Sleep
<1>3. ASSUME NEW t \in Thread, SpuriousWakeup(t) PROVE NoLostWakeup'
  BY <1>3 DEF SpuriousWakeup
<1>4. ASSUME NEW t \in Thread, Grab(t) PROVE NoLostWakeup'
  BY <1>4, FreeIsNoId DEF Grab
<1>5. ASSUME NEW t \in Thread, NEW r \in Resource, ReleaseLock(t, r)
      PROVE NoLostWakeup'
  BY <1>5 DEF ReleaseLock
<1>6. CASE UNCHANGED vars
  BY <1>6 DEF vars
<1> QED BY <1>1, <1>2, <1>3, <1>4, <1>5, <1>6 DEF Next

(***************************************************************************)
(* No thread sleeps in acquireLock while its resource is free.             *)
(***************************************************************************)
THEOREM NoSleeperForgotten == Spec => []NoLostWakeup
<1>1. Init => TypeOK /\ NoLostWakeup
  BY InitType DEF Init, NoLostWakeup
<1> QED BY <1>1, NextType, NextWakeup, PTL DEF Spec

------------------------------------------------------------------------------
LEMMA NextOrder == TypeOK /\ OrderInv /\ [Next]_vars => OrderInv'
<1> SUFFICES ASSUME TypeOK, OrderInv, [Next]_vars PROVE OrderInv'
  OBVIOUS
<1> USE DEF TypeOK, OrderInv
<1>1. ASSUME NEW t \in Thread, NEW r \in Resource, Call(t, r) PROVE OrderInv'
  BY <1>1 DEF Call
<1>2. ASSUME NEW t \in Thread, Grab(t) PROVE OrderInv'
  BY <1>2 DEF Grab
<1>3. ASSUME NEW t \in Thread, NEW r \in Resource, ReleaseLock(t, r)
      PROVE OrderInv'
  BY <1>3 DEF ReleaseLock, Releasing
<1>4. CASE UNCHANGED vars \/ \E t \in Thread : Sleep(t) \/ SpuriousWakeup(t)
  BY <1>4 DEF vars, Sleep, SpuriousWakeup
<1> QED BY <1>1, <1>2, <1>3, <1>4 DEF Next

LEMMA NextPhantom ==
  ASSUME ZeroIsNoPhantom
  PROVE  TypeOK /\ HeldIsOwned /\ NoPhantom /\ [Next]_vars => NoPhantom'
<1> SUFFICES ASSUME TypeOK, HeldIsOwned, NoPhantom, [Next]_vars PROVE NoPhantom'
  OBVIOUS
<1> USE DEF TypeOK, NoPhantom
<1>1. ASSUME NEW t \in Thread, Grab(t) PROVE NoPhantom'
  BY <1>1, FreeIsNoId DEF Grab
<1>2. ASSUME NEW t \in Thread, NEW r \in Resource, ReleaseLock(t, r)
      PROVE NoPhantom'
  <2> SUFFICES ASSUME NEW q \in Resource, NEW s \in Thread,
                      resource_owners'[q] = s
               PROVE  q \in held'[s]
    OBVIOUS
  <2>1. CASE q # r
    BY <1>2, <2>1 DEF ReleaseLock, Releasing
  <2>2. CASE q = r /\ resource_owners[r] = Free
    <3>1. s = 0 /\ t # 0
      BY <1>2, <2>2, FreeIsNoId DEF ReleaseLock, Entry
    <3>2. r \notin held[t]
      BY <2>2, FreeIsNoId DEF HeldIsOwned
    <3>3. t \in Strays
      BY <1>2, <3>2 DEF ReleaseLock, Releasing
    <3> QED BY <3>1, <3>3 DEF ZeroIsNoPhantom
  <2>3. CASE q = r /\ resource_owners[r] # Free
    BY <1>2, <2>3, FreeIsNoId DEF ReleaseLock, Releasing, Entry
  <2> QED BY <2>1, <2>2, <2>3
<1>3. CASE \/ UNCHANGED vars
           \/ \E t \in Thread : \/ \E r \in Resource : Call(t, r)
                                \/ Sleep(t) \/ SpuriousWakeup(t)
  BY <1>3 DEF vars, Call, Sleep, SpuriousWakeup
<1> QED BY <1>1, <1>2, <1>3 DEF Next

------------------------------------------------------------------------------
(***************************************************************************)
(* A set of threads that all wait for one another cannot exist: the one    *)
(* that wants the highest resource waits for a thread that holds it, and   *)
(* which would want a higher one.                                          *)
(***************************************************************************)
LEMMA HighestExists ==
  ASSUME NEW W \in SUBSET Resource, W # {}
  PROVE  \E r \in W : \A q \in W : q <= r
<1> DEFINE Above(r) == (r + 1) .. Resources
           T == {Above(r) : r \in W}
           S == 1 .. Resources
<1>1. \A r \in W : IsFiniteSet(Above(r)) /\ Above(r) \subseteq S
  BY FS_Interval, ResourceBound DEF Resource
<1>2. T \subseteq FiniteSubsetsOf(S) /\ T # {}
  BY <1>1 DEF FiniteSubsetsOf
<1>3. PICK A \in T : \A B \in T : ~(<<B, A>> \in StrictSubsetOrdering(S))
  BY <1>2, FS_StrictSubsetOrderingWellFounded, WFMin
<1>4. PICK r \in W : A = Above(r)
  OBVIOUS
<1>5. ASSUME NEW q \in W, r < q PROVE FALSE
  <2>1. Above(q) \subseteq Above(r) /\ q \in Above(r) \ Above(q)
    BY <1>5, ResourceBound DEF Resource
  <2>2. <<Above(q), Above(r)>> \in StrictSubsetOrdering(S)
    BY <1>1, <2>1 DEF StrictSubsetOrdering
  <2> QED BY <1>3, <1>4, <2>2
<1> QED BY <1>5, ResourceBound DEF Resource

LEMMA OrderExcludesCycles ==
  ASSUME Ordered, TypeOK, OrderInv, NoPhantom
  PROVE  NoCircularWait
<1> SUFFICES ASSUME NEW S \in SUBSET Thread, S # {},
                    \A t \in S : want[t] # None /\ resource_owners[want[t]] \in S
             PROVE  FALSE
  BY DEF NoCircularWait
<1> DEFINE W == {want[t] : t \in S}
<1>1. W \in SUBSET Resource /\ W # {}
  BY DEF TypeOK
<1>2. PICK r \in W : \A q \in W : q <= r
  BY <1>1, HighestExists
<1>3. PICK t \in S : r = want[t]
  OBVIOUS
<1>4. PICK s \in S : resource_owners[r] = s
  BY <1>3
<1>5. r \in held[s]
  BY <1>1, <1>4 DEF NoPhantom
<1>6. r < want[s] /\ want[s] \in W
  BY <1>5 DEF OrderInv
<1>7. want[s] <= r
  BY <1>2, <1>6
<1>8. r \in Int /\ want[s] \in Int
  BY <1>1, <1>6 DEF Resource
<1> QED BY <1>6, <1>7, <1>8

(***************************************************************************)
(* Lock ordering guarantees no circular wait, for any number of threads    *)
(* and resources, unless the owner 0 that releaseLock may enter is taken   *)
(* for a thread.                                                           *)
(***************************************************************************)
THEOREM OrderingPreventsDeadlock ==
  ASSUME Ordered, ZeroIsNoPhantom
  PROVE  Spec => []NoCircularWait
<1> DEFINE Inv == TypeOK /\ HeldIsOwned /\ OrderInv /\ NoPhantom
<1>1. Init => Inv
  <2>1. Init => HeldIsOwned /\ OrderInv
    BY DEF Init, HeldIsOwned, OrderInv
  <2>2. Init => NoPhantom
    BY FreeIsNoId DEF Init, NoPhantom
  <2> QED BY <2>1, <2>2, InitType
<1>2. Inv /\ [Next]_vars => Inv'
  BY NextType, NextHeld, NextOrder, NextPhantom
<1>3. Inv => NoCircularWait
  BY OrderExcludesCycles
<1> QED BY <1>1, <1>2, <1>3, PTL DEF Spec
==============================================================================
