------------------------ MODULE ConnectionPoolProofs -------------------------
(***************************************************************************)
(* Theorems about ConnectionPool, for any threads, pool size and number of *)
(* calls.                                                                  *)
(***************************************************************************)
EXTENDS ConnectionPool, FunctionTheorems, FiniteSetTheorems, TLAPS

Elements(s) == {s[i] : i \in DOMAIN s}

Distinct(s) == \A i, j \in DOMAIN s : s[i] = s[j] => i = j

LEMMA AppendElements ==
  ASSUME NEW S, NEW s \in Seq(S), NEW x
  PROVE  /\ Elements(Append(s, x)) = Elements(s) \cup {x}
         /\ Distinct(s) /\ x \notin Elements(s) => Distinct(Append(s, x))
<1> DEFINE a == Append(s, x)
<1>1. /\ DOMAIN s = 1..Len(s) /\ DOMAIN a = 1..(Len(s) + 1)
      /\ Len(s) \in Nat
      /\ \A i \in 1..Len(s) : a[i] = s[i]
      /\ a[Len(s) + 1] = x
  OBVIOUS
<1> HIDE DEF a
<1>2. Elements(a) = Elements(s) \cup {x}
  <2>1. ASSUME NEW y \in Elements(a) PROVE y \in Elements(s) \cup {x}
    <3>1. PICK i \in 1..(Len(s) + 1) : y = a[i]
      BY <1>1, <2>1 DEF Elements
    <3>2. CASE i = Len(s) + 1
      BY <1>1, <3>1, <3>2
    <3>3. CASE i # Len(s) + 1
      <4>1. i \in DOMAIN s
        BY <1>1, <3>3
      <4> QED BY <1>1, <3>1, <4>1 DEF Elements
    <3> QED BY <3>2, <3>3
  <2>2. ASSUME NEW y \in Elements(s) PROVE y \in Elements(a)
    <3>1. PICK i \in DOMAIN s : y = s[i]
      BY <2>2 DEF Elements
    <3>2. i \in DOMAIN a /\ a[i] = y
      BY <1>1, <3>1
    <3> QED BY <3>2 DEF Elements
  <2>3. x \in Elements(a)
    <3>1. Len(s) + 1 \in DOMAIN a
      BY <1>1
    <3> QED BY <1>1, <3>1 DEF Elements
  <2> QED BY <2>1, <2>2, <2>3
<1>3. ASSUME Distinct(s), x \notin Elements(s) PROVE Distinct(a)
  <2>1. \A i \in 1..Len(s) : s[i] # x
    BY <1>1, <1>3 DEF Elements
  <2>2. \A i \in 1..(Len(s) + 1) : i \in 1..Len(s) \/ i = Len(s) + 1
    BY <1>1
  <2> QED BY <1>1, <1>3, <2>1, <2>2 DEF Distinct
<1> QED BY <1>2, <1>3 DEF a

LEMMA TailElements ==
  ASSUME NEW S, NEW s \in Seq(S), s # <<>>
  PROVE  /\ Head(s) \in S /\ Tail(s) \in Seq(S)
         /\ Elements(s) = Elements(Tail(s)) \cup {Head(s)}
         /\ Distinct(s) => Head(s) \notin Elements(Tail(s)) /\ Distinct(Tail(s))
<1> DEFINE u == Tail(s)
<1>1. /\ DOMAIN s = 1..Len(s) /\ DOMAIN u = 1..(Len(s) - 1)
      /\ Len(s) \in Nat \ {0}
      /\ \A i \in 1..(Len(s) - 1) : u[i] = s[i + 1]
      /\ Head(s) = s[1]
  OBVIOUS
<1>2. Head(s) \in S /\ u \in Seq(S)
  OBVIOUS
<1> HIDE DEF u
<1>3. \A i \in 1..Len(s) : i = 1 \/ (i - 1) \in 1..(Len(s) - 1)
  BY <1>1
<1>4. Elements(s) = Elements(u) \cup {Head(s)}
  <2>1. ASSUME NEW y \in Elements(s) PROVE y \in Elements(u) \cup {Head(s)}
    <3>1. PICK i \in 1..Len(s) : y = s[i]
      BY <1>1, <2>1 DEF Elements
    <3>2. CASE i = 1
      BY <1>1, <3>1, <3>2
    <3>3. CASE i # 1
      <4>1. (i - 1) \in DOMAIN u /\ u[i - 1] = y
        BY <1>1, <1>3, <3>1, <3>3
      <4> QED BY <4>1 DEF Elements
    <3> QED BY <3>2, <3>3
  <2>2. ASSUME NEW y \in Elements(u) PROVE y \in Elements(s)
    <3>1. PICK i \in 1..(Len(s) - 1) : y = u[i]
      BY <1>1, <2>2 DEF Elements
    <3>2. (i + 1) \in DOMAIN s /\ s[i + 1] = y
      BY <1>1, <3>1
    <3> QED BY <3>2 DEF Elements
  <2>3. Head(s) \in Elements(s)
    BY <1>1 DEF Elements
  <2> QED BY <2>1, <2>2, <2>3
<1>5. ASSUME Distinct(s) PROVE Head(s) \notin Elements(u) /\ Distinct(u)
  <2>1. \A i \in 1..(Len(s) - 1) : (i + 1) \in DOMAIN s /\ i + 1 # 1
    BY <1>1
  <2>2. Head(s) \notin Elements(u)
    BY <1>1, <1>5, <2>1 DEF Elements, Distinct
  <2>3. ASSUME NEW i \in DOMAIN u, NEW j \in DOMAIN u, u[i] = u[j] PROVE i = j
    <3>1. i + 1 = j + 1
      BY <1>1, <1>5, <2>1, <2>3 DEF Distinct
    <3> QED BY <1>1, <3>1
  <2> QED BY <2>2, <2>3 DEF Distinct
<1> QED BY <1>2, <1>4, <1>5 DEF u

------------------------------------------------------------------------------
(* Where the pool is in its life, and what follows for its queue.          *)
LifeInv ==
  /\ life # "constructing" => created = PoolSize
  /\ life # "gone" => closed = {}
  /\ life # "open" => getting = {}

(* A thread that calls getConnection holds fewer than MaxHeld.             *)
HeldInv ==
  \A t \in Thread :
    /\ IsFiniteSet(lent[t])
    /\ Cardinality(lent[t]) <= MaxHeld
    /\ t \in getting => Cardinality(lent[t]) < MaxHeld

LEMMA InitType == Init => TypeOK
  BY SizeAssumption DEF Init, TypeOK

LEMMA NextType == TypeOK /\ [Next]_vars => TypeOK'
<1> SUFFICES ASSUME TypeOK, [Next]_vars PROVE TypeOK'
  OBVIOUS
<1> USE SizeAssumption DEF TypeOK
<1>1. CASE Create
  <2>1. created + 1 \in Connection
    BY <1>1 DEF Create, Connection
  <2> QED BY <1>1, <2>1 DEF Create
<1>2. CASE Constructed
  BY <1>2 DEF Constructed
<1>3. ASSUME NEW t \in Thread, Call(t) PROVE TypeOK'
  BY <1>3 DEF Call
<1>4. ASSUME NEW t \in Thread, Sleep(t) PROVE TypeOK'
  BY <1>4 DEF Sleep
<1>5. ASSUME NEW t \in Thread, SpuriousWakeup(t) PROVE TypeOK'
  BY <1>5 DEF SpuriousWakeup
<1>6. ASSUME NEW t \in Thread, Take(t) PROVE TypeOK'
  <2>1. /\ Head(available_connections) \in Connection
        /\ Tail(available_connections) \in Seq(Connection)
    BY <1>6 DEF Take
  <2> QED BY <1>6, <2>1 DEF Take
<1>7. ASSUME NEW t \in Thread, ReleaseAny(t) PROVE TypeOK'
  BY <1>7 DEF ReleaseAny, Release, Releasing
<1>8. CASE Destroy
  <2>1. Queued \subseteq Connection
    BY DEF Queued
  <2> QED BY <1>8, <2>1 DEF Destroy
<1>9. ASSUME NEW t \in Thread, DropAny(t) PROVE TypeOK'
  BY <1>9 DEF DropAny, Drop
<1>10. CASE UNCHANGED vars
  BY <1>10 DEF vars
<1> QED BY <1>1, <1>2, <1>3, <1>4, <1>5, <1>6, <1>7, <1>8, <1>9, <1>10 DEF Next

(***************************************************************************)
(* Every variable of the pool and its callers keeps its type.              *)
(***************************************************************************)
THEOREM TypeCorrect == Spec => []TypeOK
  BY InitType, NextType, PTL DEF Spec

------------------------------------------------------------------------------
LEMMA NextLife == TypeOK /\ LifeInv /\ [Next]_vars => LifeInv'
<1> SUFFICES ASSUME TypeOK, LifeInv, [Next]_vars PROVE LifeInv'
  OBVIOUS
<1> USE SizeAssumption DEF TypeOK, LifeInv
<1>1. CASE Create
  BY <1>1 DEF Create
<1>2. CASE Constructed
  BY <1>2 DEF Constructed
<1>3. ASSUME NEW t \in Thread, Call(t) PROVE LifeInv'
  BY <1>3 DEF Call
<1>4. ASSUME NEW t \in Thread, Sleep(t) \/ SpuriousWakeup(t) PROVE LifeInv'
  BY <1>4 DEF Sleep, SpuriousWakeup
<1>5. ASSUME NEW t \in Thread, Take(t) PROVE LifeInv'
  BY <1>5 DEF Take
<1>6. ASSUME NEW t \in Thread, ReleaseAny(t) PROVE LifeInv'
  BY <1>6 DEF ReleaseAny, Release, Releasing
<1>7. CASE Destroy
  BY <1>7 DEF Destroy
<1>8. ASSUME NEW t \in Thread, DropAny(t) PROVE LifeInv'
  BY <1>8 DEF DropAny, Drop
<1>9. CASE UNCHANGED vars
  BY <1>9 DEF vars
<1> QED BY <1>1, <1>2, <1>3, <1>4, <1>5, <1>6, <1>7, <1>8, <1>9 DEF Next

LEMMA NextSleeper ==
  TypeOK /\ LifeInv /\ NoSleeperForgotten /\ [Next]_vars => NoSleeperForgotten'
<1> SUFFICES ASSUME TypeOK, LifeInv, NoSleeperForgotten, [Next]_vars
             PROVE  NoSleeperForgotten'
  OBVIOUS
<1> USE DEF TypeOK, NoSleeperForgotten
<1>1. CASE Create
  <2>1. asleep = {}
    BY <1>1 DEF Create, LifeInv
  <2> QED BY <1>1, <2>1 DEF Create
<1>2. ASSUME NEW t \in Thread, Sleep(t) \/ SpuriousWakeup(t)
      PROVE NoSleeperForgotten'
  BY <1>2 DEF Sleep, SpuriousWakeup
<1>3. ASSUME NEW t \in Thread, Take(t) PROVE NoSleeperForgotten'
  BY <1>3 DEF Take
<1>4. ASSUME NEW t \in Thread, ReleaseAny(t) PROVE NoSleeperForgotten'
  BY <1>4 DEF ReleaseAny, Release
<1>5. CASE \/ Constructed \/ Destroy \/ UNCHANGED vars
           \/ \E t \in Thread : Call(t) \/ DropAny(t)
  BY <1>5 DEF Constructed, Destroy, vars, Call, DropAny, Drop
<1> QED BY <1>1, <1>2, <1>3, <1>4, <1>5 DEF Next

(***************************************************************************)
(* No thread sleeps in getConnection beside a connection in the queue.     *)
(***************************************************************************)
THEOREM NoLostWakeup == Spec => []NoSleeperForgotten
<1>1. Init => TypeOK /\ LifeInv /\ NoSleeperForgotten
  BY InitType DEF Init, LifeInv, NoSleeperForgotten
<1> QED BY <1>1, NextType, NextLife, NextSleeper, PTL DEF Spec

------------------------------------------------------------------------------
(* The parts of OnePlace, with the elements of the queue by name.          *)
LEMMA OnePlaceParts ==
  OnePlace <=>
    /\ Distinct(available_connections)
    /\ \A s, t \in Thread : s # t => lent[s] \cap lent[t] = {}
    /\ \A t \in Thread :
         lent[t] \cap (Elements(available_connections) \cup closed) = {}
    /\ Elements(available_connections) \cap closed = {}
    /\ 1..created = Elements(available_connections) \cup closed
                      \cup UNION {lent[t] : t \in Thread}
  BY DEF OnePlace, Distinct, Elements, Queued

LEMMA NextPlace == TypeOK /\ LifeInv /\ OnePlace /\ [Next]_vars => OnePlace'
<1> SUFFICES ASSUME TypeOK, LifeInv, OnePlace, [Next]_vars PROVE OnePlace'
  OBVIOUS
<1> DEFINE Parts(q, l, d, n) ==
      /\ Distinct(q)
      /\ \A s, t \in Thread : s # t => l[s] \cap l[t] = {}
      /\ \A t \in Thread : l[t] \cap (Elements(q) \cup d) = {}
      /\ Elements(q) \cap d = {}
      /\ 1..n = Elements(q) \cup d \cup UNION {l[t] : t \in Thread}
<1>p. Parts(available_connections, lent, closed, created)
  BY OnePlaceParts
<1>q. ASSUME Parts(available_connections', lent', closed', created')
      PROVE  OnePlace'
  BY <1>q, OnePlaceParts DEF OnePlace, Distinct, Elements, Queued
<1>t. /\ available_connections \in Seq(Connection)
      /\ lent \in [Thread -> SUBSET Connection]
      /\ created \in Nat
  BY SizeAssumption DEF TypeOK
<1>1. CASE Create
  <2>1. /\ available_connections' = Append(available_connections, created + 1)
        /\ created' = created + 1 /\ lent' = lent /\ closed' = closed
    BY <1>1 DEF Create
  <2>2. /\ Elements(available_connections')
             = Elements(available_connections) \cup {created + 1}
        /\ created + 1 \notin Elements(available_connections)
             => Distinct(available_connections')
    BY <1>p, <1>t, <2>1, AppendElements
  <2>3. /\ created + 1 \notin 1..created
        /\ 1..(created + 1) = (1..created) \cup {created + 1}
    BY <1>t
  <2>4. /\ created + 1 \notin Elements(available_connections) \cup closed
        /\ \A t \in Thread : created + 1 \notin lent[t]
    BY <1>p, <2>3
  <2>5. Parts(available_connections', lent', closed', created')
    <3>1. /\ \A s, t \in Thread : s # t => lent'[s] \cap lent'[t] = {}
          /\ \A t \in Thread :
               lent'[t] \cap (Elements(available_connections') \cup closed') = {}
          /\ Elements(available_connections') \cap closed' = {}
      BY <1>p, <2>1, <2>2, <2>4
    <3>2. 1..created' = Elements(available_connections') \cup closed'
                          \cup UNION {lent'[t] : t \in Thread}
      BY <1>p, <2>1, <2>2, <2>3
    <3> QED BY <2>2, <2>4, <3>1, <3>2
  <2> QED BY <1>q, <2>5
<1>2. ASSUME NEW t \in Thread, Take(t) PROVE OnePlace'
  <2> DEFINE h == Head(available_connections)
  <2>1. /\ available_connections # <<>>
        /\ available_connections' = Tail(available_connections)
        /\ lent' = [lent EXCEPT ![t] = @ \cup {h}]
        /\ created' = created /\ closed' = closed
    BY <1>2 DEF Take
  <2>2. /\ Elements(available_connections)
             = Elements(available_connections') \cup {h}
        /\ h \notin Elements(available_connections')
        /\ Distinct(available_connections')
    BY <1>p, <1>t, <2>1, TailElements
  <2> HIDE DEF h
  <2>3. \A s \in Thread : lent'[s] = IF s = t THEN lent[t] \cup {h} ELSE lent[s]
    BY <1>t, <2>1
  <2>4. \A s \in Thread : h \notin lent[s]
    BY <1>p, <2>2
  <2>5. UNION {lent'[s] : s \in Thread}
          = (UNION {lent[s] : s \in Thread}) \cup {h}
    BY <2>3
  <2>6. Parts(available_connections', lent', closed', created')
    <3>1. \A s, u \in Thread : s # u => lent'[s] \cap lent'[u] = {}
      BY <1>p, <2>1, <2>2, <2>3, <2>4, <2>5
    <3>2. \A s \in Thread :
            lent'[s] \cap (Elements(available_connections') \cup closed') = {}
      BY <1>p, <2>1, <2>2, <2>3, <2>4, <2>5
    <3>3. Elements(available_connections') \cap closed' = {}
      BY <1>p, <2>1, <2>2, <2>3, <2>4, <2>5
    <3>4. 1..created' = Elements(available_connections') \cup closed'
                          \cup UNION {lent'[s] : s \in Thread}
      BY <1>p, <2>1, <2>2, <2>3, <2>4, <2>5
    <3> QED BY <3>1, <3>2, <3>3, <3>4, <2>2
  <2> QED BY <1>q, <2>6
<1>3. ASSUME NEW t \in Thread, NEW c \in lent[t], Release(t, c) PROVE OnePlace'
  <2>1. /\ available_connections' = Append(available_connections, c)
        /\ lent' = [lent EXCEPT ![t] = @ \ {c}]
        /\ created' = created /\ closed' = closed
    BY <1>3 DEF Release, Releasing
  <2>2. c \notin Elements(available_connections) \cup closed
    BY <1>p, <1>3
  <2>3. /\ Elements(available_connections')
             = Elements(available_connections) \cup {c}
        /\ Distinct(available_connections')
    BY <1>p, <1>t, <2>1, <2>2, AppendElements
  <2>4. \A s \in Thread : lent'[s] = IF s = t THEN lent[t] \ {c} ELSE lent[s]
    BY <1>t, <2>1
  <2>5. \A s \in Thread : c \notin lent'[s]
    BY <1>p, <1>3, <2>4
  <2>6. UNION {lent[s] : s \in Thread}
          = (UNION {lent'[s] : s \in Thread}) \cup {c}
    BY <1>3, <2>4
  <2>7. Parts(available_connections', lent', closed', created')
    <3>1. \A s, u \in Thread : s # u => lent'[s] \cap lent'[u] = {}
      BY <1>p, <2>1, <2>2, <2>3, <2>4, <2>5, <2>6
    <3>2. \A s \in Thread :
            lent'[s] \cap (Elements(available_connections') \cup closed') = {}
      BY <1>p, <2>1, <2>2, <2>3, <2>4, <2>5, <2>6
    <3>3. Elements(available_connections') \cap closed' = {}
      BY <1>p, <2>1, <2>2, <2>3, <2>4, <2>5, <2>6
    <3>4. 1..created' = Elements(available_connections') \cup closed'
                          \cup UNION {lent'[s] : s \in Thread}
      BY <1>p, <2>1, <2>2, <2>3, <2>4, <2>5, <2>6
    <3> QED BY <3>1, <3>2, <3>3, <3>4, <2>3
  <2> QED BY <1>q, <2>7
<1>4. CASE Destroy
  <2>1. /\ available_connections' = <<>>
        /\ closed' = closed \cup Elements(available_connections)
        /\ lent' = lent /\ created' = created
    BY <1>4 DEF Destroy, Queued, Elements
  <2>2. Elements(available_connections') = {} /\ Distinct(available_connections')
    BY <2>1 DEF Elements, Distinct
  <2>3. Parts(available_connections', lent', closed', created')
    BY <1>p, <2>1, <2>2
  <2> QED BY <1>q, <2>3
<1>5. ASSUME NEW t \in Thread, NEW c \in lent[t], Drop(t, c) PROVE OnePlace'
  <2>1. /\ available_connections' = available_connections
        /\ lent' = [lent EXCEPT ![t] = @ \ {c}]
        /\ created' = created /\ closed' = closed \cup {c}
    BY <1>5 DEF Drop
  <2>2. c \notin Elements(available_connections) \cup closed
    BY <1>p, <1>5
  <2>3. \A s \in Thread : lent'[s] = IF s = t THEN lent[t] \ {c} ELSE lent[s]
    BY <1>t, <2>1
  <2>4. \A s \in Thread : c \notin lent'[s]
    BY <1>p, <1>5, <2>3
  <2>5. UNION {lent[s] : s \in Thread}
          = (UNION {lent'[s] : s \in Thread}) \cup {c}
    BY <1>5, <2>3
  <2>6. Parts(available_connections', lent', closed', created')
    <3>1. \A s, u \in Thread : s # u => lent'[s] \cap lent'[u] = {}
      BY <1>p, <2>1, <2>2, <2>3, <2>4, <2>5
    <3>2. \A s \in Thread :
            lent'[s] \cap (Elements(available_connections') \cup closed') = {}
      BY <1>p, <2>1, <2>2, <2>3, <2>4, <2>5
    <3>3. Elements(available_connections') \cap closed' = {}
      BY <1>p, <2>1, <2>2, <2>3, <2>4, <2>5
    <3>4. 1..created' = Elements(available_connections') \cup closed'
                          \cup UNION {lent'[s] : s \in Thread}
      BY <1>p, <2>1, <2>2, <2>3, <2>4, <2>5
    <3> QED BY <3>1, <3>2, <3>3, <3>4, <1>p, <2>1
  <2> QED BY <1>q, <2>6
<1>6. CASE \/ Constructed \/ UNCHANGED vars
           \/ \E t \in Thread : Call(t) \/ Sleep(t) \/ SpuriousWakeup(t)
  <2>1. UNCHANGED <<available_connections, lent, closed, created>>
    BY <1>6 DEF Constructed, vars, Call, Sleep, SpuriousWakeup
  <2> QED BY <1>p, <1>q, <2>1
<1> QED BY <1>1, <1>2, <1>3, <1>4, <1>5, <1>6 DEF Next, ReleaseAny, DropAny

(***************************************************************************)
(* Every connection is in one place: the pool lends none twice, closes     *)
(* none in use and loses none.                                             *)
(***************************************************************************)
THEOREM LentOnce == Spec => []OnePlace
<1>1. Init => TypeOK /\ LifeInv
  BY InitType DEF Init, LifeInv
<1>2. Init => OnePlace
  BY DEF Init, OnePlace, Queued
<1> QED BY <1>1, <1>2, NextType, NextLife, NextPlace, PTL DEF Spec

------------------------------------------------------------------------------
(* What getConnection returns is nobody's at that moment; a thread gives   *)
(* back by releaseConnection or, when the pool is gone, by dropping it.    *)
Use == INSTANCE Lease WITH Client <- Thread, Item <- Connection, held <- lent

LEMMA NextUse == TypeOK /\ OnePlace /\ [Next]_vars => [Use!Next]_lent
<1> SUFFICES ASSUME TypeOK, OnePlace, [Next]_vars PROVE [Use!Next]_lent
  OBVIOUS
<1>1. ASSUME NEW t \in Thread, Take(t) PROVE Use!Next
  <2>1. available_connections \in Seq(Connection) /\ available_connections # <<>>
    BY <1>1 DEF Take, TypeOK
  <2>2. PICK c \in Connection : /\ c = Head(available_connections)
                                /\ c \in Elements(available_connections)
    BY <2>1, TailElements
  <2>3. \A s \in Thread : c \notin lent[s]
    BY <2>2, OnePlaceParts
  <2>4. lent' = [lent EXCEPT ![t] = @ \cup {c}]
    BY <1>1, <2>2 DEF Take
  <2> QED BY <2>3, <2>4 DEF Use!Next, Use!Get
<1>2. ASSUME NEW t \in Thread, NEW c \in lent[t], Release(t, c) \/ Drop(t, c)
      PROVE  Use!Next
  <2>1. c \in Connection /\ lent' = [lent EXCEPT ![t] = @ \ {c}]
    BY <1>2 DEF Release, Releasing, Drop, TypeOK
  <2> QED BY <2>1 DEF Use!Next, Use!GiveBack
<1>3. CASE \/ Create \/ Constructed \/ Destroy \/ UNCHANGED vars
           \/ \E t \in Thread : Call(t) \/ Sleep(t) \/ SpuriousWakeup(t)
  BY <1>3 DEF Create, Constructed, Destroy, vars, Call, Sleep, SpuriousWakeup
<1> QED BY <1>1, <1>2, <1>3 DEF Next, ReleaseAny, DropAny

(***************************************************************************)
(* The pool implements the exclusive use of connections, for callers that  *)
(* release what they have got, also beyond the end of the pool.            *)
(***************************************************************************)
THEOREM ImplementsLease == Spec => Use!Spec
<1>1. Init => TypeOK /\ LifeInv /\ OnePlace /\ Use!Init
  BY InitType DEF Init, LifeInv, OnePlace, Queued, Use!Init
<1> QED BY <1>1, NextType, NextLife, NextPlace, NextUse, PTL DEF Spec, Use!Spec

------------------------------------------------------------------------------
LEMMA NextHeld == TypeOK /\ HeldInv /\ [Next]_vars => HeldInv'
<1> SUFFICES ASSUME TypeOK, HeldInv, [Next]_vars PROVE HeldInv'
  OBVIOUS
<1> USE SizeAssumption DEF TypeOK
<1>c. \A t \in Thread : Cardinality(lent[t]) \in Nat
  BY FS_CardinalityType DEF HeldInv
<1>1. ASSUME NEW t \in Thread, Call(t) PROVE HeldInv'
  BY <1>1 DEF Call, HeldInv
<1>2. ASSUME NEW t \in Thread, Take(t) PROVE HeldInv'
  <2> DEFINE h == Head(available_connections)
  <2>1. /\ \A s \in Thread :
             lent'[s] = IF s = t THEN lent[t] \cup {h} ELSE lent[s]
        /\ t \in getting /\ getting' = getting \ {t}
    BY <1>2 DEF Take
  <2> HIDE DEF h
  <2>2. /\ IsFiniteSet(lent[t] \cup {h})
        /\ Cardinality(lent[t] \cup {h}) <= Cardinality(lent[t]) + 1
    <3>1. IsFiniteSet(lent[t])
      BY DEF HeldInv
    <3>2. /\ IsFiniteSet(lent[t] \cup {h})
          /\ Cardinality(lent[t] \cup {h}) =
               IF h \in lent[t] THEN Cardinality(lent[t])
                                ELSE Cardinality(lent[t]) + 1
      BY <3>1, FS_AddElement, Zenon
    <3> QED BY <1>c, <3>2
  <2>3. Cardinality(lent[t]) + 1 <= MaxHeld
    BY <1>c, <2>1 DEF HeldInv
  <2>4. Cardinality(lent[t] \cup {h}) \in Nat
    BY <2>2, FS_CardinalityType
  <2> QED BY <1>c, <2>1, <2>2, <2>3, <2>4 DEF HeldInv
<1>3. ASSUME NEW t \in Thread, NEW c \in lent[t], Release(t, c) \/ Drop(t, c)
      PROVE HeldInv'
  <2>1. /\ \A s \in Thread :
             lent'[s] = IF s = t THEN lent[t] \ {c} ELSE lent[s]
        /\ getting' = getting
    BY <1>3 DEF Release, Releasing, Drop
  <2>2. /\ IsFiniteSet(lent[t] \ {c})
        /\ Cardinality(lent[t] \ {c}) < Cardinality(lent[t])
    <3>1. IsFiniteSet(lent[t])
      BY DEF HeldInv
    <3>2. /\ IsFiniteSet(lent[t] \ {c})
          /\ Cardinality(lent[t] \ {c}) =
               IF c \in lent[t] THEN Cardinality(lent[t]) - 1
                                ELSE Cardinality(lent[t])
      BY <3>1, FS_RemoveElement, Zenon
    <3> QED BY <1>c, <3>2
  <2>3. Cardinality(lent[t] \ {c}) \in Nat
    BY <2>2, FS_CardinalityType
  <2> QED BY <1>c, <2>1, <2>2, <2>3 DEF HeldInv
<1>4. CASE \/ Create \/ Constructed \/ Destroy \/ UNCHANGED vars
           \/ \E t \in Thread : Sleep(t) \/ SpuriousWakeup(t)
  BY <1>4 DEF Create, Constructed, Destroy, vars, Sleep, SpuriousWakeup, HeldInv
<1> QED BY <1>1, <1>2, <1>3, <1>4 DEF Next, ReleaseAny, DropAny

(***************************************************************************)
(* A set of at most n elements can be numbered with 1..n.                  *)
(***************************************************************************)
LEMMA Numbering ==
  ASSUME NEW S, IsFiniteSet(S), NEW n \in Nat, Cardinality(S) <= n
  PROVE  \E f \in [S -> 1..n] : \A x, y \in S : f[x] = f[y] => x = y
<1> DEFINE m == Cardinality(S)
<1>1. m \in Nat /\ IsFiniteSet(1..m) /\ Cardinality(1..m) = m
  BY FS_CardinalityType, FS_Interval
<1>2. PICK f : f \in Bijection(S, 1..m)
  BY <1>1, FS_SameCardinalityBij DEF ExistsBijection
<1>3. f \in [S -> 1..m] /\ \A x, y \in S : f[x] = f[y] => x = y
  BY <1>2 DEF Bijection, Injection, IsInjective
<1>4. 1..m \subseteq 1..n
  BY <1>1
<1>5. f \in [S -> 1..n]
  BY <1>3, <1>4
<1> QED BY <1>3, <1>5

(***************************************************************************)
(* If everybody who holds a connection waits for another, each holds fewer *)
(* than MaxHeld, and they cannot hold more than Cardinality(Thread) *      *)
(* (MaxHeld - 1): number the connections of each thread and send a         *)
(* connection to its holder and its number.                                *)
(***************************************************************************)
LEMMA WaitingIsBounded ==
  ASSUME TypeOK, LifeInv, HeldInv, OnePlace, EnoughConnections, life = "open",
         available_connections = <<>>
  PROVE  \E t \in Thread : t \notin getting /\ lent[t] # {}
<1> SUFFICES ASSUME \A t \in Thread : lent[t] # {} => t \in getting
             PROVE  FALSE
  OBVIOUS
<1> USE SizeAssumption
<1> DEFINE n == MaxHeld - 1
           Holder == [c \in Connection |->
                        CHOOSE t \in Thread : c \in lent[t]]
           Number == [t \in Thread |->
                        CHOOSE f \in [lent[t] -> 1..n] :
                          \A x, y \in lent[t] : f[x] = f[y] => x = y]
           Slot == [c \in Connection |-> <<Holder[c], Number[Holder[c]][c]>>]
<1>1. n \in Nat
  OBVIOUS
<1>2. ASSUME NEW c \in Connection PROVE Holder[c] \in Thread /\ c \in lent[Holder[c]]
  <2>1. c \in UNION {lent[t] : t \in Thread}
    <3>1. Queued = {} /\ closed = {} /\ 1..created = Connection
      BY DEF Queued, LifeInv, Connection
    <3> QED BY <3>1 DEF OnePlace
  <2> QED BY <2>1
<1>3. ASSUME NEW t \in Thread
      PROVE  /\ Number[t] \in [lent[t] -> 1..n]
             /\ \A x, y \in lent[t] : Number[t][x] = Number[t][y] => x = y
  <2>1. IsFiniteSet(lent[t]) /\ Cardinality(lent[t]) <= n
    <3>1. IsFiniteSet(lent[t]) /\ Cardinality(lent[t]) \in Nat
      BY FS_CardinalityType DEF HeldInv
    <3>2. CASE lent[t] = {}
      BY <1>1, <3>1, <3>2, FS_EmptySet
    <3>3. CASE t \in getting
      BY <3>1, <3>3 DEF HeldInv
    <3> QED BY <3>2, <3>3
  <2>2. \E f \in [lent[t] -> 1..n] :
          \A x, y \in lent[t] : f[x] = f[y] => x = y
    BY <1>1, <2>1, Numbering
  <2> QED BY <2>2
<1> HIDE DEF Holder, Number
<1>4. Slot \in [Connection -> Thread \X (1..n)]
  BY <1>2, <1>3
<1>5. /\ IsFiniteSet(Connection) /\ Cardinality(Connection) = PoolSize
      /\ IsFiniteSet(1..n) /\ Cardinality(1..n) = n
  BY <1>1, FS_Interval DEF Connection
<1>6. /\ IsFiniteSet(Thread \X (1..n))
      /\ Cardinality(Thread \X (1..n)) < Cardinality(Connection)
  BY <1>5, FS_Product, FinitelyManyThreads DEF EnoughConnections
<1>7. PICK x, y \in Connection : x # y /\ Slot[x] = Slot[y]
  <2> HIDE DEF Slot
  <2> QED BY <1>4, <1>5, <1>6, FS_PigeonHole
<1>8. Holder[x] = Holder[y] /\ Number[Holder[x]][x] = Number[Holder[x]][y]
  BY <1>7
<1> QED BY <1>2, <1>3, <1>7, <1>8

(***************************************************************************)
(* Callers that wait for a further connection while they hold some do not  *)
(* deadlock in a pool of more than Cardinality(Thread) * (MaxHeld - 1)     *)
(* connections.                                                            *)
(***************************************************************************)
THEOREM NoDeadlock == Spec => []SomebodyReturns
<1>1. Init => TypeOK /\ LifeInv /\ HeldInv
  <2>1. Init => HeldInv
    BY FS_EmptySet, SizeAssumption DEF Init, HeldInv
  <2> QED BY <2>1, InitType DEF Init, LifeInv
<1>2. Init => OnePlace
  BY DEF Init, OnePlace, Queued
<1>3. TypeOK /\ LifeInv /\ HeldInv /\ OnePlace => SomebodyReturns
  BY WaitingIsBounded DEF SomebodyReturns
<1> QED BY <1>1, <1>2, <1>3, NextType, NextLife, NextHeld, NextPlace,
           PTL DEF Spec
==============================================================================
