------------------------- MODULE DBConnectionProofs --------------------------
(***************************************************************************)
(* Proofs about DBConnection: what holds however many threads share the    *)
(* connection, and what holds for the calls that do not overlap.           *)
(***************************************************************************)
EXTENDS DBConnection, SequenceTheorems, TLAPS

LEMMA LenScript == \A x \in Txn : Len(Script[x]) \in Nat
<1>1. PICK S : Script \in [Txn -> Seq(S)]
  BY ScriptAssumption
<1>2. ASSUME NEW x \in Txn PROVE Len(Script[x]) \in Nat
  <2>1. Script[x] \in Seq(S)
    BY <1>1
  <2> QED BY <2>1, LenProperties
<1> QED BY <1>2

------------------------------------------------------------------------------
LEMMA InitType == Init => TypeOK
<1> SUFFICES ASSUME Init PROVE TypeOK
  OBVIOUS
<1> USE DEF Init
<1>1. db \in {"null", "open", "broken"}
  OBVIOUS
<1>2. inTxn \in BOOLEAN
  OBVIOUS
<1>3. /\ uncommitted \subseteq UNION {Rows(x) : x \in Txn}
      /\ table \subseteq UNION {Rows(x) : x \in Txn}
  OBVIOUS
<1>4. /\ doing \in [Caller -> Txn \cup {NoTxn}]
      /\ next \in [Caller -> Nat \ {0}]
  OBVIOUS
<1>5. failed \in [Caller -> BOOLEAN]
  OBVIOUS
<1>6. answer \in [Txn -> {{}, {TRUE}, {FALSE}}]
  OBVIOUS
<1>7. overlapped \in BOOLEAN /\ commitFailed \in BOOLEAN
  OBVIOUS
<1> QED BY <1>1, <1>2, <1>3, <1>4, <1>5, <1>6, <1>7 DEF TypeOK

LEMMA NextType == TypeOK /\ [Next]_dbVars => TypeOK'
<1> SUFFICES ASSUME TypeOK, [Next]_dbVars PROVE TypeOK'
  OBVIOUS
<1> USE DEF TypeOK, Idle, Return, store, calls
<1>1. CASE Connect
  <2>1. UNCHANGED <<inTxn, uncommitted, table, doing, next, failed, answer,
                  overlapped, commitFailed>>
    BY <1>1 DEF Connect
  <2>2. db' \in {"open", "broken"}
    BY <1>1 DEF Connect
  <2> QED BY <2>1, <2>2
<1>2. ASSUME NEW c \in Caller, NEW x \in Txn, Refuse(c, x) PROVE TypeOK'
  BY <1>2 DEF Refuse
<1>3. ASSUME NEW c \in Caller, NEW x \in Txn, Begin(c, x) PROVE TypeOK'
  <2>1. inTxn' \in BOOLEAN
    BY <1>3, Zenon DEF Begin, SqlBegin
  <2>2. UNCHANGED <<db, uncommitted, table, answer, commitFailed>>
    BY <1>3 DEF Begin, SqlBegin
  <2>3. /\ doing' \in [Caller -> Txn \cup {NoTxn}]
        /\ next' \in [Caller -> Nat \ {0}]
    BY <1>3 DEF Begin
  <2>4. failed' \in [Caller -> BOOLEAN]
    BY <1>3 DEF Begin
  <2>5. overlapped' \in BOOLEAN
    BY <1>3, Zenon DEF Begin
  <2> QED BY <2>1, <2>2, <2>3, <2>4, <2>5
<1>4. ASSUME NEW c \in Caller, QueryAccepted(c) PROVE TypeOK'
  <2>1. doing[c] \in Txn /\ next[c] \in 1..Len(Script[doing[c]])
    <3>1. doing[c] \in Txn
      BY <1>4 DEF QueryAccepted, AtQuery
    <3>2. Len(Script[doing[c]]) \in Nat
      BY <3>1, LenScript
    <3> QED BY <1>4, <3>1, <3>2 DEF QueryAccepted, AtQuery
  <2>2. Row(doing[c], next[c]) \in UNION {Rows(x) : x \in Txn}
    BY <2>1 DEF Rows
  <2>3. /\ uncommitted' \subseteq UNION {Rows(x) : x \in Txn}
        /\ table' \subseteq UNION {Rows(x) : x \in Txn}
    BY <1>4, <2>2 DEF QueryAccepted, SqlInsert
  <2>4. UNCHANGED <<db, inTxn, doing, failed, answer, overlapped, commitFailed>>
    BY <1>4 DEF QueryAccepted, SqlInsert
  <2>5. next' \in [Caller -> Nat \ {0}]
    BY <1>4 DEF QueryAccepted
  <2> QED BY <2>3, <2>4, <2>5
<1>5. ASSUME NEW c \in Caller, QueryFails(c) PROVE TypeOK'
  BY <1>5 DEF QueryFails
<1>6. ASSUME NEW c \in Caller, Rollback(c) PROVE TypeOK'
  BY <1>6 DEF Rollback, SqlRollback
<1>7. ASSUME NEW c \in Caller, Commit(c) PROVE TypeOK'
  BY <1>7 DEF Commit, AtCommit, SqlCommit
<1>8. ASSUME NEW c \in Caller, CommitFails(c) PROVE TypeOK'
  BY <1>8 DEF CommitFails, AtCommit
<1>9. CASE Close
  BY <1>9 DEF Close, SqlRollback
<1>10. CASE UNCHANGED dbVars
  BY <1>10 DEF dbVars
<1> QED BY <1>1, <1>2, <1>3, <1>4, <1>5, <1>6, <1>7, <1>8, <1>9, <1>10
        DEF Next, Step

(* Type correctness *)
THEOREM TypeCorrect == Spec => []TypeOK
BY InitType, NextType, PTL DEF Spec

------------------------------------------------------------------------------
LEMMA NextTransaction ==
  TypeOK /\ NoDanglingTransaction /\ [Next]_dbVars => NoDanglingTransaction'
<1> SUFFICES ASSUME TypeOK, NoDanglingTransaction, [Next]_dbVars
             PROVE  NoDanglingTransaction'
  OBVIOUS
<1> USE DEF NoDanglingTransaction
<1>1. ASSUME NEW c \in Caller, NEW x \in Txn, Begin(c, x)
      PROVE  NoDanglingTransaction'
  <2>1. doing'[c] # NoTxn
    BY <1>1, NoTxnAssumption DEF Begin, TypeOK
  <2> QED BY <2>1 DEF Idle
<1>2. CASE \/ Close
           \/ \E c \in Caller : Rollback(c) \/ Commit(c)
  BY <1>2 DEF Close, Rollback, Commit, SqlRollback, SqlCommit
<1>3. CASE UNCHANGED <<inTxn, doing, commitFailed>>
  BY <1>3 DEF Idle
<1>4. CASE \/ Connect \/ UNCHANGED dbVars
           \/ \E c \in Caller : \E x \in Txn : Refuse(c, x)
           \/ \E c \in Caller : QueryAccepted(c) \/ QueryFails(c)
  BY <1>3, <1>4 DEF Connect, Refuse, QueryAccepted, QueryFails, SqlInsert,
                    dbVars, store, calls
<1>5. ASSUME NEW c \in Caller, CommitFails(c) PROVE NoDanglingTransaction'
  BY <1>5 DEF CommitFails
<1> QED BY <1>1, <1>2, <1>4, <1>5 DEF Next, Step

(* No call of executeTransaction leaves a transaction open on the shared   *)
(* connection when no other call is in progress, for any number of threads *)
(* in any interleaving, until a COMMIT fails.                              *)
THEOREM TransactionsEnd == Spec => []NoDanglingTransaction
<1>1. Init => NoDanglingTransaction
  BY DEF Init, NoDanglingTransaction
<1> QED BY <1>1, NextTransaction, TypeCorrect, PTL DEF Spec

------------------------------------------------------------------------------
(* A call in progress keeps the handle, and only an open database holds    *)
(* anything that is not durable.                                           *)
StoreInv ==
  /\ \A c \in Caller : ~Idle(c) => db # "null"
  /\ db # "open" => uncommitted = {} /\ ~inTxn

LEMMA InitStore == Init => StoreInv
BY DEF Init, StoreInv, Idle

LEMMA NextStore == TypeOK /\ StoreInv /\ [Next]_dbVars => StoreInv'
<1> SUFFICES ASSUME TypeOK, StoreInv, [Next]_dbVars PROVE StoreInv'
  OBVIOUS
<1> USE DEF StoreInv, Idle
<1>1. CASE Connect
  BY <1>1 DEF Connect, store, calls
<1>2. ASSUME NEW c \in Caller, NEW x \in Txn, Begin(c, x) PROVE StoreInv'
  <2>1. UNCHANGED <<db, uncommitted>> /\ db # "null"
    BY <1>2 DEF Begin, SqlBegin
  <2>2. db # "open" => ~inTxn'
    BY <1>2 DEF Begin, SqlBegin
  <2> QED BY <2>1, <2>2
<1>3. ASSUME NEW c \in Caller, QueryAccepted(c) PROVE StoreInv'
  BY <1>3 DEF QueryAccepted
<1>4. ASSUME NEW c \in Caller, Rollback(c) \/ Commit(c) PROVE StoreInv'
  <2>1. db' = db /\ uncommitted' = {} /\ ~inTxn'
    BY <1>4 DEF Rollback, Commit, SqlRollback, SqlCommit
  <2>2. doing' = [doing EXCEPT ![c] = NoTxn]
    BY <1>4 DEF Rollback, Commit, Return
  <2> QED BY <2>1, <2>2 DEF TypeOK
<1>5. ASSUME NEW c \in Caller, CommitFails(c) PROVE StoreInv'
  BY <1>5 DEF CommitFails, Return, store, TypeOK
<1>6. CASE Close
  BY <1>6 DEF Close, SqlRollback, calls
<1>7. CASE \/ UNCHANGED dbVars
           \/ \E c \in Caller : QueryFails(c) \/ \E x \in Txn : Refuse(c, x)
  <2>1. UNCHANGED <<db, inTxn, uncommitted, doing>>
    BY <1>7 DEF QueryFails, Refuse, dbVars, store, calls
  <2> QED BY <2>1
<1> QED BY <1>1, <1>2, <1>3, <1>4, <1>5, <1>6, <1>7 DEF Next, Step

------------------------------------------------------------------------------
(* A call in progress is one caller's and has no answer yet. *)
CallInv ==
  \A c \in Caller : ~Idle(c) =>
    /\ answer[doing[c]] = {}
    /\ \A d \in Caller : doing[d] = doing[c] => d = c

LEMMA NextCall == TypeOK /\ CallInv /\ [Next]_dbVars => CallInv'
<1> SUFFICES ASSUME TypeOK, CallInv, [Next]_dbVars PROVE CallInv'
  OBVIOUS
<1> USE DEF CallInv, Idle
<1>1. ASSUME NEW c \in Caller, NEW x \in Txn, Refuse(c, x) PROVE CallInv'
  <2>1. /\ doing' = doing /\ answer' = [answer EXCEPT ![x] = {FALSE}]
        /\ \A d \in Caller : doing[d] # x
    BY <1>1 DEF Refuse
  <2> QED BY <2>1 DEF TypeOK
<1>2. ASSUME NEW c \in Caller, NEW x \in Txn, Begin(c, x) PROVE CallInv'
  <2>1. /\ doing' = [doing EXCEPT ![c] = x] /\ answer' = answer
        /\ answer[x] = {} /\ \A d \in Caller : doing[d] # x
    BY <1>2 DEF Begin, Returned
  <2> QED BY <2>1 DEF TypeOK
<1>3. ASSUME NEW c \in Caller, Rollback(c) \/ Commit(c) \/ CommitFails(c)
      PROVE  CallInv'
  <2>1. PICK value \in BOOLEAN :
           /\ ~Idle(c)
           /\ doing' = [doing EXCEPT ![c] = NoTxn]
           /\ answer' = [answer EXCEPT ![doing[c]] = {value}]
    BY <1>3 DEF Rollback, Commit, CommitFails, AtCommit, Return
  <2>2. ASSUME NEW d \in Caller, doing'[d] # NoTxn
        PROVE  d # c /\ doing'[d] = doing[d] /\ doing[d] # doing[c]
    BY <2>1, <2>2 DEF TypeOK
  <2>3. ASSUME NEW d \in Caller, doing'[d] # NoTxn
        PROVE  /\ answer'[doing'[d]] = {}
               /\ \A e \in Caller : doing'[e] = doing'[d] => e = d
    <3>1. answer'[doing'[d]] = answer[doing[d]]
      BY <2>1, <2>2, <2>3 DEF TypeOK
    <3>2. ASSUME NEW e \in Caller, doing'[e] = doing'[d] PROVE e = d
      BY <2>2, <2>3, <3>2
    <3> QED BY <2>2, <2>3, <3>1, <3>2
  <2> QED BY <2>3
<1>4. CASE \/ Connect \/ Close \/ UNCHANGED dbVars
           \/ \E c \in Caller : QueryAccepted(c) \/ QueryFails(c)
  <2>1. UNCHANGED <<doing, answer>>
    BY <1>4 DEF Connect, Close, QueryAccepted, QueryFails, dbVars, calls
  <2> QED BY <2>1
<1> QED BY <1>1, <1>2, <1>3, <1>4 DEF Next, Step

------------------------------------------------------------------------------
(***************************************************************************)
(* Until a call answers FALSE, the rows every call has inserted so far are *)
(* in the file or in the open transaction, whoever began it.               *)
(***************************************************************************)
RowsKept ==
  \A c \in Caller : ~Idle(c) =>
    \A i \in 1..next[c] - 1 : Row(doing[c], i) \in table \cup uncommitted

CleanInv == NothingFailed => RowsKept /\ TrueMeansCommitted

LEMMA NextClean ==
  ASSUME TypeOK, StoreInv, CallInv, CleanInv, [Next]_dbVars
  PROVE  CleanInv'
<1> SUFFICES ASSUME NothingFailed' PROVE (RowsKept /\ TrueMeansCommitted)'
  BY DEF CleanInv
<1>1. ASSUME NothingFailed, UNCHANGED <<doing, next, answer>>,
             table \cup uncommitted \subseteq table' \cup uncommitted',
             table \subseteq table'
      PROVE  (RowsKept /\ TrueMeansCommitted)'
  BY <1>1 DEF CleanInv, RowsKept, TrueMeansCommitted, Idle
<1>2. CASE Connect \/ UNCHANGED dbVars
  <2>1. UNCHANGED <<table, uncommitted, doing, next, failed, answer,
                  commitFailed>>
    BY <1>2 DEF Connect, dbVars, store, calls
  <2>2. NothingFailed
    BY <2>1 DEF NothingFailed, Idle
  <2> QED BY <1>1, <2>1, <2>2
<1>3. CASE Close
  <2>1. /\ UNCHANGED <<table, doing, next, failed, answer, commitFailed>>
        /\ \A c \in Caller : doing[c] = NoTxn
    BY <1>3 DEF Close, SqlRollback, calls, Idle
  <2>2. NothingFailed
    BY <2>1 DEF NothingFailed, Idle
  <2> QED BY <2>1, <2>2 DEF CleanInv, RowsKept, TrueMeansCommitted, Idle
<1>4. ASSUME NEW c \in Caller, NEW x \in Txn, Begin(c, x)
      PROVE  (RowsKept /\ TrueMeansCommitted)'
  <2>1. /\ UNCHANGED <<table, uncommitted, answer, commitFailed>>
        /\ doing[c] = NoTxn
        /\ doing' = [doing EXCEPT ![c] = x]
        /\ next' = [next EXCEPT ![c] = 1]
        /\ failed' = [failed EXCEPT ![c] = FALSE]
    BY <1>4 DEF Begin, SqlBegin, Idle
  <2>2. NothingFailed
    BY <2>1 DEF NothingFailed, Idle, TypeOK
  <2>3. ASSUME NEW d \in Caller, doing'[d] # NoTxn, NEW i \in 1..next'[d] - 1
        PROVE  Row(doing'[d], i) \in table' \cup uncommitted'
    <3>1. d # c
      BY <2>1, <2>3 DEF TypeOK
    <3> QED BY <2>1, <2>2, <2>3, <3>1 DEF CleanInv, RowsKept, Idle, TypeOK
  <2> QED BY <2>1, <2>2, <2>3
          DEF CleanInv, RowsKept, TrueMeansCommitted, Idle
<1>5. ASSUME NEW c \in Caller, QueryAccepted(c)
      PROVE  (RowsKept /\ TrueMeansCommitted)'
  <2>1. /\ UNCHANGED <<doing, failed, answer, commitFailed>>
        /\ next' = [next EXCEPT ![c] = next[c] + 1]
    BY <1>5 DEF QueryAccepted
  <2>2. /\ table \cup uncommitted \subseteq table' \cup uncommitted'
        /\ Row(doing[c], next[c]) \in table' \cup uncommitted'
        /\ table \subseteq table'
    BY <1>5 DEF QueryAccepted, SqlInsert
  <2>3. NothingFailed
    BY <2>1 DEF NothingFailed, Idle
  <2>4. ASSUME NEW d \in Caller, ~Idle(d), NEW i \in 1..next'[d] - 1
        PROVE  Row(doing[d], i) \in table' \cup uncommitted'
    <3>1. CASE i \in 1..next[d] - 1
      BY <2>2, <2>3, <2>4, <3>1 DEF CleanInv, RowsKept
    <3>2. CASE d = c /\ i = next[c]
      BY <2>2, <3>2
    <3> QED BY <2>1, <3>1, <3>2 DEF TypeOK
  <2> QED BY <2>1, <2>2, <2>3, <2>4
          DEF CleanInv, RowsKept, TrueMeansCommitted, Idle
<1>6. ASSUME NEW c \in Caller, QueryFails(c)
      PROVE  (RowsKept /\ TrueMeansCommitted)'
  <2>1. UNCHANGED <<table, uncommitted, doing, next, answer, commitFailed>>
    BY <1>6 DEF QueryFails, store
  <2>2. NothingFailed
    BY <2>1 DEF NothingFailed
  <2> QED BY <1>1, <2>1, <2>2
<1>7. ASSUME NEW c \in Caller PROVE ~Rollback(c)
  <2>1. SUFFICES ASSUME Rollback(c) PROVE FALSE
    OBVIOUS
  <2>2. doing[c] \in Txn /\ answer' = [answer EXCEPT ![doing[c]] = {FALSE}]
    BY <2>1 DEF Rollback, Return, Idle, TypeOK
  <2>3. answer'[doing[c]] = {FALSE}
    BY <2>2 DEF TypeOK
  <2> QED BY <2>2, <2>3 DEF NothingFailed
<1>8. ASSUME NEW c \in Caller, NEW x \in Txn PROVE ~Refuse(c, x)
  <2>1. SUFFICES ASSUME Refuse(c, x) PROVE FALSE
    OBVIOUS
  <2>2. answer'[x] = {FALSE}
    BY <2>1 DEF Refuse, TypeOK
  <2> QED BY <2>2 DEF NothingFailed
<1>9. ASSUME NEW c \in Caller, Commit(c)
      PROVE  (RowsKept /\ TrueMeansCommitted)'
  <2>1. /\ ~Idle(c) /\ doing[c] \in Txn /\ ~failed[c]
        /\ next[c] > Len(Script[doing[c]])
        /\ table' = table \cup uncommitted /\ uncommitted' = {}
        /\ doing' = [doing EXCEPT ![c] = NoTxn]
        /\ answer' = [answer EXCEPT ![doing[c]] = {TRUE}]
        /\ UNCHANGED <<next, failed, commitFailed>>
    BY <1>9 DEF Commit, AtCommit, SqlCommit, Return, Idle, TypeOK
  <2>2. NothingFailed
    <3>1. ASSUME NEW x \in Txn PROVE answer[x] # {FALSE}
      <4>1. CASE x = doing[c]
        BY <2>1, <4>1 DEF CallInv
      <4>2. CASE x # doing[c]
        <5>1. answer'[x] = answer[x]
          BY <2>1, <4>2 DEF TypeOK
        <5> QED BY <5>1 DEF NothingFailed
      <4> QED BY <4>1, <4>2
    <3>2. ~commitFailed
      BY <2>1 DEF NothingFailed
    <3> QED BY <3>1, <3>2 DEF NothingFailed
  <2>3. RowsKept /\ TrueMeansCommitted
    BY <2>2 DEF CleanInv
  <2>4. Rows(doing[c]) \subseteq table'
    <3>1. \A i \in 1..Len(Script[doing[c]]) : i \in 1..next[c] - 1
      BY <2>1, LenScript DEF TypeOK
    <3>2. \A i \in 1..Len(Script[doing[c]]) : Row(doing[c], i) \in table'
      BY <2>1, <2>3, <3>1 DEF RowsKept
    <3> QED BY <3>2 DEF Rows
  <2>5. TrueMeansCommitted'
    BY <2>1, <2>3, <2>4 DEF TrueMeansCommitted, TypeOK
  <2>6. RowsKept'
    BY <2>1, <2>3 DEF RowsKept, Idle, TypeOK
  <2> QED BY <2>5, <2>6
<1>10. ASSUME NEW c \in Caller PROVE ~CommitFails(c)
  BY DEF CommitFails, NothingFailed
<1> QED BY <1>2, <1>3, <1>4, <1>5, <1>6, <1>7, <1>8, <1>9, <1>10 DEF Next, Step

(***************************************************************************)
(* Any number of threads may share the connection without a lock, in any   *)
(* interleaving, and TRUE still means committed, until the first call      *)
(* answers FALSE.  The premise is needed: one failed statement in another  *)
(* thread's call is enough to lose a committed one (run                    *)
(* server_lost_commit).                                                    *)
(***************************************************************************)
THEOREM CleanCallsAreDurable == Spec => []CommittedWhileClean
<1> DEFINE Inv == TypeOK /\ StoreInv /\ CallInv /\ CleanInv
<1>1. Init => Inv
  <2>1. Init => CallInv /\ CleanInv
    BY DEF Init, CallInv, CleanInv, RowsKept, Idle, TrueMeansCommitted
  <2> QED BY <2>1, InitType, InitStore
<1>2. Inv /\ [Next]_dbVars => Inv'
  BY NextType, NextStore, NextCall, NextClean
<1>3. Inv => CommittedWhileClean
  BY DEF CleanInv, CommittedWhileClean
<1> QED BY <1>1, <1>2, <1>3, PTL DEF Spec

------------------------------------------------------------------------------
(***************************************************************************)
(* Calls that do not overlap: the open transaction is the caller's own and *)
(* holds exactly the rows its call has inserted so far.  Between two calls *)
(* there is none, even if earlier ones did overlap.                        *)
(***************************************************************************)
Alone == \A c, d \in Caller : ~Idle(c) /\ ~Idle(d) => c = d

OwnTransaction(c) ==
  /\ answer[doing[c]] = {}
  /\ db = "open" => inTxn
  /\ uncommitted = {Row(doing[c], i) : i \in 1..next[c] - 1}
  /\ next[c] <= Len(Script[doing[c]]) + 1

ExclusiveInv ==
  ~commitFailed =>
    /\ ~overlapped => Alone /\ \A c \in Caller : ~Idle(c) => OwnTransaction(c)
    /\ (\A c \in Caller : Idle(c)) => uncommitted = {} /\ ~inTxn

LEMMA NextExclusive ==
  ASSUME TypeOK, StoreInv, ExclusiveInv, [Next]_dbVars
  PROVE  ExclusiveInv'
<1> SUFFICES ASSUME ~commitFailed' PROVE ExclusiveInv'
  BY DEF ExclusiveInv
<1> USE DEF ExclusiveInv, Alone, OwnTransaction, Idle
<1>1. CASE Connect
  BY <1>1 DEF Connect, StoreInv, store, calls
<1>2. CASE Close
  BY <1>2 DEF Close, SqlRollback, calls
<1>3. ASSUME NEW c \in Caller, NEW x \in Txn, Begin(c, x) PROVE ExclusiveInv'
  <2>1. /\ doing' = [doing EXCEPT ![c] = x]
        /\ next' = [next EXCEPT ![c] = 1]
        /\ UNCHANGED <<db, uncommitted, answer, commitFailed>>
        /\ overlapped' = \E d \in Caller \ {c} : ~Idle(d)
        /\ answer[x] = {} /\ Idle(c)
        /\ db = "open" => inTxn'
    BY <1>3 DEF Begin, SqlBegin, Returned
  <2>2. x # NoTxn /\ Len(Script[x]) \in Nat
    BY NoTxnAssumption, LenScript
  <2>3. doing'[c] = x /\ next'[c] = 1
    BY <2>1 DEF TypeOK
  <2>4. SUFFICES ASSUME ~overlapped'
                 PROVE  Alone' /\ \A d \in Caller : ~Idle(d)' => OwnTransaction(d)'
    BY <2>2, <2>3
  <2>5. \A d \in Caller : Idle(d)
    BY <2>1, <2>4
  <2>6. \A d \in Caller : ~Idle(d)' => d = c
    BY <2>1, <2>5 DEF TypeOK
  <2>7. uncommitted = {}
    BY <2>1, <2>5
  <2>8. {Row(x, i) : i \in 1..next'[c] - 1} = {}
    BY <2>3
  <2> QED BY <2>1, <2>2, <2>3, <2>6, <2>7, <2>8
<1>4. ASSUME NEW c \in Caller, QueryAccepted(c) PROVE ExclusiveInv'
  <2>1. /\ ~Idle(c) /\ db = "open" /\ next[c] <= Len(Script[doing[c]])
        /\ UNCHANGED <<db, doing, failed, answer, overlapped, commitFailed>>
        /\ next' = [next EXCEPT ![c] = next[c] + 1]
    BY <1>4 DEF QueryAccepted, AtQuery
  <2>2. SUFFICES ASSUME ~overlapped
                 PROVE  \A d \in Caller : ~Idle(d)' => OwnTransaction(d)'
    BY <2>1
  <2>3. OwnTransaction(c) /\ \A d \in Caller : ~Idle(d) => d = c
    BY <2>1, <2>2
  <2>4. /\ uncommitted' = uncommitted \cup {Row(doing[c], next[c])}
        /\ inTxn /\ inTxn'
    BY <1>4, <2>1, <2>3 DEF QueryAccepted, SqlInsert
  <2>5. /\ next[c] \in Nat \ {0} /\ next'[c] = next[c] + 1
        /\ doing[c] \in Txn /\ Len(Script[doing[c]]) \in Nat
    BY <2>1, LenScript DEF TypeOK
  <2>6. uncommitted' = {Row(doing[c], i) : i \in 1..next'[c] - 1}
    <3>1. 1..next'[c] - 1 = (1..next[c] - 1) \cup {next[c]}
      BY <2>5
    <3> QED BY <2>3, <2>4, <3>1
  <2>7. next'[c] <= Len(Script[doing[c]]) + 1
    BY <2>1, <2>5
  <2> QED BY <2>1, <2>3, <2>4, <2>6, <2>7
<1>5. ASSUME NEW c \in Caller, Rollback(c) \/ Commit(c) PROVE ExclusiveInv'
  <2>1. /\ uncommitted' = {} /\ ~inTxn' /\ ~Idle(c)
        /\ UNCHANGED <<db, overlapped, commitFailed>>
    BY <1>5 DEF Rollback, Commit, AtCommit, SqlRollback, SqlCommit
  <2>2. doing' = [doing EXCEPT ![c] = NoTxn]
    BY <1>5 DEF Rollback, Commit, Return
  <2>3. SUFFICES ASSUME ~overlapped PROVE \A d \in Caller : Idle(d)'
    BY <2>1
  <2> QED BY <2>1, <2>2, <2>3 DEF TypeOK
<1>6. ASSUME NEW c \in Caller, NEW x \in Txn, Refuse(c, x)
      PROVE  ExclusiveInv'
  <2>1. /\ UNCHANGED <<db, inTxn, uncommitted, doing, next, overlapped,
                       commitFailed>>
        /\ db = "null"
    BY <1>6 DEF Refuse, store
  <2>2. \A d \in Caller : Idle(d)
    BY <2>1 DEF StoreInv
  <2> QED BY <2>1, <2>2
<1>7. ASSUME NEW c \in Caller PROVE ~CommitFails(c)
  BY DEF CommitFails
<1>8. CASE \/ UNCHANGED dbVars
           \/ \E c \in Caller : QueryFails(c)
  <2>1. UNCHANGED <<db, inTxn, uncommitted, doing, next, answer, overlapped,
                    commitFailed>>
    BY <1>8 DEF QueryFails, dbVars, store, calls
  <2> QED BY <2>1
<1> QED BY <1>1, <1>2, <1>3, <1>4, <1>5, <1>6, <1>7, <1>8 DEF Next, Step

(* Every statement of such a call is a step of the atomic store, or none. *)
LEMMA NextRefines ==
  ASSUME TypeOK, StoreInv, ExclusiveInv, [Next]_dbVars
  PROVE  [overlapped' \/ commitFailed' \/ AS!Next]_(AS!asVars)
<1> SUFFICES ASSUME ~overlapped', ~commitFailed' PROVE [AS!Next]_(AS!asVars)
  OBVIOUS
<1>1. ASSUME NEW c \in Caller,
             UNCHANGED <<overlapped, commitFailed>>, ~Idle(c)
      PROVE  OwnTransaction(c)
  BY <1>1 DEF ExclusiveInv
<1>2. ASSUME NEW c \in Caller, Commit(c) PROVE AS!Next
  <2>1. /\ ~Idle(c) /\ doing[c] \in Txn
        /\ next[c] > Len(Script[doing[c]])
        /\ table' = table \cup uncommitted
        /\ answer' = [answer EXCEPT ![doing[c]] = {TRUE}]
        /\ UNCHANGED <<overlapped, commitFailed>>
    BY <1>2 DEF Commit, AtCommit, SqlCommit, Return, Idle, TypeOK
  <2>2. /\ answer[doing[c]] = {}
        /\ uncommitted = {Row(doing[c], i) : i \in 1..next[c] - 1}
        /\ next[c] <= Len(Script[doing[c]]) + 1
    BY <1>1, <2>1 DEF OwnTransaction
  <2>3. next[c] - 1 = Len(Script[doing[c]])
    BY <2>1, <2>2, LenScript DEF TypeOK
  <2>4. uncommitted = Rows(doing[c])
    BY <2>2, <2>3 DEF Rows
  <2>5. AS!Succeed(doing[c])
    BY <2>1, <2>2, <2>4 DEF AS!Succeed
  <2> QED BY <2>1, <2>5 DEF AS!Next
<1>3. ASSUME NEW c \in Caller, Rollback(c) PROVE AS!Next
  <2>1. /\ ~Idle(c) /\ doing[c] \in Txn
        /\ table' = table
        /\ answer' = [answer EXCEPT ![doing[c]] = {FALSE}]
        /\ UNCHANGED <<overlapped, commitFailed>>
    BY <1>3 DEF Rollback, SqlRollback, Return, Idle, TypeOK
  <2>2. AS!Fail(doing[c])
    BY <1>1, <2>1 DEF AS!Fail, OwnTransaction
  <2> QED BY <2>1, <2>2 DEF AS!Next
<1>4. ASSUME NEW c \in Caller, NEW x \in Txn, Refuse(c, x) PROVE AS!Next
  <2>1. AS!Fail(x)
    BY <1>4 DEF Refuse, Returned, store, AS!Fail
  <2> QED BY <2>1 DEF AS!Next
<1>5. ASSUME NEW c \in Caller, QueryAccepted(c)
      PROVE  UNCHANGED <<table, answer>>
  <2>1. /\ ~Idle(c) /\ db = "open"
        /\ UNCHANGED <<answer, overlapped, commitFailed>>
    BY <1>5 DEF QueryAccepted, AtQuery
  <2>2. inTxn
    BY <1>1, <2>1 DEF OwnTransaction
  <2> QED BY <1>5, <2>1, <2>2 DEF QueryAccepted, SqlInsert
<1>6. CASE \/ Connect \/ Close \/ UNCHANGED dbVars
           \/ \E c \in Caller : \/ QueryFails(c)
                               \/ \E x \in Txn : Begin(c, x)
  BY <1>6 DEF Connect, Close, SqlRollback, QueryFails, Begin, SqlBegin, dbVars,
              store, calls, AS!asVars
<1>7. ASSUME NEW c \in Caller PROVE ~CommitFails(c)
  BY DEF CommitFails
<1> QED BY <1>2, <1>3, <1>4, <1>5, <1>6, <1>7 DEF Next, Step, AS!asVars

(***************************************************************************)
(* executeTransaction is atomic for calls that do not overlap, until a     *)
(* COMMIT fails, whatever other calls did before, whatever statements are  *)
(* rejected and whether or not the file could be opened.                   *)
(***************************************************************************)
THEOREM ExclusiveCallsAreAtomic == Spec => AtomicStoreSpec
<1> DEFINE Inv == TypeOK /\ StoreInv /\ ExclusiveInv
<1>1. Init => Inv
  <2>1. Init => ExclusiveInv
    BY DEF Init, ExclusiveInv, Alone, Idle
  <2> QED BY <2>1, InitType, InitStore
<1>2. Inv /\ [Next]_dbVars => Inv'
  BY NextType, NextStore, NextExclusive
<1>3. Init => AS!Init
  BY DEF Init, AS!Init
<1>4. Inv /\ [Next]_dbVars => [overlapped' \/ commitFailed' \/ AS!Next]_(AS!asVars)
  BY NextRefines
<1> QED BY <1>1, <1>2, <1>3, <1>4, PTL DEF Spec, AtomicStoreSpec

LEMMA NextCommitted ==
  ASSUME TypeOK, StoreInv, ExclusiveInv, TrueMeansCommitted, [Next]_dbVars,
         ~overlapped', ~commitFailed'
  PROVE  TrueMeansCommitted'
<1>1. [AS!Next]_(AS!asVars)
  BY NextRefines
<1>2. ASSUME NEW x \in Txn, AS!Succeed(x) PROVE TrueMeansCommitted'
  <2>1. table' = table \cup Rows(x) /\ answer' = [answer EXCEPT ![x] = {TRUE}]
    BY <1>2 DEF AS!Succeed
  <2>2. \A y \in Txn : Rows(y)' = Rows(y)
    BY DEF Rows, Row
  <2> QED BY <2>1, <2>2 DEF TrueMeansCommitted, TypeOK
<1>3. ASSUME NEW x \in Txn, AS!Fail(x) PROVE TrueMeansCommitted'
  <2>1. table' = table /\ answer' = [answer EXCEPT ![x] = {FALSE}]
    BY <1>3 DEF AS!Fail
  <2> QED BY <2>1 DEF TrueMeansCommitted, TypeOK, Rows, Row
<1>4. CASE UNCHANGED AS!asVars
  BY <1>4 DEF AS!asVars, TrueMeansCommitted, Rows, Row
<1> QED BY <1>1, <1>2, <1>3, <1>4 DEF AS!Next

(***************************************************************************)
(* If no two calls ever overlap and no COMMIT fails, TRUE means committed  *)
(* for every call, whatever statements of others were rejected: a mutex    *)
(* around executeTransaction would be enough.                              *)
(***************************************************************************)
THEOREM ExclusiveCallsAreCommitted ==
  Spec /\ []~overlapped /\ []~commitFailed => []TrueMeansCommitted
<1> DEFINE Inv == TypeOK /\ StoreInv /\ ExclusiveInv /\ TrueMeansCommitted
<1>1. Init => Inv
  <2>1. Init => ExclusiveInv /\ TrueMeansCommitted
    BY DEF Init, ExclusiveInv, Alone, Idle, TrueMeansCommitted
  <2> QED BY <2>1, InitType, InitStore
<1>2. Inv /\ ~overlapped' /\ ~commitFailed' /\ [Next]_dbVars => Inv'
  BY NextType, NextStore, NextExclusive, NextCommitted
<1>3. Inv => TrueMeansCommitted
  OBVIOUS
<1> QED BY <1>1, <1>2, <1>3, PTL DEF Spec
==============================================================================
