----------------------------- MODULE AtomicStore -----------------------------
(***************************************************************************)
(* What DBConnection::executeTransaction promises (DBConnection.h: "all    *)
(* operations succeed or all fail", "true if transaction committed         *)
(* successfully, false if rolled back"): a call takes effect at one        *)
(* instant, by adding every row of its transaction to the durable table    *)
(* and answering TRUE, or by adding none and answering FALSE.              *)
(***************************************************************************)
CONSTANTS Txn,      \* the calls of executeTransaction
          Rows(_)   \* Rows(x): the rows the statements of call x insert

VARIABLES table,    \* the durable rows
          answer    \* answer[x]: {} before call x returns, then {its answer}

asVars == <<table, answer>>

Init ==
  /\ table = {}
  /\ answer = [x \in Txn |-> {}]

Succeed(x) ==
  /\ answer[x] = {}
  /\ table' = table \cup Rows(x)
  /\ answer' = [answer EXCEPT ![x] = {TRUE}]

Fail(x) ==
  /\ answer[x] = {}
  /\ answer' = [answer EXCEPT ![x] = {FALSE}]
  /\ UNCHANGED table

Next == \E x \in Txn : Succeed(x) \/ Fail(x)

Spec == Init /\ [][Next]_asVars
==============================================================================
