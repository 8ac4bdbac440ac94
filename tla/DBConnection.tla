---------------------------- MODULE DBConnection -----------------------------
(***************************************************************************)
(* db::DBConnection (backend/src/db/DBConnection.cpp): one sqlite3 handle  *)
(* and executeTransaction, called by any number of threads with no lock    *)
(* around it: main.cpp creates one connection and every handler of the     *)
(* WebSocket server calls it.                                              *)
(*                                                                         *)
(* SQLite itself is external and modelled from how it is used here:        *)
(*   - a statement (one sqlite3_exec) is atomic, the library being built   *)
(*     in its default, serialized threading mode; between two statements   *)
(*     any other caller can run its own;                                   *)
(*   - the transaction belongs to the connection, not to a thread: BEGIN   *)
(*     fails if one is open, COMMIT and ROLLBACK fail if none is, and an   *)
(*     INSERT outside of one commits by itself;                            *)
(*   - a statement that fails leaves the open transaction as it was.       *)
(***************************************************************************)
EXTENDS Naturals, Sequences

CONSTANTS
  Caller,     \* the threads that share the connection
  Txn,        \* the calls of executeTransaction
  Script,     \* Script[x][i]: does the database accept statement i of call x
  NoTxn,      \* a caller that is in no call
  Faults      \* the statements, "INSERT" or "COMMIT", that may also fail for a
              \* reason outside the program, such as SQLITE_BUSY

ASSUME ScriptAssumption == Script \in [Txn -> Seq(BOOLEAN)]
ASSUME NoTxnAssumption == NoTxn \notin Txn
ASSUME FaultsAssumption == Faults \subseteq {"INSERT", "COMMIT"}

VARIABLES
  db,           \* the handle: "null", "open", or "broken" if the open failed
  inTxn,        \* is a transaction open on the connection
  uncommitted,  \* the rows inserted in the open transaction
  table,        \* the rows that are durable in the database file
  doing,        \* doing[c]: the call c is in, or NoTxn
  next,         \* next[c]: the statement of that call that comes next
  failed,       \* failed[c]: that call met a failed statement
  answer,       \* answer[x]: {} before call x returns, then {its answer}
  overlapped,   \* history: did the last call begin while others went on
  commitFailed  \* history: has a COMMIT failed

store == <<inTxn, uncommitted, table>>
calls == <<doing, next, failed, answer>>
dbVars == <<db, store, calls, overlapped, commitFailed>>

Row(x, i) == <<x, i>>
Rows(x) == {Row(x, i) : i \in 1..Len(Script[x])}

Returned(x) == answer[x] # {}
Idle(c) == doing[c] = NoTxn

------------------------------------------------------------------------------
(***************************************************************************)
(* The statements, as SQLite executes them on the connection.              *)
(***************************************************************************)
SqlBegin ==
  /\ inTxn' = (inTxn \/ db = "open")
  /\ UNCHANGED <<uncommitted, table>>

SqlInsert(row) ==
  /\ IF inTxn
     THEN uncommitted' = uncommitted \cup {row} /\ UNCHANGED table
     ELSE table' = table \cup {row} /\ UNCHANGED uncommitted
  /\ UNCHANGED inTxn

SqlRollback ==
  /\ inTxn' = FALSE
  /\ uncommitted' = {}
  /\ UNCHANGED table

SqlCommit ==
  /\ inTxn' = FALSE
  /\ table' = table \cup uncommitted
  /\ uncommitted' = {}

------------------------------------------------------------------------------
Init ==
  /\ db = "null"
  /\ inTxn = FALSE
  /\ uncommitted = {}
  /\ table = {}
  /\ doing = [c \in Caller |-> NoTxn]
  /\ next = [c \in Caller |-> 1]
  /\ failed = [c \in Caller |-> FALSE]
  /\ answer = [x \in Txn |-> {}]
  /\ overlapped = FALSE
  /\ commitFailed = FALSE

(***************************************************************************)
(* connect: sqlite3_open sets the handle even when it fails, and no caller *)
(* looks at the answer.                                                    *)
(***************************************************************************)
Connect ==
  /\ db = "null"
  /\ db' \in {"open", "broken"}
  /\ UNCHANGED <<store, calls, overlapped, commitFailed>>

(* executeTransaction without a handle *)
Refuse(c, x) ==
  /\ Idle(c) /\ ~Returned(x) /\ \A d \in Caller : doing[d] # x
  /\ db = "null"
  /\ answer' = [answer EXCEPT ![x] = {FALSE}]
  /\ UNCHANGED <<db, store, doing, next, failed, overlapped, commitFailed>>

BeginAfresh(c, x) ==  \* mutant: a failed BEGIN is answered with ROLLBACK, BEGIN
  /\ Idle(c) /\ ~Returned(x) /\ \A d \in Caller : doing[d] # x
  /\ db # "null"
  /\ inTxn' = (db = "open")
  /\ uncommitted' = {}
  /\ doing' = [doing EXCEPT ![c] = x]
  /\ next' = [next EXCEPT ![c] = 1]
  /\ failed' = [failed EXCEPT ![c] = FALSE]
  /\ overlapped' = \E d \in Caller \ {c} : ~Idle(d)
  /\ UNCHANGED <<db, table, answer, commitFailed>>

(* executeTransaction up to its BEGIN, whose result it does not look at *)
Begin(c, x) ==
  /\ Idle(c) /\ ~Returned(x) /\ \A d \in Caller : doing[d] # x
  /\ db # "null"
  /\ SqlBegin
  /\ doing' = [doing EXCEPT ![c] = x]
  /\ next' = [next EXCEPT ![c] = 1]
  /\ failed' = [failed EXCEPT ![c] = FALSE]
  /\ overlapped' = \E d \in Caller \ {c} : ~Idle(d)
  /\ UNCHANGED <<db, answer, commitFailed>>

(* One round of the loop over the queries *)
AtQuery(c) ==
  /\ ~Idle(c) /\ ~failed[c]
  /\ next[c] <= Len(Script[doing[c]])

QueryAccepted(c) ==
  /\ AtQuery(c)
  /\ db = "open" /\ Script[doing[c]][next[c]]
  /\ SqlInsert(Row(doing[c], next[c]))
  /\ next' = [next EXCEPT ![c] = @ + 1]
  /\ UNCHANGED <<db, doing, failed, answer, overlapped, commitFailed>>

QueryFails(c) ==
  /\ AtQuery(c)
  /\ \/ db = "broken"
     \/ ~Script[doing[c]][next[c]]
     \/ "INSERT" \in Faults
  /\ failed' = [failed EXCEPT ![c] = TRUE]
  /\ UNCHANGED <<db, store, doing, next, answer, overlapped, commitFailed>>

Return(c, value) ==
  /\ answer' = [answer EXCEPT ![doing[c]] = {value}]
  /\ doing' = [doing EXCEPT ![c] = NoTxn]
  /\ UNCHANGED <<next, failed>>

ReturnWithoutRollback(c) ==  \* mutant: return false alone
  /\ ~Idle(c) /\ failed[c]
  /\ Return(c, FALSE)
  /\ UNCHANGED <<db, store, overlapped, commitFailed>>

(* ROLLBACK, which fails if no transaction is open; then return false *)
Rollback(c) ==
  /\ ~Idle(c) /\ failed[c]
  /\ SqlRollback
  /\ Return(c, FALSE)
  /\ UNCHANGED <<db, overlapped, commitFailed>>

(* COMMIT, whose result is not looked at; then return true *)
AtCommit(c) ==
  /\ ~Idle(c) /\ ~failed[c]
  /\ next[c] > Len(Script[doing[c]])

Commit(c) ==
  /\ AtCommit(c)
  /\ SqlCommit
  /\ Return(c, TRUE)
  /\ UNCHANGED <<db, overlapped, commitFailed>>

CommitFails(c) ==
  /\ AtCommit(c)
  /\ inTxn /\ "COMMIT" \in Faults
  /\ Return(c, TRUE)
  /\ commitFailed' = TRUE
  /\ UNCHANGED <<db, store, overlapped>>

(***************************************************************************)
(* close, or the destructor: the owner calls it when no call is in         *)
(* progress.  SQLite rolls an open transaction back.                       *)
(***************************************************************************)
Close ==
  /\ db # "null"
  /\ \A c \in Caller : Idle(c)
  /\ db' = "null"
  /\ SqlRollback
  /\ UNCHANGED <<calls, overlapped, commitFailed>>

Step(c) ==
  \/ \E x \in Txn : Refuse(c, x)
  \/ \E x \in Txn : Begin(c, x)
  \/ QueryAccepted(c)
  \/ QueryFails(c)
  \/ Rollback(c)
  \/ Commit(c)
  \/ CommitFails(c)

Next ==
  \/ Connect
  \/ \E c \in Caller : Step(c)
  \/ Close

Spec == Init /\ [][Next]_dbVars

------------------------------------------------------------------------------
TypeOK ==
  /\ db \in {"null", "open", "broken"}
  /\ inTxn \in BOOLEAN
  /\ uncommitted \subseteq UNION {Rows(x) : x \in Txn}
  /\ table \subseteq UNION {Rows(x) : x \in Txn}
  /\ doing \in [Caller -> Txn \cup {NoTxn}]
  /\ next \in [Caller -> Nat \ {0}]
  /\ failed \in [Caller -> BOOLEAN]
  /\ answer \in [Txn -> {{}, {TRUE}, {FALSE}}]
  /\ overlapped \in BOOLEAN
  /\ commitFailed \in BOOLEAN

(***************************************************************************)
(* "true if transaction committed successfully" (DBConnection.h): the rows *)
(* of a call that answered true are in the database file.                  *)
(***************************************************************************)
TrueMeansCommitted ==
  \A x \in Txn : answer[x] = {TRUE} => Rows(x) \subseteq table

(***************************************************************************)
(* However many threads share the connection: as long as no call has       *)
(* answered FALSE and no COMMIT has failed, TRUE means committed, although *)
(* the calls' statements mix in transactions that none of them controls.   *)
(***************************************************************************)
NothingFailed == ~commitFailed /\ \A x \in Txn : answer[x] # {FALSE}

CommittedWhileClean == NothingFailed => TrueMeansCommitted

(***************************************************************************)
(* However the calls of several threads interleave on the one connection,  *)
(* none leaves a transaction open behind it: a BEGIN that succeeded is     *)
(* ended by whichever call reaches its COMMIT or ROLLBACK first, at the    *)
(* latest by the call that began it; unless a COMMIT has failed, after     *)
(* which nobody ends the transaction.                                      *)
(***************************************************************************)
NoDanglingTransaction ==
  inTxn /\ ~commitFailed => \E c \in Caller : ~Idle(c)

(***************************************************************************)
(* executeTransaction is atomic for calls that do not overlap: until a     *)
(* COMMIT fails, whatever the database did for calls that did overlap      *)
(* earlier, every step of the others is one of the atomic store, or none.  *)
(***************************************************************************)
AS == INSTANCE AtomicStore

AtomicStoreSpec ==
  AS!Init /\ [][overlapped' \/ commitFailed' \/ AS!Next]_(AS!asVars)
==============================================================================
