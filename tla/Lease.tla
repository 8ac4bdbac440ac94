-------------------------------- MODULE Lease --------------------------------
(***************************************************************************)
(* What core::LockManager and db::ConnectionPool both promise to the       *)
(* threads that call them: a thing is used by one of them at a time, from  *)
(* the return of acquireLock or getConnection until it is given back.      *)
(* Queues, waiting and the order of service are below this level.          *)
(***************************************************************************)
CONSTANTS Client,   \* the threads
          Item      \* the resources, or the connections

VARIABLE held       \* held[c]: what c has got and not given back

Init == held = [c \in Client |-> {}]

Get(c, i) ==
  /\ \A d \in Client : i \notin held[d]
  /\ held' = [held EXCEPT ![c] = @ \cup {i}]

GiveBack(c, i) ==
  /\ i \in held[c]
  /\ held' = [held EXCEPT ![c] = @ \ {i}]

Next == \E c \in Client, i \in Item : Get(c, i) \/ GiveBack(c, i)

Spec == Init /\ [][Next]_held
==============================================================================
