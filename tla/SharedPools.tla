------------------------------ MODULE SharedPools ------------------------------
(***************************************************************************)
(* What MongoPoolManager promises the handles of mongodb.new: getting and  *)
(* releasing the pool of a connection string each look like one step.  The *)
(* first handle for a string creates its pool, later ones share it, and    *)
(* the one released last destroys it.  The promise ends there: the manager *)
(* keeps the string, and who asks for it again gets the destroyed pool.    *)
(*                                                                         *)
(* MongoPools, which models getPoolForUri and releasePool step by step,    *)
(* with their mutex, and the userdata, implements this specification.      *)
(***************************************************************************)

CONSTANTS
  Handles,      (* the userdata that may exist at the same time           *)
  Uris          (* connection strings                                     *)

VARIABLES
  users,        (* users[u]: the handles that share the pool of u         *)
  state         (* state[u]: what became of it                            *)

vars == <<users, state>>

Init ==
  /\ users = [u \in Uris |-> {}]
  /\ state = [u \in Uris |-> "absent"]

Acquire(h, u) ==
  /\ \A w \in Uris : h \notin users[w]
  /\ users' = [users EXCEPT ![u] = @ \cup {h}]
  /\ state' = [state EXCEPT ![u] = IF @ = "absent" THEN "live" ELSE @]

Release(h, u) ==
  /\ h \in users[u]
  /\ users' = [users EXCEPT ![u] = @ \ {h}]
  /\ state' = [state EXCEPT ![u] = IF users[u] = {h} THEN "dead" ELSE @]

Next == \E h \in Handles, u \in Uris : Acquire(h, u) \/ Release(h, u)

Spec == Init /\ [][Next]_vars

===============================================================================
