---------------------------- MODULE PrivateStates ----------------------------
(***************************************************************************)
(* What the script component promises the request handlers: a Lua state,   *)
(* which is not thread safe, belongs to one server thread for good once a  *)
(* thread has claimed it, and a thread only ever executes in states that   *)
(* it owns.                                                                *)
(*                                                                         *)
(* ScriptStates, which models the vectors, the map and the mutex of class  *)
(* Script, implements this specification.                                  *)
(***************************************************************************)

CONSTANTS
  Threads,      (* the threads of the server                              *)
  LuaStates     (* every lua_State the process may create                 *)

VARIABLES
  owns,         (* the pairs <<l, t>> such that thread t owns Lua state l *)
  busy          (* busy[t]: the states thread t executes in now           *)

vars == <<owns, busy>>

Init ==
  /\ owns = {}
  /\ busy = [t \in Threads |-> {}]

(* A thread takes a Lua state that nobody owns. *)
Claim(t, l) ==
  /\ \A u \in Threads : <<l, u>> \notin owns
  /\ owns' = owns \cup {<<l, t>>}
  /\ UNCHANGED busy

(* A thread starts executing a handler in a Lua state it owns. *)
Enter(t, l) ==
  /\ busy[t] = {}
  /\ <<l, t>> \in owns
  /\ busy' = [busy EXCEPT ![t] = {l}]
  /\ UNCHANGED owns

(* The handler of a thread returns. *)
Leave(t) ==
  /\ busy[t] # {}
  /\ busy' = [busy EXCEPT ![t] = {}]
  /\ UNCHANGED owns

Next ==
  \E t \in Threads :
    \/ \E l \in LuaStates : Claim(t, l) \/ Enter(t, l)
    \/ Leave(t)

Spec == Init /\ [][Next]_vars

=============================================================================
