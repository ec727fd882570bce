------------------------------ MODULE ClientPool ------------------------------
(***************************************************************************)
(* What a pool of MongoDB clients promises the threads of the server: a    *)
(* client is handed to one thread at a time and only to a thread that      *)
(* waits for one; a thread that waits does nothing else; a client comes    *)
(* back when its thread gives it back, or, when scripts connect without    *)
(* withConnection, may be lost for good.                                   *)
(*                                                                         *)
(* MongoConnections, which models the wrapper objects, their scopes and    *)
(* the pool of libmongoc, implements this specification.                   *)
(***************************************************************************)

CONSTANTS
  Threads,      (* the threads of the server                              *)
  Clients       (* as many as the pool may create                         *)

VARIABLES
  lossy,        (* clients may get lost; never changes                    *)
  waiting,      (* the threads that wait for a client                     *)
  held,         (* held[t]: the clients thread t has                      *)
  lost          (* the clients nobody will ever give back                 *)

vars == <<lossy, waiting, held, lost>>

Init ==
  /\ lossy \in BOOLEAN
  /\ waiting = {}
  /\ held = [t \in Threads |-> {}]
  /\ lost = {}

Free == Clients \ (lost \cup UNION {held[t] : t \in Threads})

(* A thread asks for a client; from now on it waits. *)
Ask(t) ==
  /\ t \notin waiting
  /\ waiting' = waiting \cup {t}
  /\ UNCHANGED <<lossy, held, lost>>

(* It is handed a client that nobody has. *)
Take(t, c) ==
  /\ t \in waiting /\ c \in Free
  /\ waiting' = waiting \ {t}
  /\ held' = [held EXCEPT ![t] = @ \cup {c}]
  /\ UNCHANGED <<lossy, lost>>

GiveUp(t, c) ==
  /\ t \notin waiting /\ c \in held[t]
  /\ held' = [held EXCEPT ![t] = @ \ {c}]
  /\ UNCHANGED <<lossy, waiting>>

(* A thread gives a client back ... *)
Give(t, c) == GiveUp(t, c) /\ UNCHANGED lost

(* ... or forgets that it has it. *)
Lose(t, c) == GiveUp(t, c) /\ lossy /\ lost' = lost \cup {c}

(* Most steps of a script have nothing to do with the pool. *)
Elsewhere == UNCHANGED vars

Next ==
  \/ Elsewhere
  \/ \E t \in Threads :
       \/ Ask(t)
       \/ \E c \in Clients : Take(t, c) \/ Give(t, c) \/ Lose(t, c)

Spec == Init /\ [][Next]_vars

===============================================================================
