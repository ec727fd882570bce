--------------------------- MODULE MongoConnections ---------------------------
(***************************************************************************)
(* The clients of one connection pool, as scripts get them through the     *)
(* wrapper library mongodb.lua: connect takes a client out of the pool and *)
(* waits when all of them are out, disconnect gives it back, and           *)
(* withConnection disconnects when the function it is given returns or     *)
(* raises an error.  The threads of the server share the pool; a wrapper   *)
(* object belongs to the Lua state of one thread.                          *)
(*                                                                         *)
(* libmongoc is external: pop hands out an idle client, creates one while  *)
(* there are fewer than the maximum, and blocks otherwise.  The userdata   *)
(* of a client has no finaliser, so a client whose wrapper is collected    *)
(* while connected never comes back.  The pool itself is taken to live on: *)
(* MongoPools says when it does.                                           *)
(***************************************************************************)
EXTENDS Naturals, Sequences, FiniteSets

CONSTANTS
  Threads,     (* the server's threads                                      *)
  Objects,     (* the wrapper objects a script of a thread may use at once  *)
  Clients,     (* as many as setMaxCreableConnections allows                *)
  MaxScopes,   (* bound: how deep a script nests withConnection             *)
  None         (* no client: _conn is nil                                   *)

ASSUME ConnectionsAssumption ==
  /\ IsFiniteSet(Threads) /\ IsFiniteSet(Objects) /\ IsFiniteSet(Clients)
  /\ MaxScopes \in Nat
  /\ None \notin Clients \cup Objects

VARIABLES
  scoped,      (* scripts connect only to call withConnection on the       *)
               (* result; never changes                                    *)
  created,     (* the clients the pool has created                         *)
  idle,        (* those waiting in the pool                                *)
  conn,        (* conn[t][o]: the _conn of wrapper object o of thread t    *)
  scopes,      (* the objects of the withConnection calls a thread is in   *)
  pc,          (* what the script of a thread does                         *)
  target       (* the object a thread connects                             *)

poolVars == <<created, idle>>
vars == <<scoped, poolVars, conn, scopes, pc, target>>

Init ==
  /\ scoped \in BOOLEAN
  /\ created = {}
  /\ idle = {}
  /\ conn = [t \in Threads |-> [o \in Objects |-> None]]
  /\ scopes = [t \in Threads |-> <<>>]
  /\ pc = [t \in Threads |-> "idle"]
  /\ target = [t \in Threads |-> None]

-------------------------------------------------------------------------------
Goto(t, label) == pc' = [pc EXCEPT ![t] = label]

Connected(t, o) == conn[t][o] # None

InScope(t, o) == \E i \in 1..Len(scopes[t]) : scopes[t][i] = o

Innermost(t) == scopes[t][Len(scopes[t])]

Outer(t) == SubSeq(scopes[t], 1, Len(scopes[t]) - 1)

\* Mutant: PushClient, without self._conn = nil.
PushAndKeep(t, o) ==
  /\ idle' = idle \cup {conn[t][o]}
  /\ UNCHANGED <<scoped, created, conn>>

(* disconnect of a connected object: releaseConnection, self._conn = nil *)
PushClient(t, o) ==
  /\ idle' = idle \cup {conn[t][o]}
  /\ conn' = [conn EXCEPT ![t][o] = None]
  /\ UNCHANGED <<scoped, created>>

(* A script starts and ends. *)
Start(t) ==
  /\ pc[t] = "idle"
  /\ Goto(t, "run")
  /\ UNCHANGED <<scoped, poolVars, conn, scopes, target>>

Finish(t) ==
  /\ pc[t] = "run" /\ scopes[t] = <<>>
  /\ Goto(t, "idle")
  /\ UNCHANGED <<scoped, poolVars, conn, scopes, target>>

-------------------------------------------------------------------------------
(* connect *)

Connect(t, o) ==
  /\ pc[t] = "run" /\ Len(scopes[t]) < MaxScopes
  /\ ~Connected(t, o)
  /\ target' = [target EXCEPT ![t] = o]
  /\ Goto(t, "pop")
  /\ UNCHANGED <<scoped, poolVars, conn, scopes>>

(* getConnection hands out client c. *)
Pop(t, c) ==
  /\ pc[t] = "pop"
  /\ conn' = [conn EXCEPT ![t][target[t]] = c]
  /\ Goto(t, "connected")
  /\ UNCHANGED <<scoped, scopes, target>>

PopIdle(t) ==
  \E c \in idle :
    /\ Pop(t, c)
    /\ idle' = idle \ {c}
    /\ UNCHANGED created

PopNew(t) ==
  /\ idle = {}
  /\ \E c \in Clients \ created :
       /\ Pop(t, c)
       /\ created' = created \cup {c}
       /\ UNCHANGED idle

(* The script goes on with the object, without withConnection. *)
Use(t) ==
  /\ ~scoped
  /\ pc[t] = "connected"
  /\ target' = [target EXCEPT ![t] = None]
  /\ Goto(t, "run")
  /\ UNCHANGED <<scoped, poolVars, conn, scopes>>

-------------------------------------------------------------------------------
(* disconnect *)

Disconnect(t, o) ==
  /\ pc[t] = "run"
  /\ Connected(t, o)
  /\ PushClient(t, o)
  /\ UNCHANGED <<scopes, pc, target>>

(* The script raises an error: one of its own, "Already connected!" or *)
(* "Not connected!".                                                    *)
Raise(t) ==
  /\ pc[t] = "run"
  /\ Goto(t, "raising")
  /\ UNCHANGED <<scoped, poolVars, conn, scopes, target>>

(* An error is caught: by a pcall of the script, or, with no call of *)
(* withConnection left, by the handler of the request.               *)
Catch(t) ==
  /\ pc[t] = "raising"
  /\ \/ Goto(t, "run")
     \/ scopes[t] = <<>> /\ Goto(t, "idle")
  /\ UNCHANGED <<scoped, poolVars, conn, scopes, target>>

-------------------------------------------------------------------------------
(* withConnection *)

(* It is called with an object just connected, or with any other. *)
Enter(t, o) ==
  /\ \/ pc[t] = "connected" /\ target[t] = o
     \/ pc[t] = "run"
  /\ Len(scopes[t]) < MaxScopes
  /\ scopes' = [scopes EXCEPT ![t] = Append(@, o)]
  /\ target' = [target EXCEPT ![t] = None]
  /\ Goto(t, "run")
  /\ UNCHANGED <<scoped, poolVars, conn>>

\* Mutant: Leave, with the function called outside a pcall.
LeaveUnprotected(t) ==
  /\ pc[t] \in {"run", "raising"}
  /\ scopes[t] # <<>> /\ Connected(t, Innermost(t))
  /\ IF pc[t] = "run" THEN PushClient(t, Innermost(t))
                      ELSE UNCHANGED <<scoped, poolVars, conn>>
  /\ scopes' = [scopes EXCEPT ![t] = Outer(t)]
  /\ UNCHANGED <<pc, target>>

(* The function returned, or raised an error that goes on after disconnect. *)
Leave(t) ==
  /\ pc[t] \in {"run", "raising"}
  /\ scopes[t] # <<>> /\ Connected(t, Innermost(t))
  /\ PushClient(t, Innermost(t))
  /\ scopes' = [scopes EXCEPT ![t] = Outer(t)]
  /\ UNCHANGED <<pc, target>>

(* The function disconnected the object, or it never was connected: *)
(* disconnect raises an error, outside the pcall.                   *)
LeaveRaises(t) ==
  /\ pc[t] \in {"run", "raising"}
  /\ scopes[t] # <<>> /\ ~Connected(t, Innermost(t))
  /\ scopes' = [scopes EXCEPT ![t] = Outer(t)]
  /\ Goto(t, "raising")
  /\ UNCHANGED <<scoped, poolVars, conn, target>>

-------------------------------------------------------------------------------
(* The collector takes a connected object the script no longer reaches; its *)
(* slot then stands for an object made later.                               *)
Lose(t, o) ==
  /\ pc[t] \in {"idle", "run"}
  /\ Connected(t, o) /\ ~InScope(t, o)
  /\ conn' = [conn EXCEPT ![t][o] = None]
  /\ UNCHANGED <<scoped, poolVars, scopes, pc, target>>

Next ==
  \E t \in Threads :
    \/ Start(t) \/ Finish(t)
    \/ PopIdle(t) \/ PopNew(t) \/ Use(t)
    \/ Raise(t) \/ Catch(t) \/ Leave(t) \/ LeaveRaises(t)
    \/ \E o \in Objects : Connect(t, o) \/ Disconnect(t, o) \/ Enter(t, o) \/ Lose(t, o)

Spec == Init /\ [][Next]_vars

-------------------------------------------------------------------------------
TypeOK ==
  /\ scoped \in BOOLEAN
  /\ created \subseteq Clients
  /\ idle \subseteq created
  /\ conn \in [Threads -> [Objects -> Clients \cup {None}]]
  /\ scopes \in [Threads -> Seq(Objects)]
  /\ pc \in [Threads -> {"idle", "run", "pop", "connected", "raising"}]
  /\ target \in [Threads -> Objects \cup {None}]

Held(t) == {conn[t][o] : o \in Objects} \ {None}

(* A client, which is not thread safe, is in one place: in the pool, or     *)
(* with one object of one thread.                                           *)
ClientExclusive ==
  \A t \in Threads, o \in Objects :
    Connected(t, o) =>
      /\ conn[t][o] \in created \ idle
      /\ \A u \in Threads, p \in Objects :
           conn[u][p] = conn[t][o] => u = t /\ p = o

(* "The function is called in a protected environment which handles errors *)
(* and automatically closes the connection on function return", README.MD: *)
(* with withConnection, a script that is over has given back every client, *)
(* however its functions ended.                                             *)
ClientsReturned ==
  scoped => \A t \in Threads : pc[t] = "idle" => Held(t) = {}

(* No client is lost to the pool.                                           *)
NothingLost ==
  scoped => created = idle \cup UNION {Held(t) : t \in Threads}

(* The pool has a client for every thread even when each of them has all    *)
(* its other objects connected.                                             *)
LargeEnough ==
  Cardinality(Threads) * (Cardinality(Objects) - 1) < Cardinality(Clients)

Waiting == {t \in Threads : pc[t] = "pop"}

Exhausted == idle = {} /\ created = Clients

(* Then the threads never all wait for each other: whenever one waits for a *)
(* client and there is none, a thread that does not wait has one to return. *)
NoDeadlock ==
  scoped /\ LargeEnough /\ Waiting # {} /\ Exhausted =>
    \E t \in Threads \ Waiting : Held(t) # {}

-------------------------------------------------------------------------------
(* Seen from outside, the clients are the abstract pool: a client created   *)
(* that is neither idle nor with an object is lost.                         *)
heldBar == [t \in Threads |-> Held(t)]

lostBar == created \ (idle \cup UNION {Held(t) : t \in Threads})

CP == INSTANCE ClientPool
        WITH lossy <- ~scoped, waiting <- Waiting, held <- heldBar, lost <- lostBar

(* Every step of connect, disconnect and the with functions is a step of a  *)
(* pool that hands a client nobody has to a thread that waits, gets it back *)
(* from the thread that has it, and loses one only to a script that does    *)
(* more than call withConnection.                                           *)
CPSpec == CP!Spec

-------------------------------------------------------------------------------
(* The inductive invariant. *)

TargetInv ==
  \A t \in Threads :
    /\ pc[t] \in {"pop", "connected"} <=> target[t] # None
    /\ pc[t] \in {"idle", "pop", "connected"} \/ target[t] = None
    /\ pc[t] = "pop" => ~Connected(t, target[t])
    /\ pc[t] = "idle" => scopes[t] = <<>>

(* A client out of the pool is with an object withConnection will close. *)
ScopeInv ==
  scoped =>
    \A t \in Threads, o \in Objects :
      Connected(t, o) => InScope(t, o) \/ (pc[t] = "connected" /\ target[t] = o)

IInv ==
  /\ TypeOK
  /\ TargetInv
  /\ ScopeInv
  /\ ClientExclusive
  /\ NothingLost

===============================================================================
