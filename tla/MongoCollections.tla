--------------------------- MODULE MongoCollections ---------------------------
(***************************************************************************)
(* The collections scripts open on the clients of MongoConnections:        *)
(* getCollection, close, withCollection and withCollections, and the       *)
(* operations, which use the client of the collection (what they do is in  *)
(* MongoOperations).  A collection refers to its client and not to the     *)
(* wrapper object, so it outlives disconnect; its userdata has no          *)
(* finaliser.  Every step here is one of MongoConnections or leaves its    *)
(* variables alone.                                                        *)
(*                                                                         *)
(* libmongoc is external: a client is not thread safe, and the operations  *)
(* of a destroyed collection, like its destruction, have no meaning.       *)
(***************************************************************************)
EXTENDS MongoConnections

CONSTANTS
  Colls,       (* the collections a script of a thread has at once          *)
  StrayColls,  (* bound: those of a script that is not tidy (see tidy)      *)
  Null         (* the coll of a userdata after close                        *)

ASSUME CollectionsAssumption ==
  /\ IsFiniteSet(Colls) /\ StrayColls \subseteq Colls
  /\ Null \notin Clients \cup {None}

VARIABLES
  tidy,        (* threads whose scripts use connections and collections    *)
               (* only as the examples of README.MD do: opened for a call  *)
               (* of the with functions and used inside it; never changes  *)
  coll,        (* coll[t][k]: the client of an open collection, Null or    *)
               (* None                                                     *)
  fresh,       (* collections of a tidy script not yet in a with function  *)
  blocks,      (* the withCollection calls a thread is in, with the number *)
               (* of withConnection calls around them                      *)
  using,       (* the client an operation of the thread works with         *)
  phase        (* "running", or "undefined" after a use of a NULL coll      *)

collVars == <<coll, fresh, blocks, using>>
allVars == <<vars, tidy, collVars, phase>>

CInit ==
  /\ Init
  /\ tidy \in SUBSET Threads
  /\ coll = [t \in Threads |-> [k \in Colls |-> None]]
  /\ fresh = [t \in Threads |-> {}]
  /\ blocks = [t \in Threads |-> <<>>]
  /\ using = [t \in Threads |-> None]
  /\ phase = "running"

-------------------------------------------------------------------------------
Open(t, k) == coll[t][k] \in Clients

Last(t) == blocks[t][Len(blocks[t])]

(* The innermost with function is withCollection. *)
InBlock(t) == blocks[t] # <<>> /\ Last(t).depth = Len(scopes[t])

Enclosed(t, k) == \E i \in 1..Len(blocks[t]) : k \in blocks[t][i].colls

(* A step of MongoConnections, next to which the collections do not change; *)
(* a tidy script enters its with functions before anything else.            *)
Connections(t) ==
  /\ \/ fresh[t] = {} /\ (Start(t) \/ PopIdle(t) \/ PopNew(t) \/ Raise(t))
     \/ Finish(t) /\ blocks[t] = <<>>
     \/ t \notin tidy /\ Use(t)
     \/ Catch(t) /\ (pc'[t] = "idle" => blocks[t] = <<>>)
     \/ fresh[t] = {} /\ ~InBlock(t) /\ (Leave(t) \/ LeaveRaises(t))
     \/ \E o \in Objects :
          \/ fresh[t] = {} /\ Connect(t, o)
          \/ t \notin tidy /\ Disconnect(t, o)
          \/ (t \in tidy => pc[t] = "connected") /\ Enter(t, o)
          \/ Lose(t, o)
  /\ UNCHANGED <<tidy, collVars, phase>>

(* getCollection of a connected object; otherwise it raises an error. *)
GetCollection(t, o, k) ==
  /\ pc[t] \in {"run", "connected"} /\ Connected(t, o)
  /\ coll[t][k] = None /\ (t \in tidy \/ k \in StrayColls)
  /\ coll' = [coll EXCEPT ![t][k] = conn[t][o]]
  /\ fresh' = [fresh EXCEPT ![t] = IF t \in tidy THEN @ \cup {k} ELSE @]
  /\ UNCHANGED <<vars, tidy, blocks, using, phase>>

(* withCollection of one, withCollections of any number of collections.     *)
(* Entering one a second time is left out: leaving the inner call does to   *)
(* the outer one what Close does.                                           *)
EnterBlock(t, ks) ==
  /\ pc[t] = "run"
  /\ ks # {} /\ \A k \in ks : coll[t][k] # None /\ ~Enclosed(t, k)
  /\ t \in tidy => ks = fresh[t]
  /\ blocks' = [blocks EXCEPT ![t] = Append(@, [colls |-> ks, depth |-> Len(scopes[t])])]
  /\ fresh' = [fresh EXCEPT ![t] = {}]
  /\ UNCHANGED <<vars, tidy, coll, using, phase>>

PopBlock(t) ==
  /\ pc[t] \in {"run", "raising"} /\ fresh[t] = {} /\ InBlock(t)
  /\ blocks' = [blocks EXCEPT ![t] = SubSeq(@, 1, Len(@) - 1)]

(* close destroys each of ks and sets its coll to NULL. *)
CloseAll(t, ks) ==
  /\ \A k \in ks : coll[t][k] # Null
  /\ coll' = [coll EXCEPT ![t] = [k \in Colls |-> IF k \in ks THEN Null ELSE @[k]]]
  /\ phase' = phase

\* Mutant: LeaveBlock, with the function called outside a pcall.
LeaveBlockUnprotected(t) ==
  /\ PopBlock(t)
  /\ CloseAll(t, IF pc[t] = "run" THEN Last(t).colls ELSE {})
  /\ UNCHANGED <<vars, tidy, fresh, using>>

\* Mutant: LeaveBlock, closing only the first of the collections.
LeaveBlockClosesOne(t) ==
  /\ PopBlock(t)
  /\ \E k \in Last(t).colls : CloseAll(t, {k})
  /\ UNCHANGED <<vars, tidy, fresh, using>>

\* Mutant: LeaveBlock, closing every collection of the script.
LeaveBlockClosesAll(t) ==
  /\ PopBlock(t)
  /\ CloseAll(t, {k \in Colls : Open(t, k)})
  /\ UNCHANGED <<vars, tidy, fresh, using>>

(* The function returned or raised an error; its collections are closed. *)
LeaveBlock(t) ==
  /\ PopBlock(t)
  /\ CloseAll(t, Last(t).colls)
  /\ UNCHANGED <<vars, tidy, fresh, using>>

(* The function closed one of them itself. *)
ClosedAgain(t) ==
  /\ pc[t] \in {"run", "raising"} /\ InBlock(t)
  /\ \E k \in Last(t).colls : coll[t][k] = Null
  /\ phase' = "undefined"
  /\ UNCHANGED <<vars, tidy, collVars>>

(* The script calls close. *)
Close(t, k) ==
  /\ pc[t] = "run" /\ t \notin tidy /\ Open(t, k)
  /\ CloseAll(t, {k})
  /\ UNCHANGED <<vars, tidy, fresh, blocks, using>>

(* It calls close, or an operation, of a closed collection. *)
UseClosed(t, k) ==
  /\ pc[t] = "run" /\ coll[t][k] = Null
  /\ t \in tidy => Enclosed(t, k)
  /\ phase' = "undefined"
  /\ UNCHANGED <<vars, tidy, collVars>>

(* A userdata is collected; nothing destroys a collection left open. *)
Forget(t, k) ==
  /\ coll[t][k] # None /\ k \notin fresh[t] /\ ~Enclosed(t, k)
  /\ Open(t, k) => t \notin tidy
  /\ coll' = [coll EXCEPT ![t][k] = None]
  /\ UNCHANGED <<vars, tidy, fresh, blocks, using, phase>>

(* An operation, until it returns or raises an error. *)
BeginUse(t, k) ==
  /\ pc[t] = "run" /\ fresh[t] = {} /\ Open(t, k)
  /\ t \in tidy => Enclosed(t, k)
  /\ using' = [using EXCEPT ![t] = coll[t][k]]
  /\ UNCHANGED <<vars, tidy, coll, fresh, blocks, phase>>

EndUse(t) ==
  /\ using[t] # None
  /\ using' = [using EXCEPT ![t] = None]
  /\ UNCHANGED <<vars, tidy, coll, fresh, blocks, phase>>

CNext ==
  /\ phase = "running"
  /\ \E t \in Threads :
       \/ EndUse(t)
       \/ /\ using[t] = None
          /\ \/ Connections(t)
             \/ LeaveBlock(t) \/ ClosedAgain(t)
             \/ \E ks \in SUBSET Colls : EnterBlock(t, ks)
             \/ \E k \in Colls :
                  \/ Close(t, k) \/ UseClosed(t, k) \/ Forget(t, k) \/ BeginUse(t, k)
                  \/ \E o \in Objects : GetCollection(t, o, k)

CSpec == CInit /\ [][CNext]_allVars

-------------------------------------------------------------------------------
CTypeOK ==
  /\ tidy \subseteq Threads
  /\ coll \in [Threads -> [Colls -> Clients \cup {None, Null}]]
  /\ fresh \in [Threads -> SUBSET Colls]
  /\ blocks \in [Threads -> Seq([colls : SUBSET Colls, depth : Nat])]
  /\ using \in [Threads -> Clients \cup {None}]
  /\ phase \in {"running", "undefined"}

(* Two tidy scripts never work with one client at a time, nor one of them  *)
(* with a client that waits in the pool, whatever the other scripts do.    *)
UseExclusive ==
  \A t \in tidy :
    using[t] # None =>
      using[t] \notin idle /\ \A u \in tidy \ {t} : using[u] # using[t]

(* No collection of a tidy script outlives the connection it was opened on: *)
(* the with functions close it before they give the client back.            *)
ClosedBeforeReturned ==
  \A t \in tidy, k \in Colls : Open(t, k) => coll[t][k] \in Held(t)

(* "A protected environment wich handles errors and closes the collections *)
(* on function return", README.MD: none is open when the script is over.   *)
CollectionsClosed ==
  \A t \in tidy : pc[t] = "idle" => \A k \in Colls : ~Open(t, k)

(* ClientsReturned script by script: one that keeps to the with functions   *)
(* gives back every client, also next to scripts that do not.               *)
TidyReturned ==
  \A t \in tidy : pc[t] = "idle" => Held(t) = {}

(* Only scripts that are not tidy close or use a collection again.         *)
NothingClosedTwice == tidy = Threads => phase = "running"

-------------------------------------------------------------------------------
(* The inductive invariant, for a tidy thread. *)

(* withConnection is called on different objects, and each of them keeps   *)
(* its client to the end of the call.                                      *)
ScopesInv(t) ==
  /\ \A i \in 1..Len(scopes[t]) : Connected(t, scopes[t][i])
  /\ \A i, j \in 1..Len(scopes[t]) : scopes[t][i] = scopes[t][j] => i = j
  /\ pc[t] \in {"pop", "connected"} => ~InScope(t, target[t])
  /\ pc[t] = "connected" => Connected(t, target[t])
  /\ \A o \in Objects :
       Connected(t, o) => InScope(t, o) \/ (pc[t] = "connected" /\ target[t] = o)

(* A with function closes collections of the connections around it. *)
BlocksInv(t) ==
  /\ \A i \in 1..Len(blocks[t]) :
       LET b == blocks[t][i]
       IN  /\ b.depth <= Len(scopes[t])
           /\ \A k \in b.colls :
                Open(t, k) /\ \E j \in 1..b.depth : coll[t][k] = conn[t][scopes[t][j]]
  /\ \A i, j \in 1..Len(blocks[t]) :
       i < j => /\ blocks[t][i].depth <= blocks[t][j].depth
                /\ blocks[t][i].colls \cap blocks[t][j].colls = {}
  /\ pc[t] = "idle" => blocks[t] = <<>>

(* An open collection is about to enter a with function or is in one. *)
OpenInv(t) ==
  /\ \A k \in fresh[t] :
       Open(t, k) /\ ~Enclosed(t, k) /\ \E o \in Objects : coll[t][k] = conn[t][o]
  /\ \A k \in Colls : Open(t, k) => k \in fresh[t] \/ Enclosed(t, k)
  /\ fresh[t] # {} => pc[t] \in {"run", "connected"}
  /\ using[t] # None =>
       /\ pc[t] = "run" /\ fresh[t] = {}
       /\ \E k \in Colls : Enclosed(t, k) /\ using[t] = coll[t][k]

TidyInv(t) == ScopesInv(t) /\ BlocksInv(t) /\ OpenInv(t)

CInv == CTypeOK /\ NothingClosedTwice /\ \A t \in tidy : TidyInv(t)

===============================================================================
