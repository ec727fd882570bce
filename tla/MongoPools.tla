------------------------------ MODULE MongoPools ------------------------------
(***************************************************************************)
(* MongoPoolManager and the pool handles of the mongodb plugin.  The       *)
(* wrapper library makes a handle for every mongodb.new(uri); handles for  *)
(* the same URI share one reference counted pool; a handle is released     *)
(* when its Lua state collects it.                                         *)
(*                                                                         *)
(* The manager is one object for all Lua states, so getPoolForUri and      *)
(* releasePool are modelled step by step, with their mutex.  libmongoc is  *)
(* external: a pool is alive from mongoc_client_pool_new until             *)
(* mongoc_client_pool_destroy, and any use of it or of its URI after that  *)
(* is undefined.                                                           *)
(***************************************************************************)
EXTENDS Naturals, FiniteSets

CONSTANTS
  Threads,     (* the threads that run Lua code                           *)
  Uris,        (* connection strings                                      *)
  BadUris,     (* those that mongoc_uri_new refuses                       *)
  Handles,     (* bound: the userdata that may exist at the same time     *)
  None         (* no thread, no handle, no pool, no entry in the map      *)

ASSUME FiniteAssumption ==
  /\ IsFiniteSet(Handles)
  /\ None \notin Threads \cup Handles
  /\ BadUris \subseteq Uris

Pools == Uris \X Nat

ASSUME NoneAssumption ==
  /\ None \notin Pools
  /\ None \notin [numRef : Nat, pool : Pools]

VARIABLES
  phase,       (* "running", or "undefined" after undefined behaviour     *)
  mutex,       (* the thread that holds MongoPoolManager::mutex           *)
  pools,       (* the map from URI to reference count and pool            *)
  created,     (* how many pools were created for a URI                   *)
  alive,       (* the pools libmongoc has not destroyed                   *)
  handles,     (* each userdata: owner, URI, and what it was given        *)
  pc,          (* where each thread is                                    *)
  ptr,         (* the handle it makes or collects                         *)
  data         (* the pool getPoolForUri found for it                     *)

managerVars == <<mutex, pools, created, alive>>
threadVars == <<handles, pc, ptr, data>>
vars == <<phase, managerVars, threadVars>>

Free == [is |-> "free", owner |-> None, uri |-> None, pool |-> None]

Init ==
  /\ phase = "running"
  /\ mutex = None
  /\ pools = [u \in Uris |-> None]
  /\ created = [u \in Uris |-> 0]
  /\ alive = {}
  /\ handles = [h \in Handles |-> Free]
  /\ pc = [t \in Threads |-> "idle"]
  /\ ptr = [t \in Threads |-> None]
  /\ data = [t \in Threads |-> None]

-------------------------------------------------------------------------------
At(t, label) == phase = "running" /\ pc[t] = label

Goto(t, label) == pc' = [pc EXCEPT ![t] = label]

Undefined ==
  /\ phase' = "undefined"
  /\ UNCHANGED <<managerVars, threadVars>>

Uri(t) == handles[ptr[t]].uri

\* Mutant: Lock, without the mutex.
LockIgnored(t, before, after) ==
  /\ At(t, before)
  /\ mutex' = t
  /\ Goto(t, after)
  /\ UNCHANGED <<phase, pools, created, alive, handles, ptr, data>>

(* std::lock_guard in getPoolForUri and in releasePool. *)
Lock(t, before, after) ==
  /\ At(t, before)
  /\ mutex = None
  /\ mutex' = t
  /\ Goto(t, after)
  /\ UNCHANGED <<phase, pools, created, alive, handles, ptr, data>>

Unlock(t, before, after) ==
  /\ At(t, before)
  /\ mutex' = None
  /\ Goto(t, after)
  /\ UNCHANGED <<phase, pools, created, alive, handles, ptr, data>>

-------------------------------------------------------------------------------
(* mongodb.new: newPool, then setMaxCreableConnections on the new handle. *)

(* The userdata gets its metatable before it gets its fields. *)
NewPool(t, h, u) ==
  /\ At(t, "idle")
  /\ handles[h].is = "free"
  /\ handles' = [handles EXCEPT ![h] =
                   [is |-> "new", owner |-> t, uri |-> u, pool |-> None]]
  /\ ptr' = [ptr EXCEPT ![t] = h]
  /\ Goto(t, "get")
  /\ UNCHANGED <<phase, managerVars, data>>

(* luaL_checkstring raises an error: the fields are never set, the *)
(* metatable is, so the userdata will be collected as a pool.      *)
NewPoolRaises(t, h) ==
  /\ At(t, "idle")
  /\ handles[h].is = "free"
  /\ handles' = [handles EXCEPT ![h] =
                   [is |-> "raw", owner |-> t, uri |-> None, pool |-> None]]
  /\ UNCHANGED <<phase, managerVars, pc, ptr, data>>

LockGet(t) == Lock(t, "get", "find")

\* Mutant: FindHit, without numRef += 1.
FindWithoutCount(t) ==
  /\ At(t, "find")
  /\ pools[Uri(t)] # None
  /\ data' = [data EXCEPT ![t] = pools[Uri(t)].pool]
  /\ Goto(t, "found")
  /\ UNCHANGED <<phase, managerVars, handles, ptr>>

(* An entry of the map is found, also when its pool was destroyed. *)
FindHit(t) ==
  /\ At(t, "find")
  /\ pools[Uri(t)] # None
  /\ pools' = [pools EXCEPT ![Uri(t)].numRef = @ + 1]
  /\ data' = [data EXCEPT ![t] = pools[Uri(t)].pool]
  /\ Goto(t, "found")
  /\ UNCHANGED <<phase, mutex, created, alive, handles, ptr>>

FindMiss(t) ==
  /\ At(t, "find")
  /\ pools[Uri(t)] = None
  /\ Goto(t, "create")
  /\ UNCHANGED <<phase, managerVars, handles, ptr, data>>

(* mongoc_client_pool_new, emplace, at: emplace keeps an entry it finds. *)
Create(t) ==
  /\ At(t, "create") /\ Uri(t) \notin BadUris
  /\ LET u == Uri(t)
         new == <<u, created[u]>>
     IN  /\ created' = [created EXCEPT ![u] = @ + 1]
         /\ alive' = alive \cup {new}
         /\ pools' = IF pools[u] = None
                     THEN [pools EXCEPT ![u] = [numRef |-> 1, pool |-> new]]
                     ELSE pools
         /\ data' = [data EXCEPT ![t] = pools'[u].pool]
  /\ Goto(t, "found")
  /\ UNCHANGED <<phase, mutex, handles, ptr>>

(* mongoc_uri_new returned NULL, and a pool is made of it. *)
CreateInvalid(t) ==
  /\ At(t, "create") /\ Uri(t) \in BadUris
  /\ Undefined

UnlockGet(t) == Unlock(t, "found", "store")

(* ptr->uri and ptr->pool are copied from the map entry after the unlock; *)
(* nothing ever changes these fields of an entry.                         *)
Store(t) ==
  /\ At(t, "store")
  /\ handles' = [handles EXCEPT ![ptr[t]] =
                   [is |-> "held", owner |-> t, uri |-> Uri(t), pool |-> data[t]]]
  /\ data' = [data EXCEPT ![t] = None]
  /\ Goto(t, "configure")
  /\ UNCHANGED <<phase, managerVars, ptr>>

Configure(t) ==
  /\ At(t, "configure")
  /\ IF handles[ptr[t]].pool \in alive
     THEN /\ ptr' = [ptr EXCEPT ![t] = None]
          /\ Goto(t, "idle")
          /\ UNCHANGED <<phase, managerVars, handles, data>>
     ELSE Undefined

-------------------------------------------------------------------------------
(* __gc: mongodb_destroypool. *)

Collect(t, h) ==
  /\ At(t, "idle")
  /\ handles[h].is = "held" /\ handles[h].owner = t
  /\ ptr' = [ptr EXCEPT ![t] = h]
  /\ Goto(t, "release")
  /\ UNCHANGED <<phase, managerVars, handles, data>>

(* The uri of the userdata was never set. *)
CollectRaw(t, h) ==
  /\ At(t, "idle")
  /\ handles[h].is = "raw" /\ handles[h].owner = t
  /\ Undefined

LockRelease(t) == Lock(t, "release", "drop")

\* Mutant: Drop, destroying one reference too early.
DropTooEarly(t) ==
  /\ At(t, "drop")
  /\ pools' = [pools EXCEPT ![Uri(t)].numRef = @ - 1]
  /\ alive' = IF pools[Uri(t)].numRef <= 2 THEN alive \ {pools[Uri(t)].pool} ELSE alive
  /\ Goto(t, "dropped")
  /\ UNCHANGED <<phase, mutex, created, handles, ptr, data>>

\* Mutant: Drop, testing the count before it is decremented.
DropTooLate(t) ==
  /\ At(t, "drop")
  /\ pools' = [pools EXCEPT ![Uri(t)].numRef = @ - 1]
  /\ alive' = IF pools[Uri(t)].numRef = 0 THEN alive \ {pools[Uri(t)].pool} ELSE alive
  /\ Goto(t, "dropped")
  /\ UNCHANGED <<phase, mutex, created, handles, ptr, data>>

(* The last reference destroys pool and URI; the entry stays in the map.   *)
(* mongoc_uri_get_string reads the URI of the handle, which HeldAlive says *)
(* is still there.                                                         *)
Drop(t) ==
  /\ At(t, "drop")
  /\ pools' = [pools EXCEPT ![Uri(t)].numRef = @ - 1]
  /\ alive' = IF pools[Uri(t)].numRef = 1 THEN alive \ {pools[Uri(t)].pool} ELSE alive
  /\ Goto(t, "dropped")
  /\ UNCHANGED <<phase, mutex, created, handles, ptr, data>>

UnlockRelease(t) == Unlock(t, "dropped", "forget")

Forget(t) ==
  /\ At(t, "forget")
  /\ handles' = [handles EXCEPT ![ptr[t]] = Free]
  /\ ptr' = [ptr EXCEPT ![t] = None]
  /\ Goto(t, "idle")
  /\ UNCHANGED <<phase, managerVars, data>>

-------------------------------------------------------------------------------
Get(t) ==
  \/ LockGet(t) \/ FindHit(t) \/ FindMiss(t) \/ Create(t) \/ CreateInvalid(t)
  \/ UnlockGet(t) \/ Store(t) \/ Configure(t)

Release(t) ==
  \/ LockRelease(t) \/ Drop(t) \/ UnlockRelease(t) \/ Forget(t)

Next ==
  \E t \in Threads :
    \/ \E h \in Handles :
         \/ \E u \in Uris : NewPool(t, h, u)
         \/ NewPoolRaises(t, h) \/ Collect(t, h) \/ CollectRaw(t, h)
    \/ Get(t) \/ Release(t)

Spec == Init /\ [][Next]_vars

-------------------------------------------------------------------------------
TypeOK ==
  /\ phase \in {"running", "undefined"}
  /\ mutex \in Threads \cup {None}
  /\ pools \in [Uris -> [numRef : Nat, pool : Pools] \cup {None}]
  /\ created \in [Uris -> Nat]
  /\ alive \subseteq Pools
  /\ handles \in [Handles -> [is    : {"free", "new", "held", "raw"},
                              owner : Threads \cup {None},
                              uri   : Uris \cup {None},
                              pool  : Pools \cup {None}]]
  /\ pc \in [Threads -> {"idle", "get", "find", "create", "found", "store", "configure",
                         "release", "drop", "dropped", "forget"}]
  /\ ptr \in [Threads -> Handles \cup {None}]
  /\ data \in [Threads -> Pools \cup {None}]

(* Whether a handle holds a reference: from the step of getPoolForUri that *)
(* counted it to the step of releasePool that counts it off.               *)
Refers(h) ==
  /\ handles[h].is \in {"new", "held"}
  /\ LET t == handles[h].owner
     IN  IF ptr[t] = h THEN pc[t] \notin {"get", "find", "create", "dropped", "forget"}
         ELSE TRUE

Referring(u) == {h \in Handles : handles[h].uri = u /\ Refers(h)}

(* The reference count of every entry is the number of handles that hold  *)
(* a reference, whatever the threads do at the same time.                  *)
CountIsHandles ==
  \A u \in Uris : pools[u] # None => pools[u].numRef = Cardinality(Referring(u))

(* There is one pool for a connection string, and an entry for it exactly *)
(* when it was created: no pool is leaked.                                 *)
OnePool ==
  \A u \in Uris :
    /\ pools[u] = None => created[u] = 0
    /\ pools[u] # None => created[u] = 1 /\ pools[u].pool = <<u, 0>>

(* A pool is never destroyed under a handle that refers to it, nor between *)
(* the lookup that found it and the step that stores it in a handle.       *)
NoEarlyDestroy ==
  [][\A p \in alive \ alive' :
       /\ \A h \in Handles : handles'[h].pool = p => ~Refers(h)'
       /\ \A t \in Threads : data'[t] # p]_vars

(* A handle that a script may use, or that is being released, has a live   *)
(* pool: the count protects it from its first use to its finaliser.        *)
HeldAlive ==
  \A h \in Handles :
    LET t == handles[h].owner
    IN  handles[h].is = "held" /\ (ptr[t] = h => pc[t] \in {"release", "drop"}) =>
          handles[h].pool \in alive

(* The last release does destroy: no pool outlives its references, so      *)
(* nothing is leaked as long as every handle is collected.                 *)
UnusedDestroyed ==
  \A u \in Uris :
    pools[u] # None /\ pools[u].numRef = 0 => pools[u].pool \notin alive

(* "Creates a new connection associated to a pool for the specified        *)
(* connection string", README.MD: a new handle has a pool that is alive.   *)
NewPoolIsAlive ==
  \A t \in Threads :
    pc[t] = "configure" => handles[ptr[t]].pool \in alive

-------------------------------------------------------------------------------
(* The abstract manager: who shares a pool, and whether it still exists. *)
usersBar == [u \in Uris |-> Referring(u)]

stateBar ==
  [u \in Uris |-> IF pools[u] = None THEN "absent"
                  ELSE IF pools[u].pool \in alive THEN "live" ELSE "dead"]

SP == INSTANCE SharedPools WITH users <- usersBar, state <- stateBar

(* Whatever threads make and collect handles at the same time, the manager  *)
(* behaves as if getPoolForUri and releasePool were one step each, and the  *)
(* only pool it hands out after its destruction is one that a last release  *)
(* destroyed.                                                               *)
SPSpec == SP!Spec

-------------------------------------------------------------------------------
(* The inductive invariant. *)

MutexInv ==
  \A t \in Threads :
    pc[t] \in {"find", "create", "found", "drop", "dropped"} <=> mutex = t

(* What a thread knows about the handle it works on, by its place. *)
PtrInv ==
  \A t \in Threads :
    /\ pc[t] = "idle" <=> ptr[t] = None
    /\ pc[t] # "idle" => handles[ptr[t]].owner = t
    /\ pc[t] \in {"get", "find", "create", "found", "store"} => handles[ptr[t]].is = "new"
    /\ pc[t] \in {"configure", "release", "drop", "dropped", "forget"} =>
         handles[ptr[t]].is = "held"
    /\ pc[t] = "create" => pools[Uri(t)] = None
    /\ IF pc[t] \in {"found", "store"}
       THEN pools[Uri(t)] # None /\ data[t] = pools[Uri(t)].pool
       ELSE data[t] = None

(* What a handle says about the map, by what became of it. *)
HandleInv ==
  \A h \in Handles :
    /\ handles[h].is \in {"new", "held"} => handles[h].owner \in Threads /\ handles[h].uri \in Uris
    /\ handles[h].is = "new" => ptr[handles[h].owner] = h
    /\ IF handles[h].is = "held"
       THEN pools[handles[h].uri] # None /\ handles[h].pool = pools[handles[h].uri].pool
       ELSE handles[h].pool = None

IInv ==
  /\ TypeOK
  /\ MutexInv
  /\ PtrInv
  /\ HandleInv
  /\ OnePool
  /\ CountIsHandles

===============================================================================
