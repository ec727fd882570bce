----------------------------- MODULE ScriptStates -----------------------------
(***************************************************************************)
(* Class Script (scripting/src/script.cpp): service.lua is executed, every *)
(* method entry it declares is registered with as many preloaded Lua       *)
(* states as the server has threads, and each server thread then takes a   *)
(* state of its own for every handler it runs.                             *)
(*                                                                         *)
(* One thread executes and registers; the threads of the io_service pool   *)
(* then run handlers concurrently.  getStateForThread is modelled          *)
(* statement by statement, with its mutex, because the map and the vectors *)
(* it works on are shared by all of them.                                  *)
(***************************************************************************)
EXTENDS Naturals, Sequences, FiniteSets

CONSTANTS
  Threads,     (* the threads of the server's io_service pool              *)
  Entries,     (* the method entries of service.lua: records of a service  *)
               (* regex, the name of the method entry, and the script      *)
               (* folder onRequest holds, the strings as sequences         *)
  NoScript,    (* the onRequest of an entry that does not hold a string    *)
  NoThread,    (* the mutex is free                                        *)
  NoState,     (* no entry in the map of states                            *)
  NoEntry      (* no handler registered, or none running                   *)

ASSUME ThreadsAssumption ==
  /\ IsFiniteSet(Threads)
  /\ NoThread \notin Threads

(* main gives the same ConfigManager::threadPoolSize() to the server and to *)
(* the scripts.                                                             *)
NumThreads == Cardinality(Threads)

LuaStates == Entries \X (1..NumThreads)

ASSUME SentinelAssumption ==
  /\ NoEntry \notin Entries
  /\ NoState \notin LuaStates

Supported == {"GET", "POST", "PUT", "HEAD", "DELETE", "OPTIONS"}

(* getMethodString(getMethod(name)): an unknown name becomes kNONE, whose *)
(* string is that of GET.                                                 *)
MethodString(name) == IF name \in Supported THEN name ELSE "GET"

Declared == {e \in Entries : e.script # NoScript}

\* Mutant: KeyOf, without the method.
KeyWithoutMethod(e) == <<e.service \o e.script, "">>
(* The key of preloadedScripts: service, folder and method in one string. *)
KeyOf(e) == <<e.service \o e.script, MethodString(e.name)>>
Keys == {KeyOf(e) : e \in Declared}

(* resource[path][method] of the web server *)
RouteOf(e) == <<e.service, MethodString(e.name)>>
Routes == {RouteOf(e) : e \in Declared}

(* the file preloadScripts loads *)
ScriptFile(e) == <<e.script, MethodString(e.name)>>

VARIABLES
  phase,       (* "loading", "registering", "serving", or "exited"         *)
  pending,     (* the entries execute() has not walked yet                 *)
  resource,    (* the entry whose handler each route runs                  *)
  preloaded,   (* preloadedScripts: a vector of Lua states for every key   *)
  states,      (* states[k][t]: the map from key and thread to Lua state   *)
  mutex,       (* the thread that holds Script::mutex                      *)
  pc,          (* where each thread is in the handler                      *)
  request,     (* the entry whose handler each thread runs                 *)
  current      (* scriptL: what getStateForThread gave to each thread      *)

scriptVars == <<resource, preloaded, states>>
threadVars == <<mutex, pc, request, current>>
vars == <<phase, pending, scriptVars, threadVars>>

Init ==
  /\ phase = "loading"
  /\ pending = Entries
  /\ resource = [r \in Routes |-> NoEntry]
  /\ preloaded = [k \in Keys |-> <<>>]
  /\ states = [k \in Keys |-> [t \in Threads |-> NoState]]
  /\ mutex = NoThread
  /\ pc = [t \in Threads |-> "idle"]
  /\ request = [t \in Threads |-> NoEntry]
  /\ current = [t \in Threads |-> NoState]

-------------------------------------------------------------------------------
(* Start-up: one thread, before the server runs. *)

(* service.lua ran; its services are walked next. *)
Execute ==
  /\ phase = "loading"
  /\ phase' = "registering"
  /\ UNCHANGED <<pending, scriptVars, threadVars>>

(* service.lua raised an error: it is printed, nothing is registered, and *)
(* main starts the server all the same.                                   *)
ExecuteFails ==
  /\ phase = "loading"
  /\ phase' = "serving"
  /\ UNCHANGED <<pending, scriptVars, threadVars>>

(* lua_next walks services, and the entries of a service, in no order it *)
(* promises, but finishes one service before it goes to the next.        *)
NextInWalk(e) ==
  LET walked == {f.service : f \in Entries \ pending}
      open   == {f \in pending : f.service \in walked}
  IN  e \in (IF open = {} THEN pending ELSE open)

\* Mutant: PreloadScripts, one state short.
ShortPreload(e) == [i \in 1..(NumThreads - 1) |-> <<e, i>>]

(* preloadScripts: one new Lua state per thread, in which the script ran. *)
PreloadScripts(e) == [i \in 1..NumThreads |-> <<e, i>>]

(* Registers the handler of an entry.  Its vector of states replaces the *)
(* one its key had, its handler the one its route had.                   *)
RegisterMethod(e) ==
  /\ phase = "registering"
  /\ NextInWalk(e)
  /\ e.script # NoScript
  /\ pending' = pending \ {e}
  /\ preloaded' = [preloaded EXCEPT ![KeyOf(e)] = PreloadScripts(e)]
  /\ resource' = [resource EXCEPT ![RouteOf(e)] = e]
  /\ UNCHANGED <<phase, states, threadVars>>

(* A table whose onRequest is not a string, such as Origins, is skipped. *)
SkipEntry(e) ==
  /\ phase = "registering"
  /\ NextInWalk(e)
  /\ e.script = NoScript
  /\ pending' = pending \ {e}
  /\ UNCHANGED <<phase, scriptVars, threadVars>>

(* The script of an entry cannot be loaded or raises an error: exit(1). *)
PreloadFails(e) ==
  /\ phase = "registering"
  /\ NextInWalk(e)
  /\ e.script # NoScript
  /\ phase' = "exited"
  /\ UNCHANGED <<pending, scriptVars, threadVars>>

StartServer ==
  /\ phase = "registering"
  /\ pending = {}
  /\ phase' = "serving"
  /\ UNCHANGED <<pending, scriptVars, threadVars>>

-------------------------------------------------------------------------------
(* The handler of a request, on one of the server's threads. *)

Key(t) == KeyOf(request[t])

Goto(t, label) == pc' = [pc EXCEPT ![t] = label]

(* find_resource calls the handler registered for the matching route. *)
Dispatch(t, r) ==
  /\ phase = "serving"
  /\ pc[t] = "idle"
  /\ resource[r] # NoEntry
  /\ request' = [request EXCEPT ![t] = resource[r]]
  /\ Goto(t, "lock")
  /\ UNCHANGED <<phase, pending, scriptVars, mutex, current>>

\* Mutant: LockMutex, without the lock.
LockIgnored(t) ==
  /\ pc[t] = "lock"
  /\ mutex' = t
  /\ Goto(t, "lookup")
  /\ UNCHANGED <<phase, pending, scriptVars, request, current>>

LockMutex(t) ==
  /\ pc[t] = "lock"
  /\ mutex = NoThread
  /\ mutex' = t
  /\ Goto(t, "lookup")
  /\ UNCHANGED <<phase, pending, scriptVars, request, current>>

(* states.find(key): this thread already has a state for the handler. *)
LookupHit(t) ==
  /\ pc[t] = "lookup"
  /\ states[Key(t)][t] # NoState
  /\ current' = [current EXCEPT ![t] = states[Key(t)][t]]
  /\ Goto(t, "unlock")
  /\ UNCHANGED <<phase, pending, scriptVars, mutex, request>>

\* Mutant: LookupMiss, when there is a state too.
LookupMissAlways(t) ==
  /\ pc[t] = "lookup"
  /\ Goto(t, "take")
  /\ UNCHANGED <<phase, pending, scriptVars, mutex, request, current>>

LookupMiss(t) ==
  /\ pc[t] = "lookup"
  /\ states[Key(t)][t] = NoState
  /\ Goto(t, "take")
  /\ UNCHANGED <<phase, pending, scriptVars, mutex, request, current>>

(* states[key] = preloadedScripts[preloadKey].back() *)
TakeBack(t) ==
  /\ pc[t] = "take"
  /\ states' = [states EXCEPT ![Key(t)][t] =
                  preloaded[Key(t)][Len(preloaded[Key(t)])]]
  /\ Goto(t, "pop")
  /\ UNCHANGED <<phase, pending, resource, preloaded, mutex, request, current>>

\* Mutant: PopBack, without pop_back.
PopNothing(t) ==
  /\ pc[t] = "pop"
  /\ current' = [current EXCEPT ![t] = states[Key(t)][t]]
  /\ Goto(t, "unlock")
  /\ UNCHANGED <<phase, pending, scriptVars, mutex, request>>

(* preloadedScripts[preloadKey].pop_back(); return states[key] *)
PopBack(t) ==
  /\ pc[t] = "pop"
  /\ preloaded' = [preloaded EXCEPT ![Key(t)] = SubSeq(@, 1, Len(@) - 1)]
  /\ current' = [current EXCEPT ![t] = states[Key(t)][t]]
  /\ Goto(t, "unlock")
  /\ UNCHANGED <<phase, pending, resource, states, mutex, request>>

\* Mutant: UnlockMutex, without the unlock.
KeepMutex(t) ==
  /\ pc[t] = "unlock"
  /\ Goto(t, "run")
  /\ UNCHANGED <<phase, pending, scriptVars, mutex, request, current>>

(* The lock_guard goes out of scope; the handler runs in its state. *)
UnlockMutex(t) ==
  /\ pc[t] = "unlock"
  /\ mutex' = NoThread
  /\ Goto(t, "run")
  /\ UNCHANGED <<phase, pending, scriptVars, request, current>>

(* The handler returns and its thread goes back to the io_service. *)
Finish(t) ==
  /\ pc[t] = "run"
  /\ request' = [request EXCEPT ![t] = NoEntry]
  /\ current' = [current EXCEPT ![t] = NoState]
  /\ Goto(t, "idle")
  /\ UNCHANGED <<phase, pending, scriptVars, mutex>>

-------------------------------------------------------------------------------
GetStateForThread(t) ==
  \/ LockMutex(t)
  \/ LookupHit(t)
  \/ LookupMiss(t)
  \/ TakeBack(t)
  \/ PopBack(t)
  \/ UnlockMutex(t)

(* The process has exited, or no handler is registered and the server only *)
(* answers requests no handler of Script is called for.                    *)
NoHandlerLeft ==
  /\ \/ phase = "exited"
     \/ phase = "serving" /\ \A r \in Routes : resource[r] = NoEntry
  /\ UNCHANGED vars

Next ==
  \/ Execute \/ ExecuteFails \/ StartServer \/ NoHandlerLeft
  \/ \E e \in Entries : RegisterMethod(e) \/ SkipEntry(e) \/ PreloadFails(e)
  \/ \E t \in Threads :
       \/ \E r \in Routes : Dispatch(t, r)
       \/ GetStateForThread(t)
       \/ Finish(t)

(* The operating system schedules every thread that can run, and the mutex *)
(* is only held for a few statements; that a script returns is assumed.    *)
Fairness == \A t \in Threads : WF_vars(GetStateForThread(t) \/ Finish(t))

Spec == Init /\ [][Next]_vars

FairSpec == Spec /\ Fairness

-------------------------------------------------------------------------------
InCritical(t) == pc[t] \in {"lookup", "take", "pop", "unlock"}

TypeOK ==
  /\ phase \in {"loading", "registering", "serving", "exited"}
  /\ pending \subseteq Entries
  /\ resource \in [Routes -> Declared \cup {NoEntry}]
  /\ preloaded \in [Keys -> Seq(LuaStates)]
  /\ states \in [Keys -> [Threads -> LuaStates \cup {NoState}]]
  /\ mutex \in Threads \cup {NoThread}
  /\ pc \in [Threads ->
       {"idle", "lock", "lookup", "take", "pop", "unlock", "run"}]
  /\ request \in [Threads -> Declared \cup {NoEntry}]
  /\ current \in [Threads -> LuaStates \cup {NoState}]

(* Two handlers never execute in the same Lua state at the same time: a     *)
(* lua_State is not thread safe and nothing else protects it.               *)
Exclusive ==
  \A t, u \in Threads :
    t # u /\ pc[t] = "run" /\ pc[u] = "run" => current[t] # current[u]

(* back() is never called on an empty vector, which is undefined: the      *)
(* threads that still need a state of a key never outnumber its vector.    *)
NeverDry ==
  \A t \in Threads : pc[t] = "take" => preloaded[Key(t)] # <<>>

(* A handler executes in a state loaded from the script file of its own    *)
(* entry: "which subfolder should implement a specific HTTP method for the *)
(* endpoint", README.MD.                                                   *)
OwnScript ==
  \A t \in Threads :
    pc[t] = "run" => ScriptFile(current[t][1]) = ScriptFile(request[t])

(* The state a thread has for a key never changes: what a script keeps in *)
(* its globals is still there at the next request on that thread.         *)
StatesStick ==
  [][\A k \in Keys, t \in Threads :
       states[k][t] # NoState => states'[k][t] = states[k][t]]_vars

(* Some handler gets its state whenever one waits for the mutex: the mutex *)
(* is released on both paths through getStateForThread.  (A given thread   *)
(* may starve: std::mutex is not fair.)                                    *)
SomeHandlerRuns ==
  (\E t \in Threads : pc[t] = "lock") ~> (\E t \in Threads : pc[t] = "run")

-------------------------------------------------------------------------------
(* The state pool implements private states. *)

ownsBar ==
  {o \in LuaStates \X Threads : \E k \in Keys : states[k][o[2]] = o[1]}

busyBar == [t \in Threads |-> IF pc[t] = "run" THEN {current[t]} ELSE {}]

PS == INSTANCE PrivateStates WITH owns <- ownsBar, busy <- busyBar

(* Every Lua state is claimed by at most one thread, and handlers execute *)
(* only in states their thread has claimed.                               *)
PSSpec == PS!Spec

-------------------------------------------------------------------------------
(* The inductive invariant. *)

(* Some registered handler uses the states of key k. *)
Loaded(k) == \E r \in Routes : resource[r] # NoEntry /\ KeyOf(resource[r]) = k

(* The threads that have not taken a state of key k out of its vector. *)
Unserved(k) ==
  {t \in Threads : \/ states[k][t] = NoState
                   \/ pc[t] = "pop" /\ Key(t) = k}

MutexInv ==
  \A t \in Threads : InCritical(t) <=> mutex = t

BeforeServing ==
  phase # "serving" =>
    /\ \A t \in Threads : pc[t] = "idle"
    /\ \A k \in Keys, t \in Threads : states[k][t] = NoState

(* What each place in the handler knows about the key it works on. *)
HandlerInv ==
  \A t \in Threads :
    /\ pc[t] # "idle" => request[t] # NoEntry /\ Loaded(Key(t))
    /\ pc[t] = "take" => states[Key(t)][t] = NoState
    /\ pc[t] = "pop" =>
         /\ preloaded[Key(t)] # <<>>
         /\ states[Key(t)][t] = preloaded[Key(t)][Len(preloaded[Key(t)])]
    /\ pc[t] \in {"unlock", "run"} =>
         /\ states[Key(t)][t] # NoState
         /\ current[t] = states[Key(t)][t]

(* The states of a key were preloaded for an entry with that key. *)
Provenance ==
  \A k \in Keys :
    /\ \A i \in 1..Len(preloaded[k]) : /\ preloaded[k][i][1] \in Declared
                                       /\ KeyOf(preloaded[k][i][1]) = k
    /\ \A t \in Threads :
         states[k][t] # NoState => /\ states[k][t][1] \in Declared
                                   /\ KeyOf(states[k][t][1]) = k

(* A Lua state is in one place: at one position of a vector or with one    *)
(* thread, except between back() and pop_back() of the thread that has it. *)
OnePlace ==
  \A k \in Keys :
    /\ \A i, j \in 1..Len(preloaded[k]) :
         preloaded[k][i] = preloaded[k][j] => i = j
    /\ \A t, u \in Threads :
         t # u /\ states[k][t] = states[k][u] => states[k][t] = NoState
    /\ \A t \in Threads : \A i \in 1..Len(preloaded[k]) :
         states[k][t] = preloaded[k][i] =>
           pc[t] = "pop" /\ Key(t) = k /\ i = Len(preloaded[k])

(* The vector of a key holds one state for every thread not yet served. *)
Enough ==
  \A k \in Keys :
    Loaded(k) => Len(preloaded[k]) = Cardinality(Unserved(k))

IInv ==
  /\ TypeOK
  /\ MutexInv
  /\ BeforeServing
  /\ HandlerInv
  /\ Provenance
  /\ OnePlace
  /\ Enough

===============================================================================
