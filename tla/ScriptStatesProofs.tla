-------------------------- MODULE ScriptStatesProofs --------------------------
(***************************************************************************)
(* Proofs about ScriptStates, for any finite set of threads and any        *)
(* service map.  The inductive invariant IInv follows a Lua state from the *)
(* vector it is preloaded into, through back() and pop_back(), to the      *)
(* thread that keeps it, and counts that a vector never runs out.          *)
(***************************************************************************)
EXTENDS ScriptStates, FiniteSetTheorems, SequenceTheorems, TLAPS

(* NumThreads is a natural number. *)
LEMMA NumThreadsType == NumThreads \in Nat
  BY ThreadsAssumption, FS_CardinalityType DEF NumThreads

(* Every declared entry has a key and a route. *)
LEMMA KeyAndRoute ==
  ASSUME NEW e \in Declared
  PROVE  /\ KeyOf(e) \in Keys
         /\ RouteOf(e) \in Routes
         /\ e \in Entries
         /\ e # NoEntry
  BY SentinelAssumption DEF Keys, Routes, Declared

(* A preloaded vector holds NumThreads different states of its entry. *)
LEMMA PreloadFacts ==
  ASSUME NEW e \in Declared
  PROVE  /\ PreloadScripts(e) \in Seq(LuaStates)
         /\ Len(PreloadScripts(e)) = NumThreads
         /\ \A i \in 1..NumThreads : PreloadScripts(e)[i] = <<e, i>>
<1>1. \A i \in 1..NumThreads : PreloadScripts(e)[i] = <<e, i>>
  BY DEF PreloadScripts
<1>2. PreloadScripts(e) \in [1..NumThreads -> LuaStates]
  BY DEF PreloadScripts, LuaStates, Declared
<1>3. PreloadScripts(e) \in Seq(LuaStates) /\ Len(PreloadScripts(e)) = NumThreads
  BY <1>2, NumThreadsType
<1> QED
  BY <1>1, <1>3

(* The threads without a state of a key form a finite set. *)
LEMMA UnservedFinite ==
  ASSUME NEW k
  PROVE  IsFiniteSet(Unserved(k))
  BY ThreadsAssumption, FS_Subset DEF Unserved

(* Where a thread is inside its handler, its key is one of the keys. *)
LEMMA HandlerKey ==
  ASSUME TypeOK, HandlerInv, NEW t \in Threads, pc[t] # "idle"
  PROVE  request[t] \in Declared /\ Key(t) \in Keys /\ Loaded(Key(t))
<1>1. request[t] \in Declared /\ Loaded(Key(t))
  BY DEF TypeOK, HandlerInv
<1> QED
  BY <1>1, KeyAndRoute DEF Key

(* The invariant makes the vector of a thread about to take a state nonempty. *)
LEMMA VectorNotEmpty ==
  ASSUME IInv, NEW t \in Threads, pc[t] = "take"
  PROVE  /\ Key(t) \in Keys
         /\ Len(preloaded[Key(t)]) \in Nat \ {0}
         /\ preloaded[Key(t)] # <<>>
<1> DEFINE k == Key(t)
<1>1. k \in Keys /\ Loaded(k) /\ states[k][t] = NoState
  BY HandlerKey DEF IInv, HandlerInv
<1>2. t \in Unserved(k)
  BY <1>1 DEF Unserved
<1>3. Cardinality(Unserved(k)) \in Nat /\ Cardinality(Unserved(k)) # 0
  BY <1>2, UnservedFinite, FS_CardinalityType, FS_EmptySet
<1>4. Len(preloaded[k]) = Cardinality(Unserved(k))
  BY <1>1 DEF IInv, Enough
<1> QED
  BY <1>1, <1>3, <1>4

-------------------------------------------------------------------------------
(* The initial states satisfy the invariant. *)
LEMMA InitIInv == Init => IInv
<1> SUFFICES ASSUME Init PROVE IInv
  OBVIOUS
<1> USE DEF Init
<1>1. TypeOK
  BY DEF TypeOK, Routes, Keys
<1>2. MutexInv
  BY ThreadsAssumption DEF MutexInv, InCritical
<1>3. BeforeServing /\ HandlerInv /\ Provenance /\ OnePlace
  BY DEF BeforeServing, HandlerInv, Provenance, OnePlace
<1>4. Enough
  BY DEF Enough, Loaded
<1> QED
  BY <1>1, <1>2, <1>3, <1>4 DEF IInv

-------------------------------------------------------------------------------
(* Start-up: the steps of the thread that executes and registers. *)

(* Executing service.lua and starting the server only change the phase. *)
LEMMA PhaseStepIInv ==
  ASSUME IInv, Execute \/ ExecuteFails \/ StartServer
  PROVE  IInv'
<1>1. /\ phase # "serving"
      /\ phase' \in {"loading", "registering", "serving", "exited"}
      /\ UNCHANGED <<pending, resource, preloaded, states, mutex, pc, request, current>>
  BY DEF Execute, ExecuteFails, StartServer, scriptVars, threadVars
<1>2. TypeOK'
  BY <1>1 DEF IInv, TypeOK
<1>3. MutexInv' /\ BeforeServing' /\ HandlerInv' /\ Provenance'
  BY <1>1 DEF IInv, MutexInv, InCritical, BeforeServing, HandlerInv, Provenance, Loaded, Key
<1>4. OnePlace' /\ Enough'
  BY <1>1 DEF IInv, OnePlace, Enough, Loaded, Unserved, Key
<1> QED
  BY <1>2, <1>3, <1>4 DEF IInv

(* A skipped entry, or one whose script fails, leaves all maps alone. *)
LEMMA SkipIInv ==
  ASSUME IInv, NEW e \in Entries, SkipEntry(e) \/ PreloadFails(e)
  PROVE  IInv'
<1>1. /\ phase = "registering" /\ phase' \in {"registering", "exited"}
      /\ pending' = pending \/ pending' = pending \ {e}
      /\ UNCHANGED <<resource, preloaded, states, mutex, pc, request, current>>
  BY DEF SkipEntry, PreloadFails, scriptVars, threadVars
<1>2. TypeOK'
  BY <1>1 DEF IInv, TypeOK
<1>3. MutexInv' /\ BeforeServing' /\ HandlerInv' /\ Provenance'
  BY <1>1 DEF IInv, MutexInv, InCritical, BeforeServing, HandlerInv, Provenance, Loaded, Key
<1>4. OnePlace' /\ Enough'
  BY <1>1 DEF IInv, OnePlace, Enough, Loaded, Unserved, Key
<1> QED
  BY <1>2, <1>3, <1>4 DEF IInv

(* Registering replaces a whole vector while nobody has taken a state. *)
LEMMA RegisterIInv ==
  ASSUME IInv, NEW e \in Entries, RegisterMethod(e)
  PROVE  IInv'
<1> DEFINE ke == KeyOf(e)
<1> USE DEF scriptVars, threadVars
<1>1. e \in Declared /\ ke \in Keys /\ RouteOf(e) \in Routes
  BY KeyAndRoute DEF RegisterMethod, Declared
<1>2. /\ phase = "registering" /\ phase' = "registering"
      /\ pending' = pending \ {e}
      /\ preloaded' = [preloaded EXCEPT ![ke] = PreloadScripts(e)]
      /\ resource' = [resource EXCEPT ![RouteOf(e)] = e]
      /\ UNCHANGED <<states, mutex, pc, request, current>>
  BY DEF RegisterMethod
<1>3. /\ \A t \in Threads : pc[t] = "idle"
      /\ \A k \in Keys, t \in Threads : states[k][t] = NoState
  BY <1>2 DEF IInv, BeforeServing
<1>4. TypeOK'
  BY <1>1, <1>2, PreloadFacts DEF IInv, TypeOK
<1>5. MutexInv' /\ BeforeServing' /\ HandlerInv'
  BY <1>2, <1>3 DEF IInv, MutexInv, InCritical, BeforeServing, HandlerInv
<1>6. /\ preloaded'[ke] = PreloadScripts(e)
      /\ \A k \in Keys : k # ke => preloaded'[k] = preloaded[k]
  BY <1>1, <1>2 DEF IInv, TypeOK
<1>7. Provenance'
  <2>1. \A i \in 1..Len(preloaded'[ke]) : preloaded'[ke][i] = <<e, i>>
    BY <1>1, <1>6, PreloadFacts
  <2> QED
    BY <1>1, <1>2, <1>3, <1>6, <2>1 DEF IInv, Provenance
<1>8. OnePlace'
  <2>1. /\ Len(preloaded'[ke]) = NumThreads
        /\ \A i \in 1..NumThreads : preloaded'[ke][i] = <<e, i>> /\ <<e, i>> \in LuaStates
    BY <1>1, <1>6, PreloadFacts DEF LuaStates
  <2>2. \A i, j \in 1..Len(preloaded'[ke]) :
          preloaded'[ke][i] = preloaded'[ke][j] => i = j
    <3> SUFFICES ASSUME NEW i \in 1..NumThreads, NEW j \in 1..NumThreads,
                        preloaded'[ke][i] = preloaded'[ke][j]
                 PROVE  i = j
      BY <2>1
    <3>1. <<e, i>> = <<e, j>>
      BY <2>1
    <3> QED
      BY <3>1
  <2>3. \A t \in Threads : \A i \in 1..Len(preloaded'[ke]) :
          states'[ke][t] # preloaded'[ke][i]
    BY <1>1, <1>2, <1>3, <2>1, SentinelAssumption
  <2>4. ASSUME NEW k \in Keys, k # ke
        PROVE  /\ preloaded'[k] = preloaded[k]
               /\ states'[k] = states[k]
    BY <1>2, <1>6, <2>4
  <2> QED
    BY <1>2, <1>3, <2>2, <2>3, <2>4 DEF IInv, OnePlace, Key
<1>9. Enough'
  <2> SUFFICES ASSUME NEW k \in Keys, Loaded(k)'
               PROVE  (Len(preloaded[k]) = Cardinality(Unserved(k)))'
    BY DEF Enough
  <2>1. Unserved(k)' = Threads /\ Unserved(k) = Threads
    BY <1>2, <1>3 DEF Unserved
  <2>2. CASE k = ke
    BY <1>1, <1>6, <2>1, <2>2, PreloadFacts DEF NumThreads
  <2>3. CASE k # ke
    <3>1. Loaded(k)
      BY <1>1, <1>2, <2>3 DEF Loaded, IInv, TypeOK
    <3> QED
      BY <1>6, <2>1, <2>3, <3>1 DEF IInv, Enough
  <2> QED
    BY <2>2, <2>3
<1> QED
  BY <1>4, <1>5, <1>7, <1>8, <1>9 DEF IInv

-------------------------------------------------------------------------------
(* The handlers.  First, what a step of thread t preserves when it neither *)
(* touches the vectors and the map nor leaves or enters the place between  *)
(* back() and pop_back().                                                  *)
LEMMA ThreadStep ==
  ASSUME IInv, NEW t \in Threads,
         phase = "serving",
         UNCHANGED <<phase, preloaded, states, resource>>,
         pc[t] # "pop", pc'[t] # "pop",
         \A u \in Threads \ {t} : pc'[u] = pc[u] /\ request'[u] = request[u]
  PROVE  BeforeServing' /\ Provenance' /\ OnePlace' /\ Enough'
<1>1. \A k : \A u \in Threads : (pc[u] = "pop" /\ Key(u) = k) <=> (pc[u] = "pop" /\ Key(u) = k)'
  BY DEF Key
<1>2. BeforeServing' /\ Provenance'
  BY DEF IInv, BeforeServing, Provenance
<1>3. OnePlace'
  <2> SUFFICES ASSUME NEW k \in Keys
               PROVE  /\ \A i, j \in 1..Len(preloaded[k]) :
                           preloaded[k][i] = preloaded[k][j] => i = j
                      /\ \A u, v \in Threads :
                           u # v /\ states[k][u] = states[k][v] => states[k][u] = NoState
                      /\ \A u \in Threads : \A i \in 1..Len(preloaded[k]) :
                           states[k][u] = preloaded[k][i] =>
                             (pc[u] = "pop" /\ Key(u) = k)' /\ i = Len(preloaded[k])
    BY DEF OnePlace
  <2> QED
    BY <1>1 DEF IInv, OnePlace
<1>4. Enough'
  <2>1. \A k : Unserved(k)' = Unserved(k)
    BY <1>1 DEF Unserved
  <2>2. \A k : Loaded(k)' = Loaded(k)
    BY DEF Loaded
  <2> QED
    BY <2>1, <2>2 DEF IInv, Enough
<1> QED
  BY <1>2, <1>3, <1>4

(* A thread is in a handler only when the server runs. *)
LEMMA Serving ==
  ASSUME IInv, NEW t \in Threads, pc[t] # "idle"
  PROVE  phase = "serving"
  BY DEF IInv, BeforeServing

(* What a handler knows about its own key survives the steps of the others *)
(* that leave the vectors and the map alone.                               *)
LEMMA OthersHandlerInv ==
  ASSUME IInv, NEW u \in Threads,
         UNCHANGED <<resource, preloaded, states>>,
         pc'[u] = pc[u], request'[u] = request[u], current'[u] = current[u]
  PROVE  /\ pc'[u] # "idle" => request'[u] # NoEntry /\ Loaded(Key(u))'
         /\ pc'[u] = "take" => (states[Key(u)][u] = NoState)'
         /\ pc'[u] = "pop" =>
              /\ (preloaded[Key(u)] # <<>>)'
              /\ (states[Key(u)][u] = preloaded[Key(u)][Len(preloaded[Key(u)])])'
         /\ pc'[u] \in {"unlock", "run"} =>
              /\ (states[Key(u)][u] # NoState)'
              /\ (current[u] = states[Key(u)][u])'
<1>1. Key(u)' = Key(u)
  BY DEF Key
<1>2. \A k : Loaded(k)' = Loaded(k)
  BY DEF Loaded
<1> QED
  BY <1>1, <1>2 DEF IInv, HandlerInv

(* A dispatched handler works on a key that is loaded. *)
LEMMA DispatchIInv ==
  ASSUME IInv, NEW t \in Threads, NEW r \in Routes, Dispatch(t, r)
  PROVE  IInv'
<1>1. /\ phase = "serving" /\ pc[t] = "idle"
      /\ resource[r] \in Declared
      /\ request' = [request EXCEPT ![t] = resource[r]]
      /\ pc' = [pc EXCEPT ![t] = "lock"]
      /\ UNCHANGED <<phase, pending, resource, preloaded, states, mutex, current>>
  BY DEF Dispatch, Goto, scriptVars, IInv, TypeOK
<1>2. TypeOK'
  BY <1>1 DEF IInv, TypeOK
<1>3. /\ pc'[t] = "lock" /\ request'[t] = resource[r]
      /\ \A u \in Threads \ {t} : pc'[u] = pc[u] /\ request'[u] = request[u]
  BY <1>1 DEF IInv, TypeOK
<1>4. BeforeServing' /\ Provenance' /\ OnePlace' /\ Enough'
  BY <1>1, <1>3, ThreadStep
<1>5. MutexInv'
  BY <1>1, <1>3 DEF IInv, MutexInv, InCritical
<1>6. HandlerInv'
  <2>1. (request[t] # NoEntry /\ Loaded(Key(t)))'
    BY <1>1, <1>3, KeyAndRoute DEF Loaded, Key
  <2> QED
    BY <1>1, <1>3, <2>1, OthersHandlerInv DEF HandlerInv
<1> QED
  BY <1>2, <1>4, <1>5, <1>6 DEF IInv

(* The mutex is free, so no other thread is in getStateForThread. *)
LEMMA LockMutexIInv ==
  ASSUME IInv, NEW t \in Threads, LockMutex(t)
  PROVE  IInv'
<1>1. /\ phase = "serving" /\ pc[t] = "lock"
      /\ pc' = [pc EXCEPT ![t] = "lookup"]
      /\ mutex = NoThread /\ mutex' = t
      /\ UNCHANGED <<phase, pending, resource, preloaded, states, request, current>>
  BY Serving DEF LockMutex, Goto, scriptVars
<1>2. TypeOK'
  BY <1>1 DEF IInv, TypeOK
<1>3. /\ pc'[t] = "lookup"
      /\ \A u \in Threads \ {t} : /\ pc'[u] = pc[u] /\ request'[u] = request[u]
                                  /\ current'[u] = current[u]
  BY <1>1 DEF IInv, TypeOK
<1>4. BeforeServing' /\ Provenance' /\ OnePlace' /\ Enough'
  BY <1>1, <1>3, ThreadStep
<1>5. MutexInv'
  BY <1>1, <1>3, ThreadsAssumption DEF IInv, MutexInv, InCritical
<1>6. HandlerInv'
  <2>1. (request[t] # NoEntry /\ Loaded(Key(t)))'
    BY <1>1, HandlerKey DEF IInv, HandlerInv, Loaded, Key
  <2> QED
    BY <1>1, <1>3, <2>1, OthersHandlerInv DEF HandlerInv
<1> QED
  BY <1>2, <1>4, <1>5, <1>6 DEF IInv

(* The thread gets the state it took out of the vector at an earlier request. *)
LEMMA LookupHitIInv ==
  ASSUME IInv, NEW t \in Threads, LookupHit(t)
  PROVE  IInv'
<1>1. /\ phase = "serving" /\ pc[t] = "lookup"
      /\ pc' = [pc EXCEPT ![t] = "unlock"]
      /\ states[Key(t)][t] # NoState
      /\ current' = [current EXCEPT ![t] = states[Key(t)][t]]
      /\ UNCHANGED <<phase, pending, resource, preloaded, states, mutex, request>>
  BY Serving DEF LookupHit, Goto, scriptVars
<1>2. TypeOK'
  BY <1>1, HandlerKey DEF IInv, TypeOK
<1>3. /\ pc'[t] = "unlock"
      /\ \A u \in Threads \ {t} : /\ pc'[u] = pc[u] /\ request'[u] = request[u]
                                  /\ current'[u] = current[u]
  BY <1>1 DEF IInv, TypeOK
<1>4. BeforeServing' /\ Provenance' /\ OnePlace' /\ Enough'
  BY <1>1, <1>3, ThreadStep
<1>5. MutexInv'
  BY <1>1, <1>3, ThreadsAssumption DEF IInv, MutexInv, InCritical
<1>6. HandlerInv'
  <2>1. (request[t] # NoEntry /\ Loaded(Key(t)))'
    BY <1>1, HandlerKey DEF IInv, HandlerInv, Loaded, Key
  <2>2. (states[Key(t)][t] # NoState /\ current[t] = states[Key(t)][t])'
    BY <1>1 DEF Key, IInv, TypeOK
  <2> QED
    BY <1>1, <1>3, <2>1, <2>2, OthersHandlerInv DEF HandlerInv
<1> QED
  BY <1>2, <1>4, <1>5, <1>6 DEF IInv

(* The thread has no state of the key yet and goes on to take one. *)
LEMMA LookupMissIInv ==
  ASSUME IInv, NEW t \in Threads, LookupMiss(t)
  PROVE  IInv'
<1>1. /\ phase = "serving" /\ pc[t] = "lookup"
      /\ pc' = [pc EXCEPT ![t] = "take"]
      /\ states[Key(t)][t] = NoState
      /\ UNCHANGED <<phase, pending, resource, preloaded, states, mutex, request, current>>
  BY Serving DEF LookupMiss, Goto, scriptVars
<1>2. TypeOK'
  BY <1>1 DEF IInv, TypeOK
<1>3. /\ pc'[t] = "take"
      /\ \A u \in Threads \ {t} : /\ pc'[u] = pc[u] /\ request'[u] = request[u]
                                  /\ current'[u] = current[u]
  BY <1>1 DEF IInv, TypeOK
<1>4. BeforeServing' /\ Provenance' /\ OnePlace' /\ Enough'
  BY <1>1, <1>3, ThreadStep
<1>5. MutexInv'
  BY <1>1, <1>3, ThreadsAssumption DEF IInv, MutexInv, InCritical
<1>6. HandlerInv'
  <2>1. (request[t] # NoEntry /\ Loaded(Key(t)) /\ states[Key(t)][t] = NoState)'
    BY <1>1, HandlerKey DEF IInv, HandlerInv, Loaded, Key
  <2> QED
    BY <1>1, <1>3, <2>1, OthersHandlerInv DEF HandlerInv
<1> QED
  BY <1>2, <1>4, <1>5, <1>6 DEF IInv

(* Releasing the mutex: the thread keeps the state it got. *)
LEMMA UnlockMutexIInv ==
  ASSUME IInv, NEW t \in Threads, UnlockMutex(t)
  PROVE  IInv'
<1>1. /\ phase = "serving" /\ pc[t] = "unlock"
      /\ pc' = [pc EXCEPT ![t] = "run"]
      /\ mutex' = NoThread
      /\ UNCHANGED <<phase, pending, resource, preloaded, states, request, current>>
  BY Serving DEF UnlockMutex, Goto, scriptVars
<1>2. TypeOK'
  BY <1>1 DEF IInv, TypeOK
<1>3. /\ pc'[t] = "run"
      /\ \A u \in Threads \ {t} : /\ pc'[u] = pc[u] /\ request'[u] = request[u]
                                  /\ current'[u] = current[u]
  BY <1>1 DEF IInv, TypeOK
<1>4. BeforeServing' /\ Provenance' /\ OnePlace' /\ Enough'
  BY <1>1, <1>3, ThreadStep
<1>5. MutexInv'
  BY <1>1, <1>3, ThreadsAssumption DEF IInv, MutexInv, InCritical
<1>6. HandlerInv'
  <2>1. (request[t] # NoEntry /\ Loaded(Key(t)))'
    BY <1>1, HandlerKey DEF IInv, HandlerInv, Loaded, Key
  <2>2. (states[Key(t)][t] # NoState /\ current[t] = states[Key(t)][t])'
    BY <1>1 DEF Key, IInv, HandlerInv
  <2> QED
    BY <1>1, <1>3, <2>1, <2>2, OthersHandlerInv DEF HandlerInv
<1> QED
  BY <1>2, <1>4, <1>5, <1>6 DEF IInv

(* The handler returns; its thread keeps the state for the next request. *)
LEMMA FinishIInv ==
  ASSUME IInv, NEW t \in Threads, Finish(t)
  PROVE  IInv'
<1>1. /\ phase = "serving" /\ pc[t] = "run"
      /\ pc' = [pc EXCEPT ![t] = "idle"]
      /\ request' = [request EXCEPT ![t] = NoEntry]
      /\ current' = [current EXCEPT ![t] = NoState]
      /\ UNCHANGED <<phase, pending, resource, preloaded, states, mutex>>
  BY Serving DEF Finish, Goto, scriptVars
<1>2. TypeOK'
  BY <1>1 DEF IInv, TypeOK
<1>3. /\ pc'[t] = "idle"
      /\ \A u \in Threads \ {t} : /\ pc'[u] = pc[u] /\ request'[u] = request[u]
                                  /\ current'[u] = current[u]
  BY <1>1 DEF IInv, TypeOK
<1>4. BeforeServing' /\ Provenance' /\ OnePlace' /\ Enough'
  BY <1>1, <1>3, ThreadStep
<1>5. MutexInv'
  BY <1>1, <1>3, ThreadsAssumption DEF IInv, MutexInv, InCritical
<1>6. HandlerInv'
  BY <1>1, <1>3, OthersHandlerInv DEF HandlerInv
<1> QED
  BY <1>2, <1>4, <1>5, <1>6 DEF IInv

-------------------------------------------------------------------------------
(* The two steps that move a Lua state: back() and pop_back(). *)

(* Inside getStateForThread a thread is alone. *)
LEMMA AloneInside ==
  ASSUME IInv, NEW t \in Threads, InCritical(t)
  PROVE  /\ mutex = t
         /\ \A u \in Threads \ {t} : pc[u] \in {"idle", "lock", "run"}
  BY DEF IInv, MutexInv, InCritical, TypeOK

(* back(): the last state of the vector becomes the state of the thread. *)
LEMMA TakeBackIInv ==
  ASSUME IInv, NEW t \in Threads, TakeBack(t)
  PROVE  IInv'
<1> DEFINE k0 == Key(t)
           n == Len(preloaded[k0])
           b == preloaded[k0][n]
<1>1. /\ phase = "serving" /\ pc[t] = "take"
      /\ pc' = [pc EXCEPT ![t] = "pop"]
      /\ states' = [states EXCEPT ![k0][t] = b]
      /\ UNCHANGED <<phase, pending, resource, preloaded, mutex, request, current>>
  BY Serving DEF TakeBack, Goto
<1>2. /\ k0 \in Keys /\ n \in Nat \ {0} /\ preloaded[k0] # <<>>
      /\ request[t] # NoEntry /\ Loaded(k0) /\ states[k0][t] = NoState
  BY <1>1, VectorNotEmpty DEF IInv, HandlerInv
<1>3. b \in LuaStates /\ b # NoState
  BY <1>2, SentinelAssumption DEF IInv, TypeOK
<1>4. mutex = t /\ \A u \in Threads \ {t} : pc[u] \in {"idle", "lock", "run"}
  BY <1>1, AloneInside DEF InCritical
<1> HIDE DEF k0, n, b
<1>5. TypeOK'
  BY <1>1, <1>2, <1>3 DEF IInv, TypeOK
<1>6. /\ pc'[t] = "pop" /\ \A u \in Threads \ {t} : pc'[u] = pc[u]
      /\ states'[k0][t] = b
      /\ \A u \in Threads \ {t} : states'[k0][u] = states[k0][u]
      /\ \A k \in Keys \ {k0} : states'[k] = states[k]
  BY <1>1, <1>2 DEF IInv, TypeOK
<1>7. \A u \in Threads : Key(u)' = Key(u)
  BY <1>1 DEF Key
<1>8. \A k : Loaded(k)' = Loaded(k)
  BY <1>1 DEF Loaded
<1>9. MutexInv' /\ BeforeServing'
  BY <1>1, <1>4, <1>6 DEF IInv, MutexInv, InCritical, BeforeServing
<1>10. HandlerInv'
  <2>1. /\ (request[t] # NoEntry /\ Loaded(Key(t)))'
        /\ (preloaded[Key(t)] # <<>>)'
        /\ (states[Key(t)][t] = preloaded[Key(t)][Len(preloaded[Key(t)])])'
    BY <1>1, <1>2, <1>6, <1>7, <1>8 DEF k0, n, b
  <2>2. ASSUME NEW u \in Threads \ {t}
        PROVE  /\ pc'[u] # "idle" => (request[u] # NoEntry /\ Loaded(Key(u)))'
               /\ pc'[u] = "run" => /\ (states[Key(u)][u] # NoState)'
                                    /\ (current[u] = states[Key(u)][u])'
    <3>1. pc[u] # "idle" => Key(u) \in Keys
      BY HandlerKey DEF IInv
    <3> QED
      BY <1>1, <1>6, <1>7, <1>8, <3>1 DEF IInv, HandlerInv
  <2> QED
    BY <1>4, <1>6, <2>1, <2>2 DEF HandlerInv
<1>11. b[1] \in Declared /\ KeyOf(b[1]) = k0
  BY <1>2 DEF b, n, IInv, Provenance
<1>12. Provenance'
  BY <1>1, <1>2, <1>6, <1>11 DEF IInv, Provenance
<1>13. OnePlace'
  <2>1. \A u \in Threads \ {t}, k \in Keys : \A i \in 1..Len(preloaded[k]) :
          states[k][u] # preloaded[k][i]
    BY <1>4 DEF IInv, OnePlace
  <2>2. \A k \in Keys : \A i \in 1..Len(preloaded[k]) : states[k][t] # preloaded[k][i]
    BY <1>1 DEF IInv, OnePlace
  <2>3. \A u \in Threads \ {t} : states[k0][u] # b
    BY <1>2, <2>1 DEF b, n
  <2>4. ASSUME NEW k \in Keys
        PROVE  /\ \A i, j \in 1..Len(preloaded[k]) :
                    preloaded[k][i] = preloaded[k][j] => i = j
               /\ \A u, v \in Threads :
                    u # v /\ states'[k][u] = states'[k][v] => states'[k][u] = NoState
    BY <1>6, <2>3 DEF IInv, OnePlace
  <2>5. ASSUME NEW k \in Keys, NEW u \in Threads, NEW i \in 1..Len(preloaded[k]),
               states'[k][u] = preloaded[k][i]
        PROVE  (pc[u] = "pop" /\ Key(u) = k)' /\ i = Len(preloaded[k])
    <3>1. u = t /\ k = k0
      BY <1>6, <2>1, <2>2, <2>5
    <3>2. preloaded[k0][i] = preloaded[k0][n]
      BY <1>6, <2>5, <3>1 DEF b
    <3>3. i = n
      BY <1>2, <3>1, <3>2 DEF IInv, OnePlace, n
    <3> QED
      BY <1>6, <1>7, <3>1, <3>3 DEF k0, n
  <2> QED
    BY <1>1, <2>4, <2>5 DEF OnePlace
<1>14. Enough'
  <2>1. \A k \in Keys : Unserved(k)' = Unserved(k)
    <3> SUFFICES ASSUME NEW k \in Keys, NEW u \in Threads
                 PROVE  (states[k][u] = NoState \/ (pc[u] = "pop" /\ Key(u) = k))'
                          <=> (states[k][u] = NoState \/ (pc[u] = "pop" /\ Key(u) = k))
      BY DEF Unserved
    <3>1. CASE u = t
      BY <1>1, <1>2, <1>3, <1>6, <1>7, <3>1 DEF k0
    <3>2. CASE u # t
      BY <1>6, <1>7, <3>2
    <3> QED
      BY <3>1, <3>2
  <2> QED
    BY <1>1, <1>8, <2>1 DEF IInv, Enough
<1> QED
  BY <1>5, <1>9, <1>10, <1>12, <1>13, <1>14 DEF IInv

(* What pop_back() leaves of a vector. *)
LEMMA PopFacts ==
  ASSUME NEW S, NEW s \in Seq(S), s # <<>>
  PROVE  LET r == SubSeq(s, 1, Len(s) - 1)
         IN  /\ r \in Seq(S)
             /\ Len(r) = Len(s) - 1
             /\ \A i \in 1..(Len(s) - 1) : r[i] = s[i]
<1>1. Len(s) \in Nat \ {0}
  OBVIOUS
<1>2. \A i \in 1..(Len(s) - 1) : s[i] \in S
  OBVIOUS
<1> DEFINE m == Len(s) - 1
<1>3. 1 \in Int /\ m \in Int /\ \A i \in 1..m : s[i] \in S
  BY <1>1, <1>2
<1> HIDE DEF m
<1>4. /\ SubSeq(s, 1, m) \in Seq(S)
      /\ Len(SubSeq(s, 1, m)) = IF 1 <= m THEN m - 1 + 1 ELSE 0
      /\ \A i \in 1..(m - 1 + 1) : SubSeq(s, 1, m)[i] = s[1 + i - 1]
  BY <1>3, SubSeqProperties
<1>5. m \in Nat /\ m - 1 + 1 = m /\ \A i \in 1..m : 1 + i - 1 = i
  BY <1>1 DEF m
<1> QED
  BY <1>4, <1>5 DEF m


(* pop_back(): the vector forgets the state the thread has taken. *)
LEMMA PopBackIInv ==
  ASSUME IInv, NEW t \in Threads, PopBack(t)
  PROVE  IInv'
<1> DEFINE k0 == Key(t)
           n == Len(preloaded[k0])
           v == SubSeq(preloaded[k0], 1, n - 1)
<1>1. /\ phase = "serving" /\ pc[t] = "pop"
      /\ pc' = [pc EXCEPT ![t] = "unlock"]
      /\ preloaded' = [preloaded EXCEPT ![k0] = v]
      /\ current' = [current EXCEPT ![t] = states[k0][t]]
      /\ UNCHANGED <<phase, pending, resource, states, mutex, request>>
  BY Serving DEF PopBack, Goto
<1>2. /\ k0 \in Keys /\ preloaded[k0] # <<>> /\ preloaded[k0] \in Seq(LuaStates)
      /\ request[t] # NoEntry /\ Loaded(k0)
      /\ states[k0][t] = preloaded[k0][n]
  BY <1>1, HandlerKey DEF IInv, TypeOK, HandlerInv
<1>3. n \in Nat \ {0}
  BY <1>2
<1>4. states[k0][t] # NoState
  BY <1>2, <1>3, SentinelAssumption
<1>5. v \in Seq(LuaStates) /\ Len(v) = n - 1 /\ \A i \in 1..(n - 1) : v[i] = preloaded[k0][i]
  BY <1>2, PopFacts
<1>6. mutex = t /\ \A u \in Threads \ {t} : pc[u] \in {"idle", "lock", "run"}
  BY <1>1, AloneInside DEF InCritical
<1> HIDE DEF k0, n, v
<1>7. TypeOK'
  BY <1>1, <1>2, <1>5 DEF IInv, TypeOK
<1>8. /\ pc'[t] = "unlock" /\ current'[t] = states[k0][t]
      /\ \A u \in Threads \ {t} : pc'[u] = pc[u] /\ current'[u] = current[u]
      /\ preloaded'[k0] = v
      /\ \A k \in Keys \ {k0} : preloaded'[k] = preloaded[k]
  BY <1>1, <1>2 DEF IInv, TypeOK
<1>9. \A u \in Threads : Key(u)' = Key(u)
  BY <1>1 DEF Key
<1>10. \A k : Loaded(k)' = Loaded(k)
  BY <1>1 DEF Loaded
<1>11. MutexInv' /\ BeforeServing'
  BY <1>1, <1>6, <1>8 DEF IInv, MutexInv, InCritical, BeforeServing
<1>12. HandlerInv'
  <2>1. /\ (request[t] # NoEntry /\ Loaded(Key(t)))'
        /\ (states[Key(t)][t] # NoState)'
        /\ (current[t] = states[Key(t)][t])'
    BY <1>1, <1>2, <1>4, <1>8, <1>9, <1>10 DEF k0
  <2>2. ASSUME NEW u \in Threads \ {t}
        PROVE  /\ pc'[u] # "idle" => (request[u] # NoEntry /\ Loaded(Key(u)))'
               /\ pc'[u] = "run" => /\ (states[Key(u)][u] # NoState)'
                                    /\ (current[u] = states[Key(u)][u])'
    BY <1>1, <1>8, <1>9, <1>10 DEF IInv, HandlerInv
  <2> QED
    BY <1>6, <1>8, <2>1, <2>2 DEF HandlerInv
<1>13. ASSUME NEW k \in Keys, NEW i \in 1..Len(preloaded'[k])
       PROVE  i \in 1..Len(preloaded[k]) /\ preloaded'[k][i] = preloaded[k][i]
  <2>1. CASE k = k0
    BY <1>3, <1>5, <1>8, <2>1 DEF n
  <2>2. CASE k # k0
    BY <1>8, <2>2
  <2> QED
    BY <2>1, <2>2
<1>14. Provenance'
  <2> SUFFICES ASSUME NEW k \in Keys
               PROVE  \A i \in 1..Len(preloaded'[k]) : /\ preloaded'[k][i][1] \in Declared
                                                       /\ KeyOf(preloaded'[k][i][1]) = k
    BY <1>1 DEF IInv, Provenance
  <2> QED
    BY <1>13 DEF IInv, Provenance
<1>15. OnePlace'
  <2>1. ASSUME NEW k \in Keys
        PROVE  /\ \A i, j \in 1..Len(preloaded'[k]) :
                    preloaded'[k][i] = preloaded'[k][j] => i = j
               /\ \A u, w \in Threads :
                    u # w /\ states[k][u] = states[k][w] => states[k][u] = NoState
    BY <1>13 DEF IInv, OnePlace
  <2>2. ASSUME NEW k \in Keys, NEW u \in Threads, NEW i \in 1..Len(preloaded'[k]),
               states[k][u] = preloaded'[k][i]
        PROVE  FALSE
    <3>1. i \in 1..Len(preloaded[k]) /\ states[k][u] = preloaded[k][i]
      BY <1>13, <2>2
    <3>2. u = t /\ k = k0 /\ i = n
      BY <1>6, <3>1 DEF IInv, OnePlace, k0, n
    <3>3. i \in 1..(n - 1)
      BY <1>5, <1>8, <2>2, <3>2
    <3> QED
      BY <1>3, <3>2, <3>3
  <2> QED
    BY <1>1, <2>1, <2>2 DEF OnePlace
<1>16. Enough'
  <2>1. \A k \in Keys : k = k0 =>
          Unserved(k)' = Unserved(k) \ {t} /\ t \in Unserved(k)
    BY <1>1, <1>4, <1>8, <1>9 DEF Unserved, k0
  <2>2. \A k \in Keys \ {k0} : Unserved(k)' = Unserved(k)
    BY <1>1, <1>8, <1>9 DEF Unserved, k0
  <2> SUFFICES ASSUME NEW k \in Keys, Loaded(k)
               PROVE  Len(preloaded'[k]) = Cardinality(Unserved(k)')
    BY <1>10 DEF Enough
  <2>3. CASE k = k0
    <3>1. Cardinality(Unserved(k)') = Cardinality(Unserved(k)) - 1
      BY <2>1, <2>3, UnservedFinite, FS_RemoveElement
    <3>2. Len(preloaded[k]) = Cardinality(Unserved(k))
      BY DEF IInv, Enough
    <3> QED
      BY <1>5, <1>8, <2>3, <3>1, <3>2 DEF n
  <2>4. CASE k # k0
    BY <1>8, <2>2, <2>4 DEF IInv, Enough
  <2> QED
    BY <2>3, <2>4
<1> QED
  BY <1>7, <1>11, <1>12, <1>14, <1>15, <1>16 DEF IInv

-------------------------------------------------------------------------------
(* Stuttering. *)
LEMMA StutterIInv ==
  ASSUME IInv, UNCHANGED vars
  PROVE  IInv'
<1>1. UNCHANGED <<phase, pending, resource, preloaded, states, mutex, pc, request, current>>
  BY DEF vars, scriptVars, threadVars
<1>2. TypeOK'
  BY <1>1 DEF IInv, TypeOK
<1>3. MutexInv' /\ BeforeServing' /\ HandlerInv' /\ Provenance'
  BY <1>1 DEF IInv, MutexInv, InCritical, BeforeServing, HandlerInv, Provenance, Loaded, Key
<1>4. OnePlace' /\ Enough'
  BY <1>1 DEF IInv, OnePlace, Enough, Loaded, Unserved, Key
<1> QED
  BY <1>2, <1>3, <1>4 DEF IInv

(* Every step preserves the invariant. *)
LEMMA NextIInv ==
  ASSUME IInv, [Next]_vars
  PROVE  IInv'
<1>1. CASE Execute \/ ExecuteFails \/ StartServer
  BY <1>1, PhaseStepIInv
<1>2. ASSUME NEW e \in Entries, RegisterMethod(e) \/ SkipEntry(e) \/ PreloadFails(e)
      PROVE  IInv'
  BY <1>2, RegisterIInv, SkipIInv
<1>3. ASSUME NEW t \in Threads, NEW r \in Routes, Dispatch(t, r)
      PROVE  IInv'
  BY <1>3, DispatchIInv
<1>4. ASSUME NEW t \in Threads, GetStateForThread(t)
      PROVE  IInv'
  BY <1>4, LockMutexIInv, LookupHitIInv, LookupMissIInv, TakeBackIInv, PopBackIInv,
     UnlockMutexIInv DEF GetStateForThread
<1>5. ASSUME NEW t \in Threads, Finish(t)
      PROVE  IInv'
  BY <1>5, FinishIInv
<1>6. CASE UNCHANGED vars
  BY <1>6, StutterIInv
<1> QED
  BY <1>1, <1>2, <1>3, <1>4, <1>5, <1>6 DEF Next, NoHandlerLeft

(* The state pool always satisfies the inductive invariant. *)
THEOREM InductiveInvariant == Spec => []IInv
  BY InitIInv, NextIInv, PTL DEF Spec

(* Every variable of the state pool keeps its type. *)
THEOREM TypeCorrect == Spec => []TypeOK
<1>1. IInv => TypeOK
  BY DEF IInv
<1> QED
  BY <1>1, InductiveInvariant, PTL

(* preloadedScripts[key].back() is never called on an empty vector, however *)
(* many threads and entries there are.                                      *)
THEOREM VectorNeverDry == Spec => []NeverDry
<1>1. IInv => NeverDry
  BY VectorNotEmpty DEF NeverDry
<1> QED
  BY <1>1, InductiveInvariant, PTL

(* A Lua state determines the key it was preloaded for, and under that key *)
(* one thread at most has it.                                              *)
LEMMA OneOwner ==
  ASSUME IInv, NEW k \in Keys, NEW l \in Keys, NEW t \in Threads, NEW u \in Threads,
         states[k][t] # NoState, states[k][t] = states[l][u]
  PROVE  k = l /\ t = u
<1>1. k = l
  BY DEF IInv, Provenance
<1> QED
  BY <1>1 DEF IInv, OnePlace

(* Two handlers never run in the same Lua state at the same time. *)
THEOREM StatesExclusive == Spec => []Exclusive
<1>1. IInv => Exclusive
  <2> SUFFICES ASSUME IInv, NEW t \in Threads, NEW u \in Threads,
                      t # u, pc[t] = "run", pc[u] = "run"
               PROVE  current[t] # current[u]
    BY DEF Exclusive
  <2>1. Key(t) \in Keys /\ Key(u) \in Keys
    BY HandlerKey DEF IInv
  <2>2. /\ current[t] = states[Key(t)][t] /\ current[t] # NoState
        /\ current[u] = states[Key(u)][u]
    BY DEF IInv, HandlerInv
  <2> QED
    BY <2>1, <2>2, OneOwner
<1> QED
  BY <1>1, InductiveInvariant, PTL

(* A thread that has a state for a key keeps that state for ever. *)
THEOREM ThreadsKeepStates == Spec => StatesStick
<1> DEFINE Stick == \A k \in Keys, t \in Threads :
                      states[k][t] # NoState => states'[k][t] = states[k][t]
<1>1. ASSUME IInv, [Next]_vars
      PROVE  Stick
  <2>1. ASSUME NEW t \in Threads, TakeBack(t)
        PROVE  Stick
    <3>1. /\ Key(t) \in Keys /\ states[Key(t)][t] = NoState
          /\ states' = [states EXCEPT ![Key(t)][t] =
                           preloaded[Key(t)][Len(preloaded[Key(t)])]]
      BY <1>1, <2>1, VectorNotEmpty DEF TakeBack, IInv, HandlerInv
    <3> QED
      BY <1>1, <3>1 DEF IInv, TypeOK
  <2>2. CASE UNCHANGED states
    BY <2>2
  <2>3. UNCHANGED states \/ \E t \in Threads : TakeBack(t)
    BY <1>1 DEF Next, GetStateForThread, Execute, ExecuteFails, StartServer, NoHandlerLeft,
       RegisterMethod, SkipEntry, PreloadFails, Dispatch, LockMutex, LookupHit, LookupMiss,
       PopBack, UnlockMutex, Finish, vars, scriptVars
  <2> QED
    BY <2>1, <2>2, <2>3
<1>2. [](IInv) /\ [][Next]_vars => [][Stick]_vars
  BY <1>1, PTL
<1> QED
  BY <1>2, InductiveInvariant, PTL DEF Spec, StatesStick

(* When the keys of two entries differ unless they name the same folder, a *)
(* handler runs in a state its own script file was loaded into.  The       *)
(* service map of MCScriptStates_colliding.cfg shows the assumption is     *)
(* needed.                                                                 *)
THEOREM RunsOwnScript ==
  ASSUME \A e, f \in Declared : KeyOf(e) = KeyOf(f) => e.script = f.script
  PROVE  Spec => []OwnScript
<1>1. IInv => OwnScript
  <2> SUFFICES ASSUME IInv, NEW t \in Threads, pc[t] = "run"
               PROVE  ScriptFile(current[t][1]) = ScriptFile(request[t])
    BY DEF OwnScript
  <2>1. request[t] \in Declared /\ Key(t) \in Keys
    BY HandlerKey DEF IInv
  <2>2. current[t] = states[Key(t)][t] /\ current[t] # NoState
    BY DEF IInv, HandlerInv
  <2>3. current[t][1] \in Declared /\ KeyOf(current[t][1]) = KeyOf(request[t])
    BY <2>1, <2>2 DEF IInv, Provenance, Key
  <2>4. MethodString(current[t][1].name) = MethodString(request[t].name)
    BY <2>3 DEF KeyOf
  <2>5. current[t][1].script = request[t].script
    BY <2>1, <2>3
  <2> QED
    BY <2>4, <2>5 DEF ScriptFile
<1> QED
  BY <1>1, InductiveInvariant, PTL

-------------------------------------------------------------------------------
(* The refinement: every step of the pool is a step of PrivateStates or    *)
(* leaves its variables unchanged.                                         *)
LEMMA InitPrivate == Init => PS!Init
<1> SUFFICES ASSUME Init PROVE PS!Init
  OBVIOUS
<1>1. ownsBar = {}
  BY SentinelAssumption DEF Init, ownsBar
<1>2. busyBar = [t \in Threads |-> {}]
  BY DEF Init, busyBar
<1> QED
  BY <1>1, <1>2 DEF PS!Init

(* A step that neither changes the map nor starts or ends a handler. *)
LEMMA PrivateStutter ==
  ASSUME UNCHANGED states,
         \A t \in Threads : \/ pc[t] # "run" /\ pc'[t] # "run"
                            \/ pc'[t] = pc[t] /\ current'[t] = current[t]
  PROVE  UNCHANGED PS!vars
<1>1. ownsBar' = ownsBar
  BY DEF ownsBar
<1>2. busyBar' = busyBar
  BY DEF busyBar
<1> QED
  BY <1>1, <1>2 DEF PS!vars

(* back() claims a state that belongs to no thread. *)
LEMMA TakeBackClaims ==
  ASSUME IInv, NEW t \in Threads, TakeBack(t)
  PROVE  PS!Next
<1> DEFINE k0 == Key(t)
           n == Len(preloaded[k0])
           b == preloaded[k0][n]
<1>1. /\ pc[t] = "take" /\ pc' = [pc EXCEPT ![t] = "pop"]
      /\ states' = [states EXCEPT ![k0][t] = b]
      /\ UNCHANGED <<preloaded, request, current>>
  BY DEF TakeBack, Goto
<1>2. /\ k0 \in Keys /\ n \in Nat \ {0} /\ preloaded[k0] # <<>>
      /\ states[k0][t] = NoState
  BY <1>1, VectorNotEmpty DEF IInv, HandlerInv
<1>3. b \in LuaStates /\ b # NoState /\ KeyOf(b[1]) = k0
  BY <1>2, SentinelAssumption DEF IInv, TypeOK, Provenance
<1>4. \A u \in Threads : pc[u] # "pop"
  BY <1>1, AloneInside DEF InCritical
<1> HIDE DEF k0, n, b
<1>5. \A k \in Keys, u \in Threads : states[k][u] # b
  <2> SUFFICES ASSUME NEW k \in Keys, NEW u \in Threads, states[k][u] = b
               PROVE  FALSE
    OBVIOUS
  <2>1. k = k0
    BY <1>3 DEF IInv, Provenance
  <2>2. n \in 1..Len(preloaded[k0]) /\ b = preloaded[k0][n]
    BY <1>2 DEF b, n
  <2> QED
    BY <1>2, <1>4, <2>1, <2>2 DEF IInv, OnePlace
<1>6. \A k \in Keys, u \in Threads :
        states'[k][u] = IF k = k0 /\ u = t THEN b ELSE states[k][u]
  BY <1>1, <1>2 DEF IInv, TypeOK
<1>7. ownsBar' = ownsBar \cup {<<b, t>>}
  <2>1. ASSUME NEW l \in LuaStates, NEW u \in Threads
        PROVE  (\E k \in Keys : states'[k][u] = l) <=>
                 (\E k \in Keys : states[k][u] = l) \/ (l = b /\ u = t)
    BY <1>2, <1>6, SentinelAssumption
  <2> QED
    BY <1>3, <2>1 DEF ownsBar
<1>8. \A u \in Threads : <<b, u>> \notin ownsBar
  BY <1>5 DEF ownsBar
<1>9. busyBar' = busyBar
  BY <1>1 DEF busyBar, IInv, TypeOK
<1>10. PS!Claim(t, b)
  BY <1>7, <1>8, <1>9 DEF PS!Claim
<1> QED
  BY <1>3, <1>10 DEF PS!Next

(* Leaving getStateForThread, the thread enters the state it owns. *)
LEMMA UnlockEnters ==
  ASSUME IInv, NEW t \in Threads, UnlockMutex(t)
  PROVE  PS!Next
<1>1. /\ pc[t] = "unlock" /\ pc' = [pc EXCEPT ![t] = "run"]
      /\ UNCHANGED <<states, current>>
  BY DEF UnlockMutex, Goto, scriptVars
<1>2. Key(t) \in Keys /\ current[t] = states[Key(t)][t] /\ current[t] # NoState
  BY <1>1, HandlerKey DEF IInv, HandlerInv
<1>3. current[t] \in LuaStates
  BY <1>2 DEF IInv, TypeOK
<1>4. <<current[t], t>> \in ownsBar
  BY <1>2, <1>3 DEF ownsBar
<1>5. busyBar[t] = {} /\ busyBar' = [busyBar EXCEPT ![t] = {current[t]}]
  BY <1>1 DEF busyBar, IInv, TypeOK
<1>6. ownsBar' = ownsBar
  BY <1>1 DEF ownsBar
<1>7. PS!Enter(t, current[t])
  BY <1>4, <1>5, <1>6 DEF PS!Enter
<1> QED
  BY <1>3, <1>7 DEF PS!Next

(* A handler that returns leaves its state. *)
LEMMA FinishLeaves ==
  ASSUME IInv, NEW t \in Threads, Finish(t)
  PROVE  PS!Next
<1>1. /\ pc[t] = "run" /\ pc' = [pc EXCEPT ![t] = "idle"]
      /\ current' = [current EXCEPT ![t] = NoState]
      /\ UNCHANGED states
  BY DEF Finish, Goto, scriptVars
<1>2. busyBar[t] # {} /\ busyBar' = [busyBar EXCEPT ![t] = {}]
  BY <1>1 DEF busyBar, IInv, TypeOK
<1>3. ownsBar' = ownsBar
  BY <1>1 DEF ownsBar
<1>4. PS!Leave(t)
  BY <1>2, <1>3 DEF PS!Leave
<1> QED
  BY <1>4 DEF PS!Next

(* The pool of Lua states implements private states. *)
THEOREM ImplementsPrivateStates == Spec => PSSpec
<1>1. ASSUME IInv, [Next]_vars
      PROVE  [PS!Next]_(PS!vars)
  <2>1. ASSUME NEW t \in Threads, TakeBack(t) \/ UnlockMutex(t) \/ Finish(t)
        PROVE  PS!Next
    BY <1>1, <2>1, TakeBackClaims, UnlockEnters, FinishLeaves
  <2>2. ASSUME UNCHANGED <<states, pc, current>>
        PROVE  UNCHANGED PS!vars
    BY <2>2, PrivateStutter
  <2>3. ASSUME NEW t \in Threads, NEW r \in Routes, Dispatch(t, r)
        PROVE  UNCHANGED PS!vars
    <3>1. \A u \in Threads : \/ pc[u] # "run" /\ pc'[u] # "run"
                             \/ pc'[u] = pc[u] /\ current'[u] = current[u]
      BY <1>1, <2>3 DEF Dispatch, Goto, IInv, TypeOK
    <3>2. UNCHANGED states
      BY <2>3 DEF Dispatch, scriptVars
    <3> QED
      BY <3>1, <3>2, PrivateStutter
  <2>4. ASSUME NEW t \in Threads, LockMutex(t) \/ LookupMiss(t)
        PROVE  UNCHANGED PS!vars
    <3>1. \A u \in Threads : \/ pc[u] # "run" /\ pc'[u] # "run"
                             \/ pc'[u] = pc[u] /\ current'[u] = current[u]
      BY <1>1, <2>4 DEF LockMutex, LookupMiss, Goto, IInv, TypeOK
    <3>2. UNCHANGED states
      BY <2>4 DEF LockMutex, LookupMiss, scriptVars
    <3> QED
      BY <3>1, <3>2, PrivateStutter
  <2>5. ASSUME NEW t \in Threads, LookupHit(t) \/ PopBack(t)
        PROVE  UNCHANGED PS!vars
    <3>1. \A u \in Threads : \/ pc[u] # "run" /\ pc'[u] # "run"
                             \/ pc'[u] = pc[u] /\ current'[u] = current[u]
      <4>1. /\ pc[t] # "run" /\ pc' = [pc EXCEPT ![t] = "unlock"]
            /\ current' = [current EXCEPT ![t] = states[Key(t)][t]]
        BY <2>5 DEF LookupHit, PopBack, Goto
      <4>2. pc'[t] # "run" /\ \A u \in Threads \ {t} : pc'[u] = pc[u] /\ current'[u] = current[u]
        BY <1>1, <4>1 DEF IInv, TypeOK
      <4> QED
        BY <4>1, <4>2
    <3>2. UNCHANGED states
      BY <2>5 DEF LookupHit, PopBack, scriptVars
    <3> QED
      BY <3>1, <3>2, PrivateStutter
  <2>6. ASSUME \/ Execute \/ ExecuteFails \/ StartServer
               \/ \E e \in Entries : RegisterMethod(e) \/ SkipEntry(e) \/ PreloadFails(e)
        PROVE  UNCHANGED <<states, pc, current>>
    BY <2>6 DEF Execute, ExecuteFails, StartServer, RegisterMethod, SkipEntry, PreloadFails,
       scriptVars, threadVars
  <2>7. CASE UNCHANGED vars
    BY <2>2, <2>7 DEF vars, scriptVars, threadVars
  <2> QED
    BY <1>1, <2>1, <2>2, <2>3, <2>4, <2>5, <2>6, <2>7 DEF Next, NoHandlerLeft, GetStateForThread
<1> QED
  BY <1>1, InitPrivate, InductiveInvariant, PTL DEF Spec, PSSpec, PS!Spec

===============================================================================
