--------------------------- MODULE MongoPoolsProofs ---------------------------
(***************************************************************************)
(* Proofs about MongoPools, for any threads and connection strings and any *)
(* finite number of handles: reference counts are exact, and a pool is     *)
(* never destroyed under a handle that refers to it.                       *)
(***************************************************************************)
EXTENDS MongoPools, FiniteSetTheorems, TLAPS

(* A thread that is not idle works on a handle of its own, for some URI. *)
LEMMA PtrFacts ==
  ASSUME IInv, NEW t \in Threads, pc[t] # "idle"
  PROVE  /\ ptr[t] \in Handles
         /\ handles[ptr[t]].owner = t
         /\ handles[ptr[t]].is \in {"new", "held"}
         /\ Uri(t) \in Uris
<1>1. ptr[t] \in Handles /\ handles[ptr[t]].owner = t
  BY DEF IInv, TypeOK, PtrInv
<1>2. handles[ptr[t]].is \in {"new", "held"}
  BY <1>1 DEF IInv, TypeOK, PtrInv
<1> QED
  BY <1>1, <1>2 DEF IInv, HandleInv, Uri

(* Two threads never work on the same handle. *)
LEMMA PtrUnique ==
  ASSUME IInv, NEW t \in Threads, NEW u \in Threads, pc[t] # "idle", ptr[u] = ptr[t]
  PROVE  u = t
<1>1. ptr[t] # None
  BY PtrFacts, FiniteAssumption
<1>2. pc[u] # "idle"
  BY <1>1 DEF IInv, PtrInv
<1> QED
  BY <1>2, PtrFacts

(* The handles that refer to a URI are finitely many. *)
LEMMA ReferringFinite ==
  ASSUME NEW u
  PROVE  IsFiniteSet(Referring(u))
  BY FiniteAssumption, FS_Subset DEF Referring

(* The places where the handle a thread works on holds no reference. *)
Uncounted == {"get", "find", "create", "dropped", "forget"}

(* A step that moves no thread into or out of those places, and leaves the *)
(* handles alone, leaves the references alone.                             *)
LEMMA RefersFrame ==
  ASSUME IInv, UNCHANGED <<handles, ptr>>,
         \A t \in Threads : pc[t] \in Uncounted <=> pc'[t] \in Uncounted
  PROVE  \A u : Referring(u)' = Referring(u)
<1>1. \A h \in Handles : Refers(h)' <=> Refers(h)
  BY DEF Refers, IInv, HandleInv, Uncounted
<1> QED
  BY <1>1 DEF Referring

(* What a step does to the references: nothing, or it counts one handle. *)
ReferencesKept == \A u \in Uris : Referring(u)' = Referring(u)

CountedIn(g, v) ==
  /\ \A u \in Uris : g \notin Referring(u)
  /\ Referring(v)' = Referring(v) \cup {g}
  /\ \A u \in Uris \ {v} : Referring(u)' = Referring(u)

CountedOff(g, v) ==
  /\ g \in Referring(v)
  /\ Referring(v)' = Referring(v) \ {g}
  /\ \A u \in Uris \ {v} : Referring(u)' = Referring(u)

(* The initial states satisfy the invariant. *)
LEMMA InitIInv == Init => IInv
<1> SUFFICES ASSUME Init PROVE IInv
  OBVIOUS
<1> USE DEF Init, Free
<1>1. TypeOK
  BY DEF TypeOK
<1>2. MutexInv /\ PtrInv
  BY FiniteAssumption DEF MutexInv, PtrInv
<1>3. HandleInv
  BY DEF HandleInv
<1>4. OnePool /\ CountIsHandles
  BY DEF OnePool, CountIsHandles
<1> QED
  BY <1>1, <1>2, <1>3, <1>4 DEF IInv

(* A step that changes nothing, but perhaps ends in undefined behaviour. *)
LEMMA StutterIInv ==
  ASSUME IInv, phase' \in {phase, "undefined"}, UNCHANGED <<managerVars, threadVars>>
  PROVE  IInv' /\ ReferencesKept
<1>1. UNCHANGED <<mutex, pools, created, alive, handles, pc, ptr, data>>
  BY DEF managerVars, threadVars
<1>2. TypeOK'
  BY <1>1 DEF IInv, TypeOK
<1>3. MutexInv' /\ PtrInv' /\ HandleInv' /\ OnePool'
  BY <1>1 DEF IInv, MutexInv, PtrInv, HandleInv, OnePool, Uri
<1>4. ReferencesKept
  BY <1>1, RefersFrame DEF ReferencesKept
<1>5. CountIsHandles'
  BY <1>1, <1>4 DEF IInv, CountIsHandles, ReferencesKept
<1> QED
  BY <1>2, <1>3, <1>4, <1>5 DEF IInv

-------------------------------------------------------------------------------
(* Steps that only move a thread from one place to the next. *)

(* Entering getPoolForUri. *)
LEMMA LockGetIInv ==
  ASSUME IInv, NEW t \in Threads, LockGet(t)
  PROVE  IInv' /\ ReferencesKept
<1>1. /\ phase = "running" /\ pc[t] = "get"
      /\ pc' = [pc EXCEPT ![t] = "find"]
      /\ mutex = None /\ mutex' = t
      /\ UNCHANGED <<phase, pools, created, alive, handles, ptr, data>>
  BY DEF LockGet, Lock, At, Goto
<1>2. TypeOK'
  BY <1>1 DEF IInv, TypeOK
<1>3. \A u \in Threads \ {t} : pc'[u] = pc[u]
  BY <1>1 DEF IInv, TypeOK
<1>4. MutexInv'
  BY <1>1, <1>3, FiniteAssumption DEF IInv, MutexInv, TypeOK
<1>5. PtrInv'
  BY <1>1, <1>3 DEF IInv, PtrInv, TypeOK, Uri
<1>6. HandleInv' /\ OnePool'
  BY <1>1 DEF IInv, HandleInv, OnePool
<1>7. ReferencesKept
  BY <1>1, <1>3, RefersFrame DEF Uncounted, IInv, TypeOK, ReferencesKept
<1>8. CountIsHandles'
  BY <1>1, <1>7 DEF IInv, CountIsHandles, ReferencesKept
<1> QED
  BY <1>2, <1>4, <1>5, <1>6, <1>7, <1>8 DEF IInv

(* Entering releasePool. *)
LEMMA LockReleaseIInv ==
  ASSUME IInv, NEW t \in Threads, LockRelease(t)
  PROVE  IInv' /\ ReferencesKept
<1>1. /\ phase = "running" /\ pc[t] = "release"
      /\ pc' = [pc EXCEPT ![t] = "drop"]
      /\ mutex = None /\ mutex' = t
      /\ UNCHANGED <<phase, pools, created, alive, handles, ptr, data>>
  BY DEF LockRelease, Lock, At, Goto
<1>2. TypeOK'
  BY <1>1 DEF IInv, TypeOK
<1>3. \A u \in Threads \ {t} : pc'[u] = pc[u]
  BY <1>1 DEF IInv, TypeOK
<1>4. MutexInv'
  BY <1>1, <1>3, FiniteAssumption DEF IInv, MutexInv, TypeOK
<1>5. PtrInv'
  BY <1>1, <1>3 DEF IInv, PtrInv, TypeOK, Uri
<1>6. HandleInv' /\ OnePool'
  BY <1>1 DEF IInv, HandleInv, OnePool
<1>7. ReferencesKept
  BY <1>1, <1>3, RefersFrame DEF Uncounted, IInv, TypeOK, ReferencesKept
<1>8. CountIsHandles'
  BY <1>1, <1>7 DEF IInv, CountIsHandles, ReferencesKept
<1> QED
  BY <1>2, <1>4, <1>5, <1>6, <1>7, <1>8 DEF IInv

(* Leaving getPoolForUri. *)
LEMMA UnlockGetIInv ==
  ASSUME IInv, NEW t \in Threads, UnlockGet(t)
  PROVE  IInv' /\ ReferencesKept
<1>1. /\ phase = "running" /\ pc[t] = "found"
      /\ pc' = [pc EXCEPT ![t] = "store"]
      /\ mutex' = None
      /\ UNCHANGED <<phase, pools, created, alive, handles, ptr, data>>
  BY DEF UnlockGet, Unlock, At, Goto
<1>2. TypeOK'
  BY <1>1 DEF IInv, TypeOK
<1>3. \A u \in Threads \ {t} : pc'[u] = pc[u]
  BY <1>1 DEF IInv, TypeOK
<1>4. MutexInv'
  BY <1>1, <1>3, FiniteAssumption DEF IInv, MutexInv, TypeOK
<1>5. PtrInv'
  BY <1>1, <1>3 DEF IInv, PtrInv, TypeOK, Uri
<1>6. HandleInv' /\ OnePool'
  BY <1>1 DEF IInv, HandleInv, OnePool
<1>7. ReferencesKept
  BY <1>1, <1>3, RefersFrame DEF Uncounted, IInv, TypeOK, ReferencesKept
<1>8. CountIsHandles'
  BY <1>1, <1>7 DEF IInv, CountIsHandles, ReferencesKept
<1> QED
  BY <1>2, <1>4, <1>5, <1>6, <1>7, <1>8 DEF IInv

(* Leaving releasePool. *)
LEMMA UnlockReleaseIInv ==
  ASSUME IInv, NEW t \in Threads, UnlockRelease(t)
  PROVE  IInv' /\ ReferencesKept
<1>1. /\ phase = "running" /\ pc[t] = "dropped"
      /\ pc' = [pc EXCEPT ![t] = "forget"]
      /\ mutex' = None
      /\ UNCHANGED <<phase, pools, created, alive, handles, ptr, data>>
  BY DEF UnlockRelease, Unlock, At, Goto
<1>2. TypeOK'
  BY <1>1 DEF IInv, TypeOK
<1>3. \A u \in Threads \ {t} : pc'[u] = pc[u]
  BY <1>1 DEF IInv, TypeOK
<1>4. MutexInv'
  BY <1>1, <1>3, FiniteAssumption DEF IInv, MutexInv, TypeOK
<1>5. PtrInv'
  BY <1>1, <1>3 DEF IInv, PtrInv, TypeOK, Uri
<1>6. HandleInv' /\ OnePool'
  BY <1>1 DEF IInv, HandleInv, OnePool
<1>7. ReferencesKept
  BY <1>1, <1>3, RefersFrame DEF Uncounted, IInv, TypeOK, ReferencesKept
<1>8. CountIsHandles'
  BY <1>1, <1>7 DEF IInv, CountIsHandles, ReferencesKept
<1> QED
  BY <1>2, <1>4, <1>5, <1>6, <1>7, <1>8 DEF IInv

(* The map has no entry for the URI, and this thread has the mutex. *)
LEMMA FindMissIInv ==
  ASSUME IInv, NEW t \in Threads, FindMiss(t)
  PROVE  IInv' /\ ReferencesKept
<1>1. /\ phase = "running" /\ pc[t] = "find"
      /\ pc' = [pc EXCEPT ![t] = "create"]
      /\ mutex' = mutex /\ pools[Uri(t)] = None
      /\ UNCHANGED <<phase, pools, created, alive, handles, ptr, data>>
  BY DEF FindMiss, managerVars, At, Goto
<1>2. TypeOK'
  BY <1>1 DEF IInv, TypeOK
<1>3. \A u \in Threads \ {t} : pc'[u] = pc[u]
  BY <1>1 DEF IInv, TypeOK
<1>4. MutexInv'
  BY <1>1, <1>3, FiniteAssumption DEF IInv, MutexInv, TypeOK
<1>5. PtrInv'
  BY <1>1, <1>3 DEF IInv, PtrInv, TypeOK, Uri
<1>6. HandleInv' /\ OnePool'
  BY <1>1 DEF IInv, HandleInv, OnePool
<1>7. ReferencesKept
  BY <1>1, <1>3, RefersFrame DEF Uncounted, IInv, TypeOK, ReferencesKept
<1>8. CountIsHandles'
  BY <1>1, <1>7 DEF IInv, CountIsHandles, ReferencesKept
<1> QED
  BY <1>2, <1>4, <1>5, <1>6, <1>7, <1>8 DEF IInv

-------------------------------------------------------------------------------
(* Steps that change a handle or a reference count. *)

(* A step of thread t that works on handle g changes no other reference. *)
LEMMA OtherReferences ==
  ASSUME IInv, NEW t \in Threads, NEW g \in Handles,
         \A h \in Handles \ {g} : handles'[h] = handles[h],
         \A u \in Threads \ {t} : pc'[u] = pc[u] /\ ptr'[u] = ptr[u],
         ptr[t] \in {None, g}, ptr'[t] \in {None, g}
  PROVE  \A h \in Handles \ {g} : Refers(h)' <=> Refers(h)
<1> SUFFICES ASSUME NEW h \in Handles \ {g}
             PROVE  Refers(h)' <=> Refers(h)
  OBVIOUS
<1>1. ptr[t] # h /\ ptr'[t] # h
  BY FiniteAssumption
<1>2. handles[h].is \in {"new", "held"} => handles[h].owner \in Threads
  BY DEF IInv, HandleInv
<1> QED
  BY <1>1, <1>2 DEF Refers

(* A new userdata refers to nothing yet. *)
LEMMA NewPoolIInv ==
  ASSUME IInv, NEW t \in Threads, NEW g \in Handles, NEW v \in Uris, NewPool(t, g, v)
  PROVE  IInv' /\ ReferencesKept
<1> DEFINE new == [is |-> "new", owner |-> t, uri |-> v, pool |-> None]
<1>1. /\ phase = "running" /\ pc[t] = "idle" /\ handles[g].is = "free"
      /\ handles' = [handles EXCEPT ![g] = new]
      /\ ptr' = [ptr EXCEPT ![t] = g]
      /\ pc' = [pc EXCEPT ![t] = "get"]
      /\ UNCHANGED <<phase, mutex, pools, created, alive, data>>
  BY DEF NewPool, At, Goto, managerVars
<1>2. TypeOK'
  BY <1>1 DEF IInv, TypeOK
<1>3. /\ handles'[g] = new /\ ptr'[t] = g /\ pc'[t] = "get"
      /\ \A h \in Handles \ {g} : handles'[h] = handles[h]
      /\ \A u \in Threads \ {t} : pc'[u] = pc[u] /\ ptr'[u] = ptr[u]
  BY <1>1 DEF IInv, TypeOK
<1>4. ptr[t] = None /\ \A u \in Threads : pc[u] # "idle" => ptr[u] \in Handles /\ ptr[u] # g
  BY <1>1, PtrFacts DEF IInv, PtrInv
<1>5. MutexInv'
  BY <1>1, <1>3 DEF IInv, MutexInv
<1>6. PtrInv'
  <2>1. data[t] = None
    BY <1>1 DEF IInv, PtrInv
  <2> QED
    BY <1>1, <1>3, <1>4, <2>1, FiniteAssumption DEF IInv, PtrInv, Uri
<1>7. HandleInv'
  <2>1. ASSUME NEW h \in Handles \ {g}, handles[h].is = "new"
        PROVE  ptr'[handles[h].owner] = h
    BY <1>3, <1>4, <2>1, FiniteAssumption DEF IInv, HandleInv
  <2> QED
    BY <1>1, <1>3, <2>1 DEF IInv, HandleInv
<1>8. OnePool'
  BY <1>1 DEF IInv, OnePool
<1>9. ReferencesKept
  <2>1. \A h \in Handles \ {g} : Refers(h)' <=> Refers(h)
    BY <1>3, <1>4, OtherReferences
  <2>2. ~Refers(g) /\ ~Refers(g)'
    BY <1>1, <1>3 DEF Refers
  <2> QED
    BY <1>3, <2>1, <2>2 DEF Referring, ReferencesKept
<1>10. CountIsHandles'
  BY <1>1, <1>9 DEF IInv, CountIsHandles, ReferencesKept
<1> QED
  BY <1>2, <1>5, <1>6, <1>7, <1>8, <1>9, <1>10 DEF IInv

(* A userdata without fields refers to nothing either. *)
LEMMA NewPoolRaisesIInv ==
  ASSUME IInv, NEW t \in Threads, NEW g \in Handles, NewPoolRaises(t, g)
  PROVE  IInv' /\ ReferencesKept
<1> DEFINE raw == [is |-> "raw", owner |-> t, uri |-> None, pool |-> None]
<1>1. /\ phase = "running" /\ pc[t] = "idle" /\ handles[g].is = "free"
      /\ handles' = [handles EXCEPT ![g] = raw]
      /\ UNCHANGED <<phase, mutex, pools, created, alive, pc, ptr, data>>
  BY DEF NewPoolRaises, At, managerVars
<1>2. TypeOK'
  BY <1>1 DEF IInv, TypeOK
<1>3. handles'[g] = raw /\ \A h \in Handles \ {g} : handles'[h] = handles[h]
  BY <1>1 DEF IInv, TypeOK
<1>4. \A u \in Threads : pc[u] # "idle" => ptr[u] \in Handles /\ ptr[u] # g
  BY <1>1, PtrFacts
<1>5. MutexInv' /\ OnePool'
  BY <1>1 DEF IInv, MutexInv, OnePool
<1>6. PtrInv'
  BY <1>1, <1>3, <1>4 DEF IInv, PtrInv, Uri
<1>7. HandleInv'
  BY <1>1, <1>3 DEF IInv, HandleInv
<1>8. ReferencesKept
  <2>1. ptr[t] = None
    BY <1>1 DEF IInv, PtrInv
  <2>2. \A h \in Handles \ {g} : Refers(h)' <=> Refers(h)
    BY <1>1, <1>3, <2>1, OtherReferences
  <2>3. ~Refers(g) /\ ~Refers(g)'
    BY <1>1, <1>3 DEF Refers
  <2> QED
    BY <1>3, <2>2, <2>3 DEF Referring, ReferencesKept
<1>9. CountIsHandles'
  BY <1>1, <1>8 DEF IInv, CountIsHandles, ReferencesKept
<1> QED
  BY <1>2, <1>5, <1>6, <1>7, <1>8, <1>9 DEF IInv

(* Counting a handle that found the entry. *)
LEMMA FindHitIInv ==
  ASSUME IInv, NEW t \in Threads, NEW g \in Handles, NEW v \in Uris,
         ptr[t] = g, Uri(t) = v, FindHit(t)
  PROVE  IInv' /\ CountedIn(g, v)
<1>1. /\ phase = "running" /\ pc[t] = "find" /\ pools[v] # None
      /\ pools' = [pools EXCEPT ![v].numRef = @ + 1]
      /\ data' = [data EXCEPT ![t] = pools[v].pool]
      /\ pc' = [pc EXCEPT ![t] = "found"]
      /\ UNCHANGED <<phase, mutex, created, alive, handles, ptr>>
  BY DEF FindHit, At, Goto
<1>2. handles[g].owner = t /\ handles[g].uri = v /\ handles[g].is = "new" /\ mutex = t
  BY <1>1, PtrFacts DEF Uri, IInv, PtrInv, MutexInv
<1>3. pools[v] \in [numRef : Nat, pool : Pools]
  BY <1>1, <1>2 DEF IInv, TypeOK
<1>4. TypeOK'
  BY <1>1, <1>2, <1>3 DEF IInv, TypeOK
<1>5. /\ \A u \in Threads \ {t} : pc'[u] = pc[u] /\ data'[u] = data[u]
      /\ pc'[t] = "found" /\ data'[t] = pools[v].pool
      /\ pools'[v].numRef = pools[v].numRef + 1
      /\ \A w \in Uris \ {v} : pools'[w] = pools[w]
      /\ \A w \in Uris : pools'[w] = None <=> pools[w] = None
      /\ \A w \in Uris : pools[w] # None => pools'[w].pool = pools[w].pool
  BY <1>1, <1>2, <1>3, NoneAssumption DEF IInv, TypeOK
<1>6. MutexInv'
  BY <1>1, <1>2, <1>5 DEF IInv, MutexInv
<1>7. PtrInv'
  <2>1. \A u \in Threads : pc[u] # "idle" => Uri(u) \in Uris
    BY PtrFacts
  <2>2. \A u \in Threads : Uri(u)' = Uri(u)
    BY <1>1 DEF Uri
  <2> QED
    BY <1>1, <1>2, <1>5, <2>1, <2>2 DEF IInv, PtrInv
<1>8. HandleInv'
  BY <1>1, <1>5 DEF IInv, HandleInv
<1>9. OnePool'
  BY <1>1, <1>5 DEF IInv, OnePool
<1>10. CountedIn(g, v)
  <2>1. \A h \in Handles \ {g} : Refers(h)' <=> Refers(h)
    BY <1>1, <1>2, <1>5, OtherReferences
  <2>2. ~Refers(g) /\ Refers(g)'
    BY <1>1, <1>2, <1>5 DEF Refers
  <2> QED
    BY <1>1, <1>2, <2>1, <2>2 DEF Referring, CountedIn
<1>11. CountIsHandles'
  <2> SUFFICES ASSUME NEW w \in Uris, pools'[w] # None
               PROVE  pools'[w].numRef = Cardinality(Referring(w)')
    BY DEF CountIsHandles
  <2>1. pools[w].numRef = Cardinality(Referring(w))
    BY <1>5 DEF IInv, CountIsHandles
  <2>2. CASE w = v
    <3>1. Cardinality(Referring(w)') = Cardinality(Referring(w)) + 1
      BY <1>10, <2>2, ReferringFinite, FS_AddElement DEF CountedIn
    <3> QED
      BY <1>5, <2>1, <2>2, <3>1
  <2>3. CASE w # v
    BY <1>5, <1>10, <2>1, <2>3 DEF CountedIn
  <2> QED
    BY <2>2, <2>3
<1> QED
  BY <1>4, <1>6, <1>7, <1>8, <1>9, <1>10, <1>11 DEF IInv


(* Nothing refers to a URI that has no entry. *)
LEMMA NoEntryNoReference ==
  ASSUME IInv, NEW v \in Uris, pools[v] = None
  PROVE  Referring(v) = {}
<1> SUFFICES ASSUME NEW h \in Handles, handles[h].uri = v, Refers(h)
             PROVE  FALSE
  BY DEF Referring
<1>1. handles[h].is # "held"
  BY DEF IInv, HandleInv
<1>2. handles[h].is = "new" /\ handles[h].owner \in Threads /\ ptr[handles[h].owner] = h
  BY <1>1 DEF Refers, IInv, HandleInv
<1>3. pc[handles[h].owner] \in {"found", "store"}
  BY <1>2, FiniteAssumption DEF Refers, IInv, TypeOK, PtrInv
<1> QED
  BY <1>2, <1>3 DEF IInv, PtrInv, Uri

(* The first handle of a URI creates its pool and counts itself. *)
LEMMA CreateIInv ==
  ASSUME IInv, NEW t \in Threads, NEW g \in Handles, NEW v \in Uris,
         ptr[t] = g, Uri(t) = v, Create(t)
  PROVE  IInv' /\ CountedIn(g, v)
<1> DEFINE new == <<v, 0>>
<1>1. /\ phase = "running" /\ pc[t] = "create" /\ pools[v] = None
      /\ pc' = [pc EXCEPT ![t] = "found"]
      /\ UNCHANGED <<phase, mutex, handles, ptr>>
  BY DEF Create, At, Goto, IInv, PtrInv
<1>2. created[v] = 0
  BY <1>1 DEF IInv, OnePool
<1>3. /\ created' = [created EXCEPT ![v] = 1]
      /\ alive' = alive \cup {new}
      /\ pools' = [pools EXCEPT ![v] = [numRef |-> 1, pool |-> new]]
      /\ data' = [data EXCEPT ![t] = pools'[v].pool]
  BY <1>1, <1>2 DEF Create, IInv, TypeOK
<1>4. handles[g].owner = t /\ handles[g].uri = v /\ handles[g].is = "new" /\ mutex = t
  BY <1>1, PtrFacts DEF Uri, IInv, PtrInv, MutexInv
<1>5. /\ \A u \in Threads \ {t} : pc'[u] = pc[u] /\ data'[u] = data[u]
      /\ pc'[t] = "found" /\ data'[t] = new
      /\ pools'[v].numRef = 1 /\ pools'[v].pool = new /\ pools'[v] # None
      /\ created'[v] = 1
      /\ \A w \in Uris \ {v} : pools'[w] = pools[w] /\ created'[w] = created[w]
  BY <1>1, <1>3, NoneAssumption DEF IInv, TypeOK, Pools
<1>6. TypeOK'
  <2>1. new \in Pools /\ pools'[v].pool \in Pools
    BY <1>5 DEF Pools
  <2> QED
    BY <1>1, <1>3, <2>1 DEF IInv, TypeOK
<1>7. MutexInv'
  BY <1>1, <1>4, <1>5 DEF IInv, MutexInv
<1>8. PtrInv'
  <2>1. \A u \in Threads : pc[u] # "idle" => Uri(u) \in Uris
    BY PtrFacts
  <2>2. \A u \in Threads : Uri(u)' = Uri(u)
    BY <1>1 DEF Uri
  <2>3. \A u \in Threads \ {t} : pc[u] # "create"
    BY <1>4 DEF IInv, MutexInv
  <2> QED
    BY <1>1, <1>4, <1>5, <2>1, <2>2, <2>3 DEF IInv, PtrInv
<1>9. HandleInv'
  BY <1>1, <1>5 DEF IInv, HandleInv
<1>10. OnePool'
  BY <1>5 DEF IInv, OnePool
<1>11. CountedIn(g, v)
  <2>1. \A h \in Handles \ {g} : Refers(h)' <=> Refers(h)
    BY <1>1, <1>4, <1>5, OtherReferences
  <2>2. ~Refers(g) /\ Refers(g)'
    BY <1>1, <1>4, <1>5 DEF Refers
  <2> QED
    BY <1>1, <1>4, <2>1, <2>2 DEF Referring, CountedIn
<1>12. CountIsHandles'
  <2>1. Referring(v)' = {g}
    BY <1>1, <1>11, NoEntryNoReference DEF CountedIn
  <2>2. Cardinality(Referring(v)') = 1
    BY <2>1, FS_Singleton
  <2> QED
    BY <1>5, <1>11, <2>2 DEF IInv, CountIsHandles, CountedIn
<1> QED
  BY <1>6, <1>7, <1>8, <1>9, <1>10, <1>11, <1>12 DEF IInv

(* The handle keeps its reference while it gets its fields. *)
LEMMA StoreIInv ==
  ASSUME IInv, NEW t \in Threads, NEW g \in Handles, ptr[t] = g, Store(t)
  PROVE  IInv' /\ ReferencesKept
<1> DEFINE stored == [is |-> "held", owner |-> t, uri |-> handles[g].uri, pool |-> data[t]]
<1>1. /\ phase = "running" /\ pc[t] = "store"
      /\ handles' = [handles EXCEPT ![g] = stored]
      /\ data' = [data EXCEPT ![t] = None]
      /\ pc' = [pc EXCEPT ![t] = "configure"]
      /\ UNCHANGED <<phase, mutex, pools, created, alive, ptr>>
  BY DEF Store, At, Goto, managerVars, Uri
<1>2. /\ handles[g].owner = t /\ handles[g].is = "new" /\ handles[g].uri \in Uris
      /\ pools[handles[g].uri] # None /\ data[t] = pools[handles[g].uri].pool
  BY <1>1, PtrFacts DEF Uri, IInv, PtrInv
<1>3. /\ \A u \in Threads \ {t} : pc'[u] = pc[u] /\ data'[u] = data[u]
      /\ pc'[t] = "configure" /\ data'[t] = None
      /\ \A h \in Handles \ {g} : handles'[h] = handles[h]
      /\ handles'[g] = stored
  BY <1>1, <1>2 DEF IInv, TypeOK
<1>4. TypeOK'
  BY <1>1, <1>3 DEF IInv, TypeOK
<1>5. MutexInv' /\ OnePool'
  BY <1>1, <1>3 DEF IInv, MutexInv, OnePool
<1>6. \A u \in Threads \ {t} : pc[u] # "idle" => ptr[u] \in Handles \ {g}
  BY <1>1, PtrFacts, PtrUnique
<1>7. PtrInv'
  BY <1>1, <1>2, <1>3, <1>6 DEF IInv, PtrInv, Uri
<1>8. HandleInv'
  BY <1>1, <1>2, <1>3 DEF IInv, HandleInv
<1>9. ReferencesKept
  <2>1. \A h \in Handles \ {g} : Refers(h)' <=> Refers(h)
    BY <1>1, <1>3, OtherReferences
  <2>2. Refers(g) /\ Refers(g)'
    BY <1>1, <1>2, <1>3 DEF Refers
  <2> QED
    BY <1>3, <2>1, <2>2 DEF Referring, ReferencesKept
<1>10. CountIsHandles'
  BY <1>1, <1>9 DEF IInv, CountIsHandles, ReferencesKept
<1> QED
  BY <1>4, <1>5, <1>7, <1>8, <1>9, <1>10 DEF IInv

(* The new handle is ready: the thread lets go of it. *)
LEMMA ConfigureIInv ==
  ASSUME IInv, NEW t \in Threads, Configure(t)
  PROVE  IInv' /\ ReferencesKept
<1>1. CASE handles[ptr[t]].pool \in alive
  <2>1. /\ phase = "running" /\ pc[t] = "configure"
        /\ ptr' = [ptr EXCEPT ![t] = None]
        /\ pc' = [pc EXCEPT ![t] = "idle"]
        /\ UNCHANGED <<phase, mutex, pools, created, alive, handles, data>>
    BY <1>1 DEF Configure, At, Goto, managerVars
  <2>2. ptr[t] \in Handles /\ handles[ptr[t]].is = "held"
    BY <2>1, PtrFacts DEF IInv, PtrInv
  <2>3. TypeOK'
    BY <2>1 DEF IInv, TypeOK
  <2>4. /\ \A u \in Threads \ {t} : pc'[u] = pc[u] /\ ptr'[u] = ptr[u]
        /\ pc'[t] = "idle" /\ ptr'[t] = None
    BY <2>1 DEF IInv, TypeOK
  <2>5. MutexInv' /\ OnePool'
    BY <2>1, <2>4 DEF IInv, MutexInv, OnePool
  <2>6. PtrInv'
    BY <2>1, <2>4 DEF IInv, PtrInv, Uri
  <2>7. HandleInv'
    <3>1. ASSUME NEW h \in Handles, handles[h].is = "new"
          PROVE  ptr'[handles[h].owner] = h
      BY <2>2, <2>4, <3>1 DEF IInv, HandleInv
    <3> QED
      BY <2>1, <3>1 DEF IInv, HandleInv
  <2>8. ReferencesKept
    <3>1. \A h \in Handles \ {ptr[t]} : Refers(h)' <=> Refers(h)
      BY <2>1, <2>2, <2>4, OtherReferences
    <3>2. Refers(ptr[t]) /\ handles[ptr[t]].owner = t
      BY <2>1, <2>2, PtrFacts DEF Refers
    <3>3. \A h \in Handles : h = ptr[t] => Refers(h)'
      BY <2>1, <2>2, <2>4, <3>2, FiniteAssumption DEF Refers
    <3> QED
      BY <2>1, <2>2, <3>1, <3>2, <3>3 DEF Referring, ReferencesKept
  <2>9. CountIsHandles'
    BY <2>1, <2>8 DEF IInv, CountIsHandles, ReferencesKept
  <2> QED
    BY <2>3, <2>5, <2>6, <2>7, <2>8, <2>9 DEF IInv
<1>2. CASE handles[ptr[t]].pool \notin alive
  BY <1>2, StutterIInv DEF Configure, Undefined
<1> QED
  BY <1>1, <1>2

(* A collected handle keeps its reference until releasePool counts it off. *)
LEMMA CollectIInv ==
  ASSUME IInv, NEW t \in Threads, NEW g \in Handles, Collect(t, g)
  PROVE  IInv' /\ ReferencesKept
<1>1. /\ phase = "running" /\ pc[t] = "idle"
      /\ handles[g].is = "held" /\ handles[g].owner = t
      /\ ptr' = [ptr EXCEPT ![t] = g]
      /\ pc' = [pc EXCEPT ![t] = "release"]
      /\ UNCHANGED <<phase, mutex, pools, created, alive, handles, data>>
  BY DEF Collect, At, Goto, managerVars
<1>2. TypeOK'
  BY <1>1 DEF IInv, TypeOK
<1>3. /\ \A u \in Threads \ {t} : pc'[u] = pc[u] /\ ptr'[u] = ptr[u]
      /\ pc'[t] = "release" /\ ptr'[t] = g
  BY <1>1 DEF IInv, TypeOK
<1>4. MutexInv' /\ OnePool'
  BY <1>1, <1>3 DEF IInv, MutexInv, OnePool
<1>5. ptr[t] = None
  BY <1>1 DEF IInv, PtrInv
<1>6. PtrInv'
  BY <1>1, <1>3, <1>5, FiniteAssumption DEF IInv, PtrInv, Uri
<1>7. HandleInv'
  <2>1. ASSUME NEW h \in Handles, handles[h].is = "new"
        PROVE  ptr'[handles[h].owner] = h
    BY <1>3, <1>5, <2>1, FiniteAssumption DEF IInv, HandleInv
  <2> QED
    BY <1>1, <2>1 DEF IInv, HandleInv
<1>8. ReferencesKept
  <2>1. \A h \in Handles \ {g} : Refers(h)' <=> Refers(h)
    BY <1>1, <1>3, <1>5, OtherReferences
  <2>2. Refers(g) /\ Refers(g)'
    BY <1>1, <1>3, <1>5, FiniteAssumption DEF Refers
  <2> QED
    BY <1>1, <2>1, <2>2 DEF Referring, ReferencesKept
<1>9. CountIsHandles'
  BY <1>1, <1>8 DEF IInv, CountIsHandles, ReferencesKept
<1> QED
  BY <1>2, <1>4, <1>6, <1>7, <1>8, <1>9 DEF IInv

(* The entry of a handle that is being released counts that handle. *)
LEMMA ReleasedIsCounted ==
  ASSUME IInv, NEW t \in Threads, NEW g \in Handles, NEW v \in Uris,
         ptr[t] = g, Uri(t) = v, pc[t] = "drop"
  PROVE  /\ g \in Referring(v)
         /\ pools[v] \in [numRef : Nat, pool : Pools]
         /\ pools[v].pool = <<v, 0>>
         /\ pools[v].numRef = Cardinality(Referring(v))
         /\ pools[v].numRef \in Nat \ {0}
<1>1. handles[g].owner = t /\ handles[g].uri = v /\ handles[g].is = "held"
  BY PtrFacts DEF Uri, IInv, PtrInv
<1>2. g \in Referring(v)
  BY <1>1 DEF Referring, Refers
<1>3. pools[v] # None
  BY <1>1 DEF IInv, HandleInv
<1>4. pools[v] \in [numRef : Nat, pool : Pools] /\ pools[v].pool = <<v, 0>>
  BY <1>3 DEF IInv, TypeOK, OnePool
<1>5. pools[v].numRef = Cardinality(Referring(v))
  BY <1>3 DEF IInv, CountIsHandles
<1>6. Cardinality(Referring(v)) # 0
  BY <1>2, ReferringFinite, FS_EmptySet
<1> QED
  BY <1>2, <1>4, <1>5, <1>6

(* Counting a handle off. *)
LEMMA DropIInv ==
  ASSUME IInv, NEW t \in Threads, NEW g \in Handles, NEW v \in Uris,
         ptr[t] = g, Uri(t) = v, Drop(t)
  PROVE  IInv' /\ CountedOff(g, v)
<1>1. /\ phase = "running" /\ pc[t] = "drop"
      /\ pools' = [pools EXCEPT ![v].numRef = @ - 1]
      /\ alive' \subseteq alive
      /\ pc' = [pc EXCEPT ![t] = "dropped"]
      /\ UNCHANGED <<phase, mutex, created, handles, ptr, data>>
  BY DEF Drop, At, Goto
<1>2. /\ g \in Referring(v)
      /\ pools[v] \in [numRef : Nat, pool : Pools]
      /\ pools[v].numRef = Cardinality(Referring(v))
      /\ pools[v].numRef \in Nat \ {0}
  BY <1>1, ReleasedIsCounted
<1>3. handles[g].owner = t /\ handles[g].uri = v /\ handles[g].is = "held" /\ mutex = t
  BY <1>1, PtrFacts DEF Uri, IInv, PtrInv, MutexInv
<1>4. TypeOK'
  <2>1. pools[v].numRef - 1 \in Nat
    BY <1>2
  <2> QED
    BY <1>1, <1>2, <2>1 DEF IInv, TypeOK
<1>5. /\ \A u \in Threads \ {t} : pc'[u] = pc[u]
      /\ pc'[t] = "dropped"
      /\ pools'[v].numRef = pools[v].numRef - 1
      /\ \A w \in Uris \ {v} : pools'[w] = pools[w]
      /\ \A w \in Uris : pools'[w] = None <=> pools[w] = None
      /\ \A w \in Uris : pools[w] # None => pools'[w].pool = pools[w].pool
  <2>1. pools[v].numRef - 1 \in Nat
    BY <1>2
  <2> QED
    BY <1>1, <1>2, <2>1, NoneAssumption DEF IInv, TypeOK
<1>6. MutexInv'
  BY <1>1, <1>3, <1>5 DEF IInv, MutexInv
<1>7. PtrInv'
  <2>1. \A u \in Threads : pc[u] # "idle" => Uri(u) \in Uris
    BY PtrFacts
  <2>2. \A u \in Threads : Uri(u)' = Uri(u)
    BY <1>1 DEF Uri
  <2> QED
    BY <1>1, <1>3, <1>5, <2>1, <2>2 DEF IInv, PtrInv
<1>8. HandleInv'
  BY <1>1, <1>5 DEF IInv, HandleInv
<1>9. OnePool'
  BY <1>1, <1>5 DEF IInv, OnePool
<1>10. CountedOff(g, v)
  <2>1. \A h \in Handles \ {g} : Refers(h)' <=> Refers(h)
    BY <1>1, <1>5, OtherReferences
  <2>2. ~Refers(g)'
    BY <1>1, <1>3, <1>5 DEF Refers
  <2> QED
    BY <1>1, <1>2, <1>3, <2>1, <2>2 DEF Referring, CountedOff
<1>11. CountIsHandles'
  <2>1. Cardinality(Referring(v)') = Cardinality(Referring(v)) - 1
    BY <1>2, <1>10, ReferringFinite, FS_RemoveElement DEF CountedOff
  <2>2. \A w \in Uris \ {v} : Referring(w)' = Referring(w)
    BY <1>10 DEF CountedOff
  <2> QED
    BY <1>2, <1>5, <2>1, <2>2 DEF IInv, CountIsHandles
<1> QED
  BY <1>4, <1>6, <1>7, <1>8, <1>9, <1>10, <1>11 DEF IInv

(* The userdata is gone; its reference was counted off before. *)
LEMMA ForgetIInv ==
  ASSUME IInv, NEW t \in Threads, NEW g \in Handles, ptr[t] = g, Forget(t)
  PROVE  IInv' /\ ReferencesKept
<1>1. /\ phase = "running" /\ pc[t] = "forget"
      /\ handles' = [handles EXCEPT ![g] = Free]
      /\ ptr' = [ptr EXCEPT ![t] = None]
      /\ pc' = [pc EXCEPT ![t] = "idle"]
      /\ UNCHANGED <<phase, mutex, pools, created, alive, data>>
  BY DEF Forget, At, Goto, managerVars
<1>2. handles[g].owner = t /\ handles[g].is = "held"
  BY <1>1, PtrFacts DEF IInv, PtrInv
<1>3. TypeOK'
  BY <1>1 DEF IInv, TypeOK, Free
<1>4. /\ \A u \in Threads \ {t} : pc'[u] = pc[u] /\ ptr'[u] = ptr[u]
      /\ pc'[t] = "idle" /\ ptr'[t] = None
      /\ \A h \in Handles \ {g} : handles'[h] = handles[h]
      /\ handles'[g] = Free
  BY <1>1 DEF IInv, TypeOK
<1>5. \A u \in Threads \ {t} : pc[u] # "idle" => ptr[u] \in Handles \ {g}
  BY <1>1, PtrFacts, PtrUnique
<1>6. MutexInv' /\ OnePool'
  BY <1>1, <1>4 DEF IInv, MutexInv, OnePool
<1>7. PtrInv'
  BY <1>1, <1>4, <1>5 DEF IInv, PtrInv, Uri
<1>8. HandleInv'
  <2>1. ASSUME NEW h \in Handles \ {g}, handles[h].is = "new"
        PROVE  ptr'[handles[h].owner] = h
    BY <1>4, <2>1 DEF IInv, HandleInv
  <2> QED
    BY <1>1, <1>4, <2>1 DEF IInv, HandleInv, Free
<1>9. ReferencesKept
  <2>1. \A h \in Handles \ {g} : Refers(h)' <=> Refers(h)
    BY <1>4, OtherReferences
  <2>2. ~Refers(g) /\ ~Refers(g)'
    BY <1>1, <1>2, <1>4 DEF Refers, Free
  <2> QED
    BY <1>4, <2>1, <2>2 DEF Referring, ReferencesKept
<1>10. CountIsHandles'
  BY <1>1, <1>9 DEF IInv, CountIsHandles, ReferencesKept
<1> QED
  BY <1>3, <1>6, <1>7, <1>8, <1>9, <1>10 DEF IInv

LEMMA CreateInvalidIInv ==
  ASSUME IInv, NEW t \in Threads, CreateInvalid(t)
  PROVE  IInv' /\ ReferencesKept
BY StutterIInv DEF CreateInvalid, Undefined

-------------------------------------------------------------------------------
(* Every step of the system preserves the invariant. *)
LEMMA NextIInv ==
  ASSUME IInv, [Next]_vars
  PROVE  IInv'
<1>1. CASE Next
  <2>1. PICK t \in Threads :
           \/ \E h \in Handles :
                \/ \E u \in Uris : NewPool(t, h, u)
                \/ NewPoolRaises(t, h) \/ Collect(t, h) \/ CollectRaw(t, h)
           \/ Get(t) \/ Release(t)
    BY <1>1 DEF Next
  <2>2. CASE \E h \in Handles : \E u \in Uris : NewPool(t, h, u)
    BY <2>2, NewPoolIInv
  <2>3. CASE \E h \in Handles : NewPoolRaises(t, h)
    BY <2>3, NewPoolRaisesIInv
  <2>4. CASE \E h \in Handles : Collect(t, h)
    BY <2>4, CollectIInv
  <2>5. CASE \E h \in Handles : CollectRaw(t, h)
    BY <2>5, StutterIInv DEF CollectRaw, Undefined
  <2>6. CASE Get(t)
    <3>1. pc[t] # "idle"
      BY <2>6 DEF Get, LockGet, Lock, FindHit, FindMiss, Create, CreateInvalid, UnlockGet, Unlock, Store,
                  Configure, At
    <3>2. ptr[t] \in Handles /\ Uri(t) \in Uris
      BY <3>1, PtrFacts
    <3> QED
      BY <2>6, <3>2, LockGetIInv, FindHitIInv, FindMissIInv, CreateIInv, CreateInvalidIInv,
         UnlockGetIInv, StoreIInv, ConfigureIInv DEF Get
  <2>7. CASE Release(t)
    <3>1. pc[t] # "idle"
      BY <2>7 DEF Release, LockRelease, Lock, Drop, UnlockRelease, Unlock, Forget, At
    <3>2. ptr[t] \in Handles /\ Uri(t) \in Uris
      BY <3>1, PtrFacts
    <3> QED
      BY <2>7, <3>2, LockReleaseIInv, DropIInv, UnlockReleaseIInv, ForgetIInv DEF Release
  <2> QED
    BY <2>1, <2>2, <2>3, <2>4, <2>5, <2>6, <2>7
<1>2. CASE UNCHANGED vars
  BY <1>2, StutterIInv DEF vars
<1> QED
  BY <1>1, <1>2

(* IInv holds in every reachable state of the manager and its handles. *)
THEOREM InductiveInvariant == Spec => []IInv
  BY InitIInv, NextIInv, PTL DEF Spec

(* The state of the manager and of every thread that calls it is well typed. *)
THEOREM TypeCorrect == Spec => []TypeOK
<1>1. IInv => TypeOK
  BY DEF IInv
<1> QED
  BY <1>1, InductiveInvariant, PTL

(* getPoolForUri and releasePool keep numRef equal to the number of handles *)
(* that hold a reference, for any interleaving of any number of threads.    *)
THEOREM CountsAreExact == Spec => []CountIsHandles
<1>1. IInv => CountIsHandles
  BY DEF IInv
<1> QED
  BY <1>1, InductiveInvariant, PTL

(* getPoolForUri creates at most one pool for a connection string, and the  *)
(* map never loses it.                                                      *)
THEOREM PoolsAreUnique == Spec => []OnePool
<1>1. IInv => OnePool
  BY DEF IInv
<1> QED
  BY <1>1, InductiveInvariant, PTL

(* Only Drop destroys a pool, the one of the handle it counts off. *)
LEMMA DestroyedByDrop ==
  ASSUME IInv, [Next]_vars, NEW p \in alive \ alive'
  PROVE  \E t \in Threads :
           /\ Drop(t)
           /\ pools[Uri(t)].numRef = 1
           /\ p = pools[Uri(t)].pool
  BY DEF Next, vars, NewPool, NewPoolRaises, Collect, CollectRaw, Undefined, Get, Release,
         LockGet, LockRelease, Lock, FindHit, FindMiss, Create, CreateInvalid, UnlockGet, UnlockRelease, Unlock,
         Store, Configure, Drop, Forget, managerVars, threadVars

(* The pool a step destroys is referred to by nothing after the step. *)
LEMMA DestroyedUnused ==
  ASSUME IInv, [Next]_vars, NEW p \in alive \ alive'
  PROVE  /\ \A h \in Handles : handles'[h].pool = p => ~Refers(h)'
         /\ \A t \in Threads : data'[t] # p
<1>1. PICK t \in Threads : Drop(t) /\ pools[Uri(t)].numRef = 1 /\ p = pools[Uri(t)].pool
  BY DestroyedByDrop
<1>2. /\ pc[t] = "drop"
      /\ pc' = [pc EXCEPT ![t] = "dropped"]
      /\ UNCHANGED <<handles, ptr, data>>
  BY <1>1 DEF Drop, At, Goto
<1>3. PICK g \in Handles, v \in Uris : ptr[t] = g /\ Uri(t) = v
  BY <1>2, PtrFacts
<1>4. /\ g \in Referring(v) /\ p = <<v, 0>>
      /\ Cardinality(Referring(v)) = 1
  BY <1>1, <1>2, <1>3, ReleasedIsCounted
<1>5. Referring(v) = {g}
  BY <1>4, ReferringFinite, FS_Singleton
<1>6. handles[g].owner = t /\ handles[g].is = "held" /\ pc'[t] = "dropped"
  BY <1>2, <1>3, PtrFacts DEF IInv, PtrInv, TypeOK
<1>7. ~Refers(g)'
  BY <1>2, <1>3, <1>6 DEF Refers
<1>8. \A u \in Threads \ {t} : pc'[u] = pc[u]
  BY <1>2 DEF IInv, TypeOK
<1>9. \A h \in Handles \ {g} : Refers(h)' <=> Refers(h)
  BY <1>2, <1>3, <1>8, OtherReferences
<1>10. ASSUME NEW h \in Handles, handles[h].pool = p, Refers(h)
       PROVE  h \in Referring(v)
  <2>1. p # None
    BY <1>4, NoneAssumption DEF Pools
  <2>2. handles[h].is = "held" /\ handles[h].uri \in Uris
    BY <1>10, <2>1 DEF IInv, HandleInv
  <2>3. handles[h].pool = <<handles[h].uri, 0>>
    BY <2>2 DEF IInv, HandleInv, OnePool
  <2>4. handles[h].uri = v
    BY <1>4, <1>10, <2>3
  <2> QED
    BY <1>10, <2>4 DEF Referring
<1>11. \A h \in Handles : handles'[h].pool = p => ~Refers(h)'
  BY <1>2, <1>5, <1>7, <1>9, <1>10
<1>12. ASSUME NEW u \in Threads, data[u] = p
       PROVE  FALSE
  <2>1. p # None
    BY <1>4, NoneAssumption DEF Pools
  <2>2. pc[u] \in {"found", "store"} /\ pools[Uri(u)] # None /\ p = pools[Uri(u)].pool
    BY <1>12, <2>1 DEF IInv, PtrInv
  <2>3. /\ ptr[u] \in Handles /\ handles[ptr[u]].owner = u /\ Uri(u) \in Uris
        /\ handles[ptr[u]].is = "new"
    BY <2>2, PtrFacts DEF IInv, PtrInv
  <2>4. Uri(u) = v
    BY <1>4, <2>2, <2>3 DEF IInv, OnePool
  <2>5. ptr[u] \in Referring(v)
    BY <2>2, <2>3, <2>4 DEF Referring, Refers, Uri
  <2> QED
    BY <1>5, <1>6, <2>3, <2>5
<1> QED
  BY <1>2, <1>11, <1>12

(* releasePool destroys a pool only when no handle refers to it and no      *)
(* other thread is between finding the pool and storing it in a handle.     *)
THEOREM DestroysUnused == Spec => NoEarlyDestroy
<1>1. IInv /\ [Next]_vars =>
        [\A p \in alive \ alive' :
           /\ \A h \in Handles : handles'[h].pool = p => ~Refers(h)'
           /\ \A t \in Threads : data'[t] # p]_vars
  BY DestroyedUnused
<1> QED
  BY <1>1, InductiveInvariant, PTL DEF Spec, NoEarlyDestroy

(* A handle gets usable by Configure, which saw its pool alive; any other   *)
(* usable handle was usable before, and has not changed.                    *)
Usable(h) ==
  LET t == handles[h].owner
  IN  handles[h].is = "held" /\ (ptr[t] = h => pc[t] \in {"release", "drop"})

LEMMA UsableBefore ==
  ASSUME IInv, [Next]_vars, NEW h \in Handles, Usable(h)'
  PROVE  handles'[h] = handles[h] /\ (Usable(h) \/ handles[h].pool \in alive')
<1> USE DEF Usable
<1>1. CASE UNCHANGED vars
  BY <1>1 DEF vars, managerVars, threadVars
<1>2. ASSUME NEW t \in Threads, NEW g \in Handles,
             \/ \E u \in Uris : NewPool(t, g, u)
             \/ NewPoolRaises(t, g) \/ Collect(t, g) \/ CollectRaw(t, g)
      PROVE  handles'[h] = handles[h] /\ Usable(h)
  <2>1. ptr[t] = None
    BY <1>2 DEF NewPool, NewPoolRaises, Collect, CollectRaw, At, IInv, PtrInv
  <2>2. \A u \in Threads \ {t} : pc'[u] = pc[u] /\ ptr'[u] = ptr[u]
    BY <1>2 DEF NewPool, NewPoolRaises, Collect, CollectRaw, Undefined, threadVars, Goto, IInv,
                TypeOK
  <2>3. handles'[h] = handles[h]
    BY <1>2 DEF NewPool, NewPoolRaises, Collect, CollectRaw, Undefined, threadVars, At, Goto,
                IInv, TypeOK, PtrInv
  <2>4. handles[h].owner \in Threads
    BY <2>3 DEF IInv, HandleInv
  <2> QED
    BY <2>1, <2>2, <2>3, <2>4, FiniteAssumption
<1>3. ASSUME NEW t \in Threads, Get(t) \/ Release(t)
      PROVE  handles'[h] = handles[h] /\ (Usable(h) \/ handles[h].pool \in alive')
  <2>1. \A u \in Threads \ {t} : pc'[u] = pc[u] /\ ptr'[u] = ptr[u]
    BY <1>3 DEF Get, Release, LockGet, LockRelease, Lock, FindHit, FindMiss, Create, CreateInvalid, UnlockGet,
                UnlockRelease, Unlock, Store, Configure, Undefined, Drop, Forget, threadVars,
                Goto, IInv, TypeOK
  <2>2. CASE LockGet(t) \/ FindHit(t) \/ FindMiss(t) \/ Create(t) \/ CreateInvalid(t) \/ UnlockGet(t)
    <3>1. handles' = handles /\ ptr' = ptr /\ handles[ptr[t]].is = "new"
      BY <2>2 DEF LockGet, Lock, FindHit, FindMiss, Create, CreateInvalid, UnlockGet, Unlock, Undefined, threadVars,
                  At, IInv, PtrInv
    <3>2. handles[h].owner \in Threads
      BY <3>1 DEF IInv, HandleInv
    <3> QED
      BY <2>1, <3>1, <3>2
  <2>3. CASE Store(t)
    <3>1. pc[t] = "store" /\ pc'[t] = "configure" /\ ptr' = ptr
      BY <2>3 DEF Store, At, Goto, IInv, TypeOK
    <3>2. CASE ptr[t] = h
      <4>1. handles'[h].owner = t
        BY <2>3, <3>2 DEF Store, IInv, TypeOK
      <4> QED
        BY <3>1, <3>2, <4>1
    <3>3. CASE ptr[t] # h
      <4>1. handles'[h] = handles[h]
        BY <2>3, <3>3 DEF Store, IInv, TypeOK
      <4>2. handles[h].owner \in Threads
        BY <4>1 DEF IInv, HandleInv
      <4> QED
        BY <2>1, <3>1, <3>3, <4>1, <4>2
    <3> QED
      BY <3>2, <3>3
  <2>4. CASE Configure(t)
    <3>1. handles' = handles /\ alive' = alive
      BY <2>4 DEF Configure, Undefined, managerVars, threadVars
    <3>2. handles[h].owner \in Threads
      BY <3>1 DEF IInv, HandleInv
    <3>3. handles[ptr[t]].pool \in alive \/ (pc' = pc /\ ptr' = ptr)
      BY <2>4 DEF Configure, Undefined, threadVars
    <3> QED
      BY <2>1, <3>1, <3>2, <3>3
  <2>5. CASE LockRelease(t) \/ Drop(t) \/ UnlockRelease(t)
    <3>1. /\ handles' = handles /\ ptr' = ptr
          /\ pc[t] \in {"release", "drop"} \/ pc'[t] = "forget"
      BY <2>5 DEF LockRelease, Lock, Drop, UnlockRelease, Unlock, threadVars, At, Goto, IInv,
                  TypeOK
    <3>2. handles[h].owner \in Threads
      BY <3>1 DEF IInv, HandleInv
    <3> QED
      BY <2>1, <3>1, <3>2
  <2>6. CASE Forget(t)
    <3>1. ptr[t] # h /\ handles'[h] = handles[h]
      BY <2>6 DEF Forget, Free, IInv, TypeOK
    <3>2. handles[h].owner \in Threads
      BY <3>1 DEF IInv, HandleInv
    <3> QED
      BY <2>1, <3>1, <3>2
  <2> QED
    BY <1>3, <2>2, <2>3, <2>4, <2>5, <2>6 DEF Get, Release
<1> QED
  BY <1>1, <1>2, <1>3 DEF Next

(* A handle of the plugin never outlives its pool: from the return of       *)
(* mongodb.new to releasePool its pool is alive.                            *)
THEOREM HandlesKeepPoolsAlive == Spec => []HeldAlive
<1>1. Init => HeldAlive
  BY DEF Init, HeldAlive, Free
<1>2. ASSUME IInv, HeldAlive, [Next]_vars
      PROVE  HeldAlive'
  <2> SUFFICES ASSUME NEW h \in Handles, Usable(h)'
               PROVE  handles'[h].pool \in alive'
    BY DEF HeldAlive, Usable
  <2>1. handles'[h] = handles[h] /\ (Usable(h) \/ handles[h].pool \in alive')
    BY <1>2, UsableBefore
  <2>2. Refers(h)'
    BY DEF Usable, Refers
  <2>3. CASE Usable(h)
    <3>1. handles[h].pool \in alive
      BY <1>2, <2>3 DEF HeldAlive, Usable
    <3> QED
      BY <1>2, <2>1, <2>2, <3>1, DestroyedUnused
  <2> QED
    BY <2>1, <2>3
<1> QED
  BY <1>1, <1>2, InductiveInvariant, PTL DEF Spec

(* releasePool does destroy a pool with its last reference, and no entry    *)
(* with a count of zero has a live pool.                                    *)
THEOREM LastReleaseDestroys == Spec => []UnusedDestroyed
<1>1. Init => UnusedDestroyed
  BY DEF Init, UnusedDestroyed
<1>2. ASSUME IInv, UnusedDestroyed, [Next]_vars
      PROVE  UnusedDestroyed'
  <2>1. CASE UNCHANGED <<pools, alive>>
    BY <1>2, <2>1 DEF UnusedDestroyed
  <2>2. ASSUME NEW t \in Threads, FindHit(t) \/ Create(t) \/ Drop(t)
        PROVE  UnusedDestroyed'
    <3>1. pc[t] # "idle" /\ (pc[t] = "create" => pools[Uri(t)] = None)
      BY <1>2, <2>2 DEF FindHit, Create, Drop, At, IInv, PtrInv
    <3>2. PICK g \in Handles, v \in Uris : ptr[t] = g /\ Uri(t) = v
      BY <1>2, <3>1, PtrFacts
    <3> SUFFICES ASSUME NEW u \in Uris, pools'[u] # None, pools'[u].numRef = 0
                 PROVE  pools'[u].pool \notin alive'
      BY DEF UnusedDestroyed
    <3>3. CASE FindHit(t)
      <4>1. pools[v] \in [numRef : Nat, pool : Pools]
        BY <1>2, <3>2, <3>3 DEF FindHit, IInv, TypeOK
      <4>2. pools' = [pools EXCEPT ![v].numRef = @ + 1] /\ alive' = alive
        BY <3>2, <3>3 DEF FindHit
      <4>3. pools'[v].numRef # 0
        BY <1>2, <4>1, <4>2 DEF IInv, TypeOK
      <4>4. u # v /\ pools'[u] = pools[u]
        BY <1>2, <4>2, <4>3 DEF IInv, TypeOK
      <4> QED
        BY <1>2, <4>2, <4>4 DEF UnusedDestroyed
    <3>4. CASE Create(t)
      <4>1. pools[v] = None /\ created[v] = 0
        BY <1>2, <3>1, <3>2, <3>4 DEF Create, At, IInv, OnePool
      <4>2. /\ pools' = [pools EXCEPT ![v] = [numRef |-> 1, pool |-> <<v, 0>>]]
            /\ alive' = alive \cup {<<v, 0>>}
        BY <3>2, <3>4, <4>1 DEF Create
      <4>3. u # v /\ pools'[u] = pools[u]
        BY <1>2, <4>2 DEF IInv, TypeOK
      <4>4. pools[u].pool = <<u, 0>>
        BY <1>2, <4>3 DEF IInv, OnePool
      <4> QED
        BY <1>2, <4>2, <4>3, <4>4 DEF UnusedDestroyed
    <3>5. CASE Drop(t)
      <4>1. pools[v] \in [numRef : Nat, pool : Pools] /\ pools[v].numRef \in Nat \ {0}
        BY <1>2, <3>2, <3>5, ReleasedIsCounted DEF Drop, At
      <4>2. /\ pools' = [pools EXCEPT ![v].numRef = @ - 1]
            /\ alive' \subseteq alive
            /\ pools[v].numRef = 1 => pools[v].pool \notin alive'
        BY <3>2, <3>5 DEF Drop
      <4>3. CASE u = v
        <5>1. pools'[v].numRef = pools[v].numRef - 1 /\ pools'[v].pool = pools[v].pool
          BY <1>2, <4>1, <4>2 DEF IInv, TypeOK
        <5> QED
          BY <4>1, <4>2, <4>3, <5>1
      <4>4. CASE u # v
        <5>1. pools'[u] = pools[u]
          BY <1>2, <4>2, <4>4 DEF IInv, TypeOK
        <5> QED
          BY <1>2, <4>2, <5>1 DEF UnusedDestroyed
      <4> QED
        BY <4>3, <4>4
    <3> QED
      BY <2>2, <3>3, <3>4, <3>5
  <2>3. UNCHANGED <<pools, alive>> \/ \E t \in Threads : FindHit(t) \/ Create(t) \/ Drop(t)
    BY <1>2 DEF Next, vars, NewPool, NewPoolRaises, Collect, CollectRaw, Undefined, Get, Release,
         LockGet, LockRelease, Lock, FindMiss, CreateInvalid, UnlockGet, UnlockRelease, Unlock,
         Store, Configure, Forget, managerVars
  <2> QED
    BY <2>1, <2>2, <2>3
<1> QED
  BY <1>1, <1>2, InductiveInvariant, PTL DEF Spec

-------------------------------------------------------------------------------
(* The refinement: the manager is the abstract one, which does each of      *)
(* getPoolForUri and releasePool in a step.                                 *)

LEMMA InitShared == Init => SP!Init
<1> SUFFICES ASSUME Init PROVE SP!Init
  OBVIOUS
<1>1. \A u \in Uris : Referring(u) = {}
  BY DEF Init, Free, Referring, Refers
<1>2. \A u \in Uris : pools[u] = None
  BY DEF Init
<1> QED
  BY <1>1, <1>2 DEF usersBar, stateBar, SP!Init

(* A step that leaves references, entries and pools alone. *)
LEMMA SharedStutter ==
  ASSUME ReferencesKept, UNCHANGED <<pools, alive>>
  PROVE  UNCHANGED SP!vars
<1>1. usersBar' = usersBar
  BY DEF ReferencesKept, usersBar
<1>2. stateBar' = stateBar
  BY DEF stateBar
<1> QED
  BY <1>1, <1>2 DEF SP!vars

(* Finding an entry shares its pool, alive or not. *)
LEMMA FindHitAcquires ==
  ASSUME IInv, NEW t \in Threads, NEW g \in Handles, NEW v \in Uris,
         ptr[t] = g, Uri(t) = v, FindHit(t)
  PROVE  SP!Next
<1>1. /\ pools[v] # None
      /\ pools' = [pools EXCEPT ![v].numRef = @ + 1]
      /\ alive' = alive
  BY DEF FindHit
<1>2. pools[v] \in [numRef : Nat, pool : Pools]
  BY <1>1 DEF IInv, TypeOK
<1>3. /\ \A w \in Uris : pools'[w] = None <=> pools[w] = None
      /\ \A w \in Uris : pools[w] # None => pools'[w].pool = pools[w].pool
  BY <1>1, <1>2, NoneAssumption DEF IInv, TypeOK
<1>4. stateBar' = stateBar /\ stateBar[v] # "absent"
  BY <1>1, <1>3 DEF stateBar
<1>5. CountedIn(g, v)
  BY FindHitIInv
<1>6. usersBar' = [usersBar EXCEPT ![v] = @ \cup {g}] /\ \A w \in Uris : g \notin usersBar[w]
  BY <1>5 DEF CountedIn, usersBar
<1>7. stateBar' = [stateBar EXCEPT ![v] = IF @ = "absent" THEN "live" ELSE @]
  BY <1>4 DEF stateBar
<1> QED
  BY <1>6, <1>7 DEF SP!Acquire, SP!Next

(* Not finding one creates it. *)
LEMMA CreateAcquires ==
  ASSUME IInv, NEW t \in Threads, NEW g \in Handles, NEW v \in Uris,
         ptr[t] = g, Uri(t) = v, Create(t)
  PROVE  SP!Next
<1> DEFINE new == <<v, 0>>
<1>1. pc[t] = "create" /\ pools[v] = None
  BY DEF Create, At, IInv, PtrInv
<1>2. created[v] = 0
  BY <1>1 DEF IInv, OnePool
<1>3. /\ alive' = alive \cup {new}
      /\ pools' = [pools EXCEPT ![v] = [numRef |-> 1, pool |-> new]]
  BY <1>1, <1>2 DEF Create
<1>4. /\ pools'[v] # None /\ pools'[v].pool = new
      /\ \A w \in Uris \ {v} : pools'[w] = pools[w]
  BY <1>1, <1>3, NoneAssumption DEF IInv, TypeOK, Pools
<1>5. \A w \in Uris \ {v} : pools[w] # None => pools[w].pool # new
  BY DEF IInv, OnePool
<1>6. \A w \in Uris : stateBar'[w] = IF w = v THEN "live" ELSE stateBar[w]
  BY <1>3, <1>4, <1>5 DEF stateBar
<1>7. stateBar[v] = "absent"
  BY <1>1 DEF stateBar
<1>8. stateBar' = [stateBar EXCEPT ![v] = IF @ = "absent" THEN "live" ELSE @]
  BY <1>6, <1>7 DEF stateBar
<1>9. CountedIn(g, v)
  BY CreateIInv
<1>10. usersBar' = [usersBar EXCEPT ![v] = @ \cup {g}] /\ \A w \in Uris : g \notin usersBar[w]
  BY <1>9 DEF CountedIn, usersBar
<1> QED
  BY <1>8, <1>10 DEF SP!Acquire, SP!Next

(* Counting a handle off releases; the count says whether it is the last. *)
LEMMA DropReleases ==
  ASSUME IInv, NEW t \in Threads, NEW g \in Handles, NEW v \in Uris,
         ptr[t] = g, Uri(t) = v, Drop(t)
  PROVE  SP!Next
<1>1. /\ pc[t] = "drop"
      /\ pools' = [pools EXCEPT ![v].numRef = @ - 1]
      /\ alive' = IF pools[v].numRef = 1 THEN alive \ {pools[v].pool} ELSE alive
  BY DEF Drop, At
<1>2. /\ g \in Referring(v)
      /\ pools[v] \in [numRef : Nat, pool : Pools] /\ pools[v].pool = <<v, 0>>
      /\ pools[v].numRef = Cardinality(Referring(v))
  BY <1>1, ReleasedIsCounted
<1>3. pools[v].numRef = 1 <=> Referring(v) = {g}
  BY <1>2, ReferringFinite, FS_Singleton
<1>4. /\ \A w \in Uris : pools'[w] = None <=> pools[w] = None
      /\ \A w \in Uris : pools[w] # None => pools'[w].pool = pools[w].pool
      /\ pools[v] # None
  <2>1. pools[v].numRef - 1 \in Nat
    BY <1>1, ReleasedIsCounted
  <2> QED
    BY <1>1, <1>2, <2>1, NoneAssumption DEF IInv, TypeOK
<1>5. \A w \in Uris \ {v} : pools[w] # None => pools[w].pool # <<v, 0>>
  BY DEF IInv, OnePool
<1>6. \A w \in Uris :
        stateBar'[w] = IF w = v /\ Referring(v) = {g} THEN "dead" ELSE stateBar[w]
  <2> TAKE w \in Uris
  <2>1. CASE w = v /\ Referring(v) = {g}
    <3>1. alive' = alive \ {pools[v].pool} /\ pools'[v] # None /\ pools'[v].pool = pools[v].pool
      BY <1>1, <1>3, <1>4, <2>1
    <3>2. pools'[v].pool \notin alive'
      BY <3>1
    <3> QED
      BY <2>1, <3>1, <3>2 DEF stateBar
  <2>2. CASE w = v /\ Referring(v) # {g}
    <3>1. alive' = alive /\ pools'[v] # None /\ pools'[v].pool = pools[v].pool
      BY <1>1, <1>3, <1>4, <2>2
    <3> QED
      BY <1>4, <2>2, <3>1 DEF stateBar
  <2>3. CASE w # v
    <3>1. pools[w] # None => (pools[w].pool \in alive' <=> pools[w].pool \in alive)
      BY <1>1, <1>2, <1>5, <2>3
    <3> QED
      BY <1>4, <2>3, <3>1 DEF stateBar
  <2> QED
    BY <2>1, <2>2, <2>3
<1>7. stateBar' = [stateBar EXCEPT ![v] = IF usersBar[v] = {g} THEN "dead" ELSE @]
  BY <1>6 DEF stateBar, usersBar
<1>8. CountedOff(g, v)
  BY DropIInv
<1>9. usersBar' = [usersBar EXCEPT ![v] = @ \ {g}] /\ g \in usersBar[v]
  BY <1>8 DEF CountedOff, usersBar
<1> QED
  BY <1>7, <1>9 DEF SP!Release, SP!Next

(* The manager and the handles implement SharedPools: getPoolForUri takes    *)
(* effect where the entry is counted or created, releasePool where it is     *)
(* counted off, and everything else around these steps, with or without the  *)
(* mutex, is invisible.                                                      *)
THEOREM ImplementsSharedPools == Spec => SPSpec
<1>1. ASSUME IInv, [Next]_vars
      PROVE  [SP!Next]_(SP!vars)
  <2>1. ASSUME NEW t \in Threads, NEW h \in Handles,
               \/ \E u \in Uris : NewPool(t, h, u)
               \/ NewPoolRaises(t, h) \/ Collect(t, h) \/ CollectRaw(t, h)
        PROVE  UNCHANGED SP!vars
    <3>1. ReferencesKept
      BY <1>1, <2>1, NewPoolIInv, NewPoolRaisesIInv, CollectIInv, StutterIInv
         DEF CollectRaw, Undefined
    <3>2. UNCHANGED <<pools, alive>>
      BY <2>1 DEF NewPool, NewPoolRaises, Collect, CollectRaw, Undefined, managerVars
    <3> QED
      BY <3>1, <3>2, SharedStutter
  <2>2. ASSUME NEW t \in Threads, pc[t] # "idle", FindHit(t) \/ Create(t) \/ Drop(t)
        PROVE  SP!Next
    BY <1>1, <2>2, PtrFacts, FindHitAcquires, CreateAcquires, DropReleases
  <2>3. ASSUME NEW t \in Threads, pc[t] # "idle",
               \/ LockGet(t) \/ FindMiss(t) \/ CreateInvalid(t) \/ UnlockGet(t) \/ Store(t) \/ Configure(t)
               \/ LockRelease(t) \/ UnlockRelease(t) \/ Forget(t)
        PROVE  UNCHANGED SP!vars
    <3>1. ReferencesKept
      BY <1>1, <2>3, PtrFacts, LockGetIInv, FindMissIInv, CreateInvalidIInv, UnlockGetIInv,
         StoreIInv, ConfigureIInv, LockReleaseIInv, UnlockReleaseIInv, ForgetIInv
    <3>2. UNCHANGED <<pools, alive>>
      BY <2>3 DEF LockGet, Lock, FindMiss, CreateInvalid, UnlockGet, Unlock, Store, Configure, Undefined,
         LockRelease, UnlockRelease, Forget, managerVars
    <3> QED
      BY <3>1, <3>2, SharedStutter
  <2>4. ASSUME NEW t \in Threads, Get(t) \/ Release(t)
        PROVE  pc[t] # "idle"
    BY <2>4 DEF Get, Release, LockGet, Lock, FindHit, FindMiss, Create, CreateInvalid, UnlockGet, Unlock,
       Store, Configure, LockRelease, Drop, UnlockRelease, Forget, At
  <2>5. CASE UNCHANGED vars
    <3>1. ReferencesKept
      BY <1>1, <2>5, StutterIInv DEF vars
    <3> QED
      BY <2>5, <3>1, SharedStutter DEF vars, managerVars
  <2> QED
    BY <1>1, <2>1, <2>2, <2>3, <2>4, <2>5 DEF Next, Get, Release
<1> QED
  BY <1>1, InitShared, InductiveInvariant, PTL DEF Spec, SPSpec, SP!Spec

===============================================================================
