------------------------ MODULE MongoConnectionsProofs ------------------------
(***************************************************************************)
(* Proofs about MongoConnections, for any threads, objects and clients: a  *)
(* client is never shared, withConnection returns every client, and the    *)
(* threads never all wait for each other when the pool is large enough.    *)
(***************************************************************************)
EXTENDS MongoConnections, FiniteSetTheorems, SequenceTheorems, TLAPS

(* Popping a scope leaves the scopes below it. *)
LEMMA OuterScopes ==
  ASSUME TypeOK, NEW t \in Threads, scopes[t] # <<>>
  PROVE  /\ Innermost(t) \in Objects
         /\ Outer(t) \in Seq(Objects)
         /\ Len(Outer(t)) = Len(scopes[t]) - 1
         /\ \A i \in 1..Len(Outer(t)) : Outer(t)[i] = scopes[t][i]
<1>1. scopes[t] \in Seq(Objects)
  BY DEF TypeOK
<1>2. Len(scopes[t]) \in Nat /\ Len(scopes[t]) > 0
  BY <1>1, EmptySeq
<1>3. \A i \in 1..(Len(scopes[t]) - 1) : scopes[t][i] \in Objects
  BY <1>1, <1>2, ElementOfSeq
<1> QED
  BY <1>1, <1>2, <1>3, ElementOfSeq, SubSeqProperties DEF Innermost, Outer

(* An object other than the one whose scope is popped stays in scope. *)
LEMMA StaysInScope ==
  ASSUME TypeOK, NEW t \in Threads, scopes[t] # <<>>,
         scopes' = [scopes EXCEPT ![t] = Outer(t)],
         NEW u \in Threads, NEW o \in Objects, InScope(u, o),
         u # t \/ o # Innermost(t)
  PROVE  InScope(u, o)'
<1>1. CASE u # t
  BY <1>1 DEF InScope, TypeOK
<1>2. CASE u = t
  <2>1. PICK i \in 1..Len(scopes[t]) : scopes[t][i] = o
    BY <1>2 DEF InScope
  <2>2. scopes[t] \in Seq(Objects) /\ Len(scopes[t]) \in Nat
    BY DEF TypeOK
  <2>3. i # Len(scopes[t])
    BY <1>2, <2>1 DEF Innermost
  <2>4. i \in 1..Len(Outer(t)) /\ Outer(t)[i] = o
    BY <2>1, <2>2, <2>3, OuterScopes
  <2>5. scopes'[u] = Outer(t)
    BY <1>2 DEF TypeOK
  <2> QED
    BY <2>4, <2>5 DEF InScope
<1> QED
  BY <1>1, <1>2

(* NothingLost, client by client. *)
LEMMA NothingLostByClient ==
  NothingLost <=>
    (scoped => \A c : c \in created <=>
                 \/ c \in idle
                 \/ c # None /\ \E t \in Threads, o \in Objects : conn[t][o] = c)
<1>1. \A c : c \in UNION {Held(t) : t \in Threads} <=>
               c # None /\ \E t \in Threads, o \in Objects : conn[t][o] = c
  BY DEF Held
<1> QED
  BY <1>1 DEF NothingLost

LEMMA NothingLostByClientNext ==
  NothingLost' <=>
    (scoped' => \A c : c \in created' <=>
                 \/ c \in idle'
                 \/ c # None /\ \E t \in Threads, o \in Objects : conn'[t][o] = c)
<1>1. \A c : c \in UNION {Held(t)' : t \in Threads} <=>
               c # None /\ \E t \in Threads, o \in Objects : conn'[t][o] = c
  BY DEF Held
<1> QED
  BY <1>1 DEF NothingLost, Held

(* A step that leaves the pool and the objects alone. *)
LEMMA FrameClients ==
  ASSUME IInv, UNCHANGED <<scoped, poolVars, conn>>
  PROVE  /\ created' \subseteq Clients /\ idle' \subseteq created'
         /\ conn' \in [Threads -> [Objects -> Clients \cup {None}]]
         /\ ClientExclusive' /\ NothingLost'
<1>1. created' = created /\ idle' = idle /\ conn' = conn
  BY DEF poolVars
<1>2. ClientExclusive'
  BY <1>1 DEF IInv, ClientExclusive, Connected
<1>3. NothingLost'
  BY <1>1, NothingLostByClient, NothingLostByClientNext DEF IInv
<1> QED
  BY <1>1, <1>2, <1>3 DEF IInv, TypeOK

(* disconnect moves a client from its object to the pool. *)
LEMMA PushClients ==
  ASSUME IInv, NEW t \in Threads, NEW o \in Objects, Connected(t, o), PushClient(t, o)
  PROVE  /\ created' \subseteq Clients /\ idle' \subseteq created' /\ scoped' = scoped
         /\ conn' \in [Threads -> [Objects -> Clients \cup {None}]]
         /\ ClientExclusive' /\ NothingLost'
         /\ \A u \in Threads, p \in Objects :
              Connected(u, p)' <=> Connected(u, p) /\ (u # t \/ p # o)
<1> DEFINE c == conn[t][o]
<1>1. /\ c \in created \ idle /\ c # None
      /\ \A u \in Threads, p \in Objects : conn[u][p] = c => u = t /\ p = o
  BY DEF IInv, ClientExclusive, Connected
<1>2. scoped' = scoped /\ created' = created /\ idle' = idle \cup {c}
  BY DEF PushClient
<1>3. \A u \in Threads, p \in Objects :
        conn'[u][p] = IF u = t /\ p = o THEN None ELSE conn[u][p]
  BY DEF PushClient, IInv, TypeOK
<1>4. conn' \in [Threads -> [Objects -> Clients \cup {None}]]
  BY DEF PushClient, IInv, TypeOK
<1>5. ClientExclusive'
  BY <1>1, <1>2, <1>3 DEF IInv, ClientExclusive, Connected
<1>6. NothingLost'
  BY <1>1, <1>2, <1>3, NothingLostByClient, NothingLostByClientNext DEF IInv
<1>7. created' \subseteq Clients /\ idle' \subseteq created'
  BY <1>1, <1>2 DEF IInv, TypeOK
<1>8. \A u \in Threads, p \in Objects :
        Connected(u, p)' <=> Connected(u, p) /\ (u # t \/ p # o)
  BY <1>3 DEF Connected
<1> QED
  BY <1>2, <1>4, <1>5, <1>6, <1>7, <1>8

(* A client that no object has goes to the object of a waiting thread. *)
LEMMA PopClients ==
  ASSUME IInv, NEW t \in Threads, NEW c \in Clients, Pop(t, c),
         \/ c \in idle /\ idle' = idle \ {c} /\ created' = created
         \/ c \notin created /\ created' = created \cup {c} /\ idle' = idle
  PROVE  IInv'
<1> DEFINE o == target[t]
<1>1. pc[t] = "pop" /\ o \in Objects /\ ~Connected(t, o)
  BY DEF Pop, IInv, TypeOK, TargetInv
<1>2. /\ pc' = [pc EXCEPT ![t] = "connected"] /\ UNCHANGED <<scoped, scopes, target>>
      /\ conn' = [conn EXCEPT ![t][o] = c]
  BY DEF Pop, Goto
<1>3. c # None
  BY ConnectionsAssumption
<1>4. \A u \in Threads, p \in Objects :
        conn'[u][p] = IF u = t /\ p = o THEN c ELSE conn[u][p]
  BY <1>1, <1>2 DEF IInv, TypeOK
<1>5. \A u \in Threads, p \in Objects : conn[u][p] # c
  BY <1>3 DEF IInv, TypeOK, ClientExclusive, Connected
<1>6. TypeOK'
  BY <1>1, <1>2 DEF IInv, TypeOK
<1>7. TargetInv'
  BY <1>1, <1>2, <1>4 DEF IInv, TypeOK, TargetInv, Connected
<1>8. ScopeInv'
  BY <1>1, <1>2, <1>4 DEF IInv, TypeOK, ScopeInv, InScope, Connected
<1>9. ClientExclusive'
  <2>1. c \in created' \ idle'
    BY DEF IInv, TypeOK
  <2>2. \A d \in created \ idle : d \in created' /\ (d \in idle' => d = c)
    OBVIOUS
  <2> SUFFICES ASSUME NEW u \in Threads, NEW p \in Objects, conn'[u][p] # None
               PROVE  /\ conn'[u][p] \in created' \ idle'
                      /\ \A v \in Threads, q \in Objects :
                           conn'[v][q] = conn'[u][p] => v = u /\ q = p
    BY DEF ClientExclusive, Connected
  <2>3. CASE u = t /\ p = o
    BY <1>4, <1>5, <2>1, <2>3
  <2>4. CASE ~(u = t /\ p = o)
    <3>1. conn'[u][p] = conn[u][p]
      BY <1>4, <2>4
    <3>2. /\ conn[u][p] \in created \ idle
          /\ \A v \in Threads, q \in Objects :
               conn[v][q] = conn[u][p] => v = u /\ q = p
      BY <3>1 DEF IInv, ClientExclusive, Connected
    <3> QED
      BY <1>4, <1>5, <2>2, <3>1, <3>2
  <2> QED
    BY <2>3, <2>4
<1>10. conn[t][o] = None
  BY <1>1 DEF Connected
<1>11. NothingLost'
  BY <1>1, <1>2, <1>3, <1>4, <1>5, <1>10, NothingLostByClient, NothingLostByClientNext DEF IInv
<1> QED
  BY <1>6, <1>7, <1>8, <1>9, <1>11 DEF IInv

(* The initial states satisfy the invariant. *)
LEMMA InitIInv == Init => IInv
<1> SUFFICES ASSUME Init PROVE IInv
  OBVIOUS
<1> USE DEF Init
<1>1. TypeOK
  BY EmptySeq DEF TypeOK
<1>2. TargetInv /\ ScopeInv /\ ClientExclusive
  BY DEF TargetInv, ScopeInv, ClientExclusive, Connected
<1>3. NothingLost
  BY NothingLostByClient
<1> QED
  BY <1>1, <1>2, <1>3 DEF IInv

(* A step that only moves the script of one thread. *)
LEMMA MoveIInv ==
  ASSUME IInv, NEW t \in Threads, NEW label,
         UNCHANGED <<scoped, poolVars, conn, scopes>>,
         pc' = [pc EXCEPT ![t] = label],
         \/ /\ label \in {"idle", "run", "raising"} /\ UNCHANGED target
            /\ pc[t] \in {"idle", "run", "raising"}
            /\ label = "idle" => scopes[t] = <<>>
         \/ /\ label = "run" /\ pc[t] = "connected" /\ ~scoped
            /\ target' = [target EXCEPT ![t] = None]
         \/ /\ label = "pop" /\ pc[t] = "run"
            /\ \E o \in Objects : ~Connected(t, o) /\ target' = [target EXCEPT ![t] = o]
  PROVE  IInv'
<1>1. conn' = conn /\ scopes' = scopes
  OBVIOUS
<1>2. TypeOK'
  BY <1>1, FrameClients DEF IInv, TypeOK
<1>3. TargetInv'
  BY <1>1, ConnectionsAssumption DEF IInv, TypeOK, TargetInv, Connected
<1>4. ScopeInv'
  BY <1>1 DEF IInv, TypeOK, ScopeInv, InScope, Connected
<1> QED
  BY <1>2, <1>3, <1>4, FrameClients DEF IInv

(* Every step preserves the invariant. *)
LEMMA DisconnectIInv ==
  ASSUME IInv, NEW t \in Threads, NEW o \in Objects, Disconnect(t, o)
  PROVE  IInv'
<1>1. Connected(t, o) /\ PushClient(t, o) /\ UNCHANGED <<scopes, pc, target>>
  BY DEF Disconnect
<1>2. TypeOK'
  BY <1>1, PushClients DEF IInv, TypeOK
<1>3. TargetInv'
  BY <1>1, PushClients DEF IInv, TypeOK, TargetInv
<1>4. ScopeInv'
  BY <1>1, PushClients DEF IInv, ScopeInv, InScope
<1> QED
  BY <1>1, <1>2, <1>3, <1>4, PushClients DEF IInv

LEMMA EnterIInv ==
  ASSUME IInv, NEW t \in Threads, NEW o \in Objects, Enter(t, o)
  PROVE  IInv'
<1>1. /\ UNCHANGED <<scoped, poolVars, conn>>
      /\ scopes' = [scopes EXCEPT ![t] = Append(@, o)]
      /\ target' = [target EXCEPT ![t] = None] /\ pc' = [pc EXCEPT ![t] = "run"]
      /\ pc[t] = "run" \/ (pc[t] = "connected" /\ target[t] = o)
  BY DEF Enter, Goto
<1>2. scopes[t] \in Seq(Objects) /\ Append(scopes[t], o) \in Seq(Objects)
  BY DEF IInv, TypeOK
<1>3. TypeOK'
  BY <1>1, <1>2, FrameClients DEF IInv, TypeOK
<1>4. TargetInv'
  BY <1>1, ConnectionsAssumption DEF IInv, TypeOK, TargetInv, Connected
<1>5. InScope(t, o)'
  <2>1. scopes'[t] = Append(scopes[t], o)
    BY <1>1 DEF IInv, TypeOK
  <2>2. /\ Len(scopes[t]) + 1 \in 1..Len(scopes'[t])
        /\ scopes'[t][Len(scopes[t]) + 1] = o
    BY <1>2, <2>1
  <2> QED
    BY <2>2 DEF InScope
<1>6. ASSUME NEW u \in Threads, NEW p \in Objects, InScope(u, p)
      PROVE  InScope(u, p)'
  <2>1. PICK i \in 1..Len(scopes[u]) : scopes[u][i] = p
    BY <1>6 DEF InScope
  <2>2. i \in 1..Len(scopes'[u]) /\ scopes'[u][i] = scopes[u][i]
    BY <1>1, <1>2, <2>1 DEF IInv, TypeOK
  <2> QED
    BY <2>1, <2>2 DEF InScope
<1>7. ScopeInv'
  BY <1>1, <1>5, <1>6 DEF IInv, TypeOK, ScopeInv, Connected
<1> QED
  BY <1>1, <1>3, <1>4, <1>7, FrameClients DEF IInv

LEMMA LeaveIInv ==
  ASSUME IInv, NEW t \in Threads, Leave(t)
  PROVE  IInv'
<1> DEFINE o == Innermost(t)
<1>1. /\ pc[t] \in {"run", "raising"} /\ scopes[t] # <<>>
      /\ Connected(t, o) /\ PushClient(t, o)
      /\ scopes' = [scopes EXCEPT ![t] = Outer(t)] /\ UNCHANGED <<pc, target>>
  BY DEF Leave
<1>2. o \in Objects /\ Outer(t) \in Seq(Objects)
  BY <1>1, OuterScopes DEF IInv
<1>3. TypeOK'
  BY <1>1, <1>2, PushClients DEF IInv, TypeOK
<1>4. TargetInv'
  BY <1>1, <1>2, PushClients DEF IInv, TypeOK, TargetInv
<1>5. ScopeInv'
  BY <1>1, <1>2, PushClients, StaysInScope DEF IInv, ScopeInv
<1> QED
  BY <1>1, <1>2, <1>3, <1>4, <1>5, PushClients DEF IInv

LEMMA LeaveRaisesIInv ==
  ASSUME IInv, NEW t \in Threads, LeaveRaises(t)
  PROVE  IInv'
<1> DEFINE o == Innermost(t)
<1>1. /\ pc[t] \in {"run", "raising"} /\ scopes[t] # <<>> /\ ~Connected(t, o)
      /\ scopes' = [scopes EXCEPT ![t] = Outer(t)]
      /\ pc' = [pc EXCEPT ![t] = "raising"] /\ UNCHANGED <<scoped, poolVars, conn, target>>
  BY DEF LeaveRaises, Goto
<1>2. o \in Objects /\ Outer(t) \in Seq(Objects)
  BY <1>1, OuterScopes DEF IInv
<1>3. TypeOK'
  BY <1>1, <1>2, FrameClients DEF IInv, TypeOK
<1>4. TargetInv'
  BY <1>1 DEF IInv, TypeOK, TargetInv, Connected
<1>5. \A u \in Threads, p \in Objects : Connected(u, p)' <=> Connected(u, p)
  BY <1>1 DEF Connected
<1>6. ScopeInv'
  <2> SUFFICES ASSUME scoped, NEW u \in Threads, NEW p \in Objects, Connected(u, p)
               PROVE  InScope(u, p)' \/ (pc'[u] = "connected" /\ target'[u] = p)
    BY <1>1, <1>5 DEF ScopeInv
  <2>1. InScope(u, p) \/ (pc[u] = "connected" /\ target[u] = p)
    BY DEF IInv, ScopeInv
  <2>2. u # t \/ p # o
    BY <1>1
  <2>3. CASE InScope(u, p)
    BY <1>1, <2>2, <2>3, StaysInScope DEF IInv
  <2>4. CASE pc[u] = "connected" /\ target[u] = p
    BY <1>1, <2>4 DEF IInv, TypeOK
  <2> QED
    BY <2>1, <2>3, <2>4
<1> QED
  BY <1>1, <1>3, <1>4, <1>6, FrameClients DEF IInv

(* With withConnection only, no connected object is out of reach. *)
LEMMA LoseIInv ==
  ASSUME IInv, NEW t \in Threads, NEW o \in Objects, Lose(t, o)
  PROVE  IInv'
<1>1. /\ pc[t] \in {"idle", "run"} /\ Connected(t, o) /\ ~InScope(t, o)
      /\ conn' = [conn EXCEPT ![t][o] = None]
      /\ created' = created /\ idle' = idle /\ UNCHANGED <<scoped, scopes, pc, target>>
  BY DEF Lose, poolVars
<1>2. ~scoped
  BY <1>1 DEF IInv, ScopeInv
<1>3. \A u \in Threads, p \in Objects :
        conn'[u][p] = IF u = t /\ p = o THEN None ELSE conn[u][p]
  BY <1>1 DEF IInv, TypeOK
<1>4. TypeOK'
  BY <1>1 DEF IInv, TypeOK
<1>5. TargetInv'
  BY <1>1, <1>3 DEF IInv, TypeOK, TargetInv, Connected
<1>6. ClientExclusive'
  BY <1>1, <1>3 DEF IInv, ClientExclusive, Connected
<1> QED
  BY <1>1, <1>2, <1>4, <1>5, <1>6 DEF IInv, ScopeInv, NothingLost

LEMMA NextIInv == IInv /\ [Next]_vars => IInv'
<1> SUFFICES ASSUME IInv, [Next]_vars PROVE IInv'
  OBVIOUS
<1>1. CASE UNCHANGED vars
  <2>1. UNCHANGED <<scoped, poolVars, conn, scopes, pc, target>>
    BY <1>1 DEF vars
  <2>2. TypeOK' /\ TargetInv' /\ ScopeInv'
    BY <2>1, FrameClients DEF IInv, TypeOK, TargetInv, ScopeInv, InScope, Connected
  <2> QED
    BY <2>1, <2>2, FrameClients DEF IInv
<1>2. ASSUME NEW t \in Threads, Start(t) PROVE IInv'
  BY <1>2, MoveIInv DEF Start, Goto
<1>3. ASSUME NEW t \in Threads, Finish(t) PROVE IInv'
  BY <1>3, MoveIInv DEF Finish, Goto
<1>4. ASSUME NEW t \in Threads, PopIdle(t) PROVE IInv'
  <2>1. PICK c \in idle : Pop(t, c) /\ idle' = idle \ {c} /\ created' = created
    BY <1>4 DEF PopIdle
  <2>2. c \in Clients
    BY DEF IInv, TypeOK
  <2> QED
    BY <2>1, <2>2, PopClients
<1>5. ASSUME NEW t \in Threads, PopNew(t) PROVE IInv'
  BY <1>5, PopClients DEF PopNew
<1>6. ASSUME NEW t \in Threads, Use(t) PROVE IInv'
  BY <1>6, MoveIInv DEF Use, Goto
<1>7. ASSUME NEW t \in Threads, Raise(t) PROVE IInv'
  BY <1>7, MoveIInv DEF Raise, Goto
<1>8. ASSUME NEW t \in Threads, Catch(t) PROVE IInv'
  BY <1>8, MoveIInv DEF Catch, Goto
<1>9. ASSUME NEW t \in Threads, NEW o \in Objects, Connect(t, o) PROVE IInv'
  BY <1>9, MoveIInv DEF Connect, Goto
<1> QED
  BY <1>1, <1>2, <1>3, <1>4, <1>5, <1>6, <1>7, <1>8, <1>9,
     DisconnectIInv, EnterIInv, LeaveIInv, LeaveRaisesIInv, LoseIInv DEF Next

(* When all clients are out and only waiting threads have any, each client   *)
(* is with a waiting thread, at an object that is not the one it connects.   *)
LEMMA AllWithWaiting ==
  ASSUME IInv, scoped, Exhausted, \A t \in Threads \ Waiting : Held(t) = {},
         NEW c \in Clients
  PROVE  \E t \in Threads, o \in Objects :
           conn[t][o] = c /\ target[t] \in Objects /\ o # target[t]
<1>1. c # None
  BY ConnectionsAssumption
<1>2. PICK t \in Threads, o \in Objects : conn[t][o] = c
  BY <1>1, NothingLostByClient DEF IInv, Exhausted
<1>3. t \in Waiting
  BY <1>1, <1>2 DEF Held
<1>4. target[t] \in Objects /\ conn[t][target[t]] = None
  BY <1>3 DEF Waiting, IInv, TypeOK, TargetInv, Connected
<1> QED
  BY <1>1, <1>2, <1>4

(* Were all threads that have clients waiting, each client would take one of *)
(* the objects a thread has besides the one it connects, which are too few.  *)
LEMMA WaitingIsNotAll == IInv => NoDeadlock
<1> SUFFICES ASSUME IInv, scoped, LargeEnough, Waiting # {}, Exhausted,
                    \A t \in Threads \ Waiting : Held(t) = {}
             PROVE  FALSE
  BY DEF NoDeadlock
<1>1. PICK w \in Waiting : TRUE
  OBVIOUS
<1> DEFINE star == target[w]
           Slots == Threads \X (Objects \ {star})
           At(c) == CHOOSE x \in Threads \X Objects :
                      /\ conn[x[1]][x[2]] = c
                      /\ target[x[1]] \in Objects /\ x[2] # target[x[1]]
           slot == [c \in Clients |->
                      <<At(c)[1], IF At(c)[2] = star THEN target[At(c)[1]] ELSE At(c)[2]>>]
<1>2. star \in Objects
  BY <1>1 DEF Waiting, IInv, TypeOK, TargetInv
<1>3. Cardinality(Slots) < Cardinality(Clients) /\ IsFiniteSet(Slots)
  <2>1. /\ IsFiniteSet(Objects \ {star})
        /\ Cardinality(Objects \ {star}) = Cardinality(Objects) - 1
    BY <1>2, ConnectionsAssumption, FS_RemoveElement
  <2>2. /\ IsFiniteSet(Slots)
        /\ Cardinality(Slots) = Cardinality(Threads) * Cardinality(Objects \ {star})
    BY <2>1, ConnectionsAssumption, FS_Product
  <2> QED
    BY <2>1, <2>2 DEF LargeEnough
<1>4. \A c \in Clients :
        /\ At(c) \in Threads \X Objects /\ conn[At(c)[1]][At(c)[2]] = c
        /\ target[At(c)[1]] \in Objects /\ At(c)[2] # target[At(c)[1]]
  <2> TAKE c \in Clients
  <2>1. PICK t \in Threads, o \in Objects :
          conn[t][o] = c /\ target[t] \in Objects /\ o # target[t]
    BY AllWithWaiting
  <2>2. <<t, o>> \in Threads \X Objects /\ <<t, o>>[1] = t /\ <<t, o>>[2] = o
    OBVIOUS
  <2> QED
    BY <2>1, <2>2
<1> HIDE DEF At
<1>5. slot \in [Clients -> Slots]
  BY <1>2, <1>4
<1> HIDE DEF slot, Slots
<1>6. PICK c \in Clients, d \in Clients : c # d /\ slot[c] = slot[d]
  BY <1>3, <1>5, ConnectionsAssumption, FS_PigeonHole
<1> USE DEF slot
<1>7. At(c)[1] = At(d)[1] /\ At(c)[2] = At(d)[2]
  BY <1>4, <1>6
<1> QED
  BY <1>4, <1>6, <1>7

-------------------------------------------------------------------------------
(* The refinement: connections are the abstract pool of clients. *)

LEMMA HeldByObject ==
  \A t \in Threads : \A c :
    c \in Held(t) <=> c # None /\ \E o \in Objects : conn[t][o] = c
  BY DEF Held

LEMMA HeldByObjectNext ==
  \A t \in Threads : \A c :
    c \in Held(t)' <=> c # None /\ \E o \in Objects : conn'[t][o] = c
  BY DEF Held

LEMMA HeldUnion ==
  \A c : c \in UNION {Held(t) : t \in Threads} <=> \E t \in Threads : c \in Held(t)
  OBVIOUS

LEMMA HeldUnionNext ==
  \A c : c \in UNION {Held(t)' : t \in Threads} <=> \E t \in Threads : c \in Held(t)'
  OBVIOUS

(* A client nobody has is free for the abstract pool, unless it was lost. *)
LEMMA FreeClients ==
  ASSUME IInv
  PROVE  CP!Free = idle \cup (Clients \ created)
<1>1. UNION {heldBar[t] : t \in Threads} = UNION {Held(t) : t \in Threads}
  BY DEF heldBar
<1>2. ASSUME NEW t \in Threads, NEW c \in Held(t) PROVE c \in created \ idle
  BY <1>2, HeldByObject DEF IInv, ClientExclusive, Connected
<1>3. idle \subseteq created /\ created \subseteq Clients
  BY DEF IInv, TypeOK
<1> QED
  BY <1>1, <1>2, <1>3, HeldUnion DEF CP!Free, lostBar

LEMMA InitPool == Init => CP!Init
<1> SUFFICES ASSUME Init PROVE CP!Init
  OBVIOUS
<1>1. (~scoped) \in BOOLEAN
  OBVIOUS
<1>2. Waiting = {} /\ lostBar = {}
  BY DEF Init, Waiting, lostBar
<1>3. heldBar = [t \in Threads |-> {}]
  BY DEF Init, Held, heldBar
<1> QED
  BY <1>1, <1>2, <1>3 DEF CP!Init

(* A step that neither starts nor ends waiting and moves no client. *)
LEMMA PoolStutter ==
  ASSUME UNCHANGED <<scoped, poolVars, conn>>,
         \A t \in Threads : pc'[t] = "pop" <=> pc[t] = "pop"
  PROVE  UNCHANGED CP!vars
<1>1. (~scoped)' = ~scoped
  OBVIOUS
<1>2. Waiting' = Waiting
  BY DEF Waiting
<1>3. created' = created /\ idle' = idle /\ conn' = conn
  BY DEF poolVars
<1>4. heldBar' = heldBar
  BY <1>3 DEF heldBar, Held
<1>5. lostBar' = lostBar
  BY <1>3 DEF lostBar, Held
<1> QED
  BY <1>1, <1>2, <1>4, <1>5 DEF CP!vars

(* connect asks. *)
LEMMA ConnectAsks ==
  ASSUME IInv, NEW t \in Threads, NEW o \in Objects, Connect(t, o)
  PROVE  CP!Next
<1>1. /\ pc[t] = "run" /\ pc' = [pc EXCEPT ![t] = "pop"]
      /\ UNCHANGED <<scoped, poolVars, conn>>
  BY DEF Connect, Goto
<1>2. created' = created /\ idle' = idle /\ conn' = conn /\ (~scoped)' = ~scoped
  BY <1>1 DEF poolVars
<1>3. t \notin Waiting /\ Waiting' = Waiting \cup {t}
  BY <1>1 DEF Waiting, IInv, TypeOK
<1>4. heldBar' = heldBar /\ lostBar' = lostBar
  BY <1>2 DEF heldBar, lostBar, Held
<1> QED
  BY <1>2, <1>3, <1>4 DEF CP!Ask, CP!Next

(* pop hands out a client nobody has. *)
LEMMA PopTakes ==
  ASSUME IInv, NEW t \in Threads, NEW c \in Clients, Pop(t, c),
         \/ c \in idle /\ idle' = idle \ {c} /\ created' = created
         \/ c \notin created /\ created' = created \cup {c} /\ idle' = idle
  PROVE  CP!Next
<1> DEFINE o == target[t]
<1>1. /\ pc[t] = "pop" /\ pc' = [pc EXCEPT ![t] = "connected"]
      /\ conn' = [conn EXCEPT ![t][o] = c] /\ (~scoped)' = ~scoped
  BY DEF Pop, Goto
<1>2. o \in Objects /\ conn[t][o] = None
  BY <1>1 DEF IInv, TypeOK, TargetInv, Connected
<1>3. c # None /\ \A u \in Threads : c \notin Held(u)
  BY ConnectionsAssumption, HeldByObject DEF IInv, TypeOK, ClientExclusive, Connected
<1>4. \A u \in Threads, p \in Objects :
        conn'[u][p] = IF u = t /\ p = o THEN c ELSE conn[u][p]
  BY <1>1, <1>2 DEF IInv, TypeOK
<1>5. \A u \in Threads : Held(u)' = IF u = t THEN Held(u) \cup {c} ELSE Held(u)
  <2> TAKE u \in Threads
  <2>1. \A d : d \in Held(u)' <=> d \in Held(u) \/ (u = t /\ d = c)
    BY <1>2, <1>3, <1>4, HeldByObject, HeldByObjectNext
  <2> QED
    BY <2>1
<1>6. heldBar' = [heldBar EXCEPT ![t] = @ \cup {c}]
  BY <1>5 DEF heldBar
<1>7. \A d : (\E u \in Threads : d \in Held(u)') <=> d = c \/ \E u \in Threads : d \in Held(u)
  BY <1>5
<1>8. lostBar' = lostBar
  BY <1>3, <1>7, HeldUnion, HeldUnionNext DEF lostBar, IInv, TypeOK
<1>9. t \in Waiting /\ Waiting' = Waiting \ {t}
  BY <1>1 DEF Waiting, IInv, TypeOK
<1>10. c \in CP!Free
  BY FreeClients DEF IInv, TypeOK
<1>11. CP!Take(t, c)
  BY <1>1, <1>6, <1>8, <1>9, <1>10 DEF CP!Take
<1> QED
  BY <1>11 DEF CP!Next

(* An object whose _conn is reset gives up its client, and no other. *)
LEMMA ResetGivesUp ==
  ASSUME IInv, NEW t \in Threads, NEW o \in Objects, Connected(t, o),
         conn' = [conn EXCEPT ![t][o] = None]
  PROVE  /\ conn[t][o] \in heldBar[t]
         /\ heldBar' = [heldBar EXCEPT ![t] = @ \ {conn[t][o]}]
         /\ \A d : (\E u \in Threads : d \in Held(u)') <=>
                     d # conn[t][o] /\ \E u \in Threads : d \in Held(u)
<1> DEFINE c == conn[t][o]
<1>1. /\ c # None /\ c \in created \ idle
      /\ \A u \in Threads, p \in Objects : conn[u][p] = c => u = t /\ p = o
  BY DEF IInv, ClientExclusive, Connected
<1>2. \A u \in Threads, p \in Objects :
        conn'[u][p] = IF u = t /\ p = o THEN None ELSE conn[u][p]
  BY DEF IInv, TypeOK
<1>3. c \in Held(t) /\ \A u \in Threads : c \in Held(u) => u = t
  BY <1>1, HeldByObject
<1>4. \A u \in Threads : Held(u)' = IF u = t THEN Held(u) \ {c} ELSE Held(u)
  <2> TAKE u \in Threads
  <2>1. \A d : d \in Held(u)' <=> d \in Held(u) /\ (u = t => d # c)
    BY <1>1, <1>2, HeldByObject, HeldByObjectNext
  <2> QED
    BY <2>1
<1>5. heldBar' = [heldBar EXCEPT ![t] = @ \ {c}] /\ c \in heldBar[t]
  BY <1>3, <1>4 DEF heldBar
<1> QED
  BY <1>3, <1>4, <1>5

(* disconnect gives the client back. *)
LEMMA PushGives ==
  ASSUME IInv, NEW t \in Threads, NEW o \in Objects, Connected(t, o), PushClient(t, o),
         pc' = pc, pc[t] # "pop"
  PROVE  CP!Next
<1> DEFINE c == conn[t][o]
<1>1. /\ conn' = [conn EXCEPT ![t][o] = None] /\ idle' = idle \cup {c}
      /\ created' = created /\ (~scoped)' = ~scoped
  BY DEF PushClient
<1>2. c \in Clients
  BY DEF IInv, TypeOK, ClientExclusive, Connected
<1>3. lostBar' = lostBar
  <2>1. \E u \in Threads : c \in Held(u)
    BY ResetGivesUp, <1>1 DEF heldBar
  <2>2. \A d : (\E u \in Threads : d \in Held(u)') <=> d # c /\ \E u \in Threads : d \in Held(u)
    BY ResetGivesUp, <1>1
  <2>3. \A d : d \in lostBar' <=> d \in lostBar
    BY <1>1, <2>1, <2>2, HeldUnion, HeldUnionNext DEF lostBar
  <2> QED
    BY <2>3 DEF lostBar
<1>4. t \notin Waiting /\ Waiting' = Waiting
  BY DEF Waiting
<1>5. CP!Give(t, c)
  BY <1>1, <1>3, <1>4, ResetGivesUp DEF CP!Give, CP!GiveUp
<1> QED
  BY <1>2, <1>5 DEF CP!Next

(* A connected wrapper object that is collected loses its client. *)
LEMMA LoseLoses ==
  ASSUME IInv, NEW t \in Threads, NEW o \in Objects, Lose(t, o)
  PROVE  CP!Next
<1> DEFINE c == conn[t][o]
<1>1. /\ pc[t] \in {"idle", "run"} /\ Connected(t, o) /\ ~InScope(t, o)
      /\ conn' = [conn EXCEPT ![t][o] = None] /\ pc' = pc
      /\ created' = created /\ idle' = idle /\ (~scoped)' = ~scoped
  BY DEF Lose, poolVars
<1>2. ~scoped
  BY <1>1 DEF IInv, ScopeInv
<1>3. c \in created \ idle /\ c \in Clients
  BY <1>1 DEF IInv, TypeOK, ClientExclusive, Connected
<1>4. lostBar' = lostBar \cup {c}
  <2>1. \A d : (\E u \in Threads : d \in Held(u)') <=> d # c /\ \E u \in Threads : d \in Held(u)
    BY ResetGivesUp, <1>1
  <2>2. \A d : d \in lostBar' <=> d \in lostBar \/ d = c
    BY <1>1, <1>3, <2>1, HeldUnion, HeldUnionNext DEF lostBar
  <2> QED
    BY <2>2
<1>5. t \notin Waiting /\ Waiting' = Waiting
  BY <1>1 DEF Waiting
<1>6. CP!Lose(t, c)
  BY <1>1, <1>2, <1>4, <1>5, ResetGivesUp DEF CP!Lose, CP!GiveUp
<1> QED
  BY <1>3, <1>6 DEF CP!Next

-------------------------------------------------------------------------------
(* The inductive invariant holds in every reachable state. *)
THEOREM InductiveInvariant == Spec => []IInv
  BY InitIInv, NextIInv, PTL DEF Spec

(* The variables keep their types. *)
THEOREM TypeCorrect == Spec => []TypeOK
<1>1. IInv => TypeOK
  BY DEF IInv
<1> QED
  BY <1>1, InductiveInvariant, PTL

(* A client is in the pool or with one object of one thread, whatever        *)
(* scripts do: releaseConnection is only called by disconnect.               *)
THEOREM ClientsAreExclusive == Spec => []ClientExclusive
<1>1. IInv => ClientExclusive
  BY DEF IInv
<1> QED
  BY <1>1, InductiveInvariant, PTL

(* Scripts that connect only for withConnection have given back every client *)
(* when they are over, whichever way the functions they pass end.            *)
THEOREM WithConnectionReturns == Spec => []ClientsReturned
<1>1. IInv => ClientsReturned
  <2> SUFFICES ASSUME IInv, scoped, NEW t \in Threads, pc[t] = "idle",
                      NEW o \in Objects
               PROVE  conn[t][o] = None
    BY DEF ClientsReturned, Held
  <2>1. ~InScope(t, o)
    BY DEF IInv, TargetInv, InScope
  <2> QED
    BY <2>1 DEF IInv, ScopeInv, Connected
<1> QED
  BY <1>1, InductiveInvariant, PTL

(* With such scripts, every client created is in the pool or with a thread.  *)
THEOREM NoClientLost == Spec => []NothingLost
<1>1. IInv => NothingLost
  BY DEF IInv
<1> QED
  BY <1>1, InductiveInvariant, PTL

(* With such scripts and a pool that is large enough, the threads that wait  *)
(* for a client never wait only for each other.                              *)
THEOREM SomeThreadReturns == Spec => []NoDeadlock
  BY WaitingIsNotAll, InductiveInvariant, PTL

(* Connections implement the abstract pool of clients: seen from outside,    *)
(* connect waits for and takes a client nobody has, disconnect and the end   *)
(* of withConnection give back what the thread had, and a client is lost     *)
(* only when a script that does more than call withConnection lets go of a   *)
(* connected object.                                                         *)
THEOREM ImplementsClientPool == Spec => CPSpec
<1>1. ASSUME IInv, [Next]_vars
      PROVE  [CP!Next]_(CP!vars)
  <2>1. ASSUME NEW t \in Threads, NEW o \in Objects, Connect(t, o) \/ Lose(t, o)
        PROVE  CP!Next
    BY <1>1, <2>1, ConnectAsks, LoseLoses
  <2>2. ASSUME NEW t \in Threads, NEW o \in Objects, Disconnect(t, o)
        PROVE  CP!Next
    BY <1>1, <2>2, PushGives DEF Disconnect
  <2>3. ASSUME NEW t \in Threads, Leave(t)
        PROVE  CP!Next
    BY <1>1, <2>3, OuterScopes, PushGives DEF Leave, IInv
  <2>4. ASSUME NEW t \in Threads, PopIdle(t)
        PROVE  CP!Next
    <3>1. PICK c \in idle : Pop(t, c) /\ idle' = idle \ {c} /\ created' = created
      BY <2>4 DEF PopIdle
    <3>2. c \in Clients
      BY <1>1 DEF IInv, TypeOK
    <3> QED
      BY <1>1, <3>1, <3>2, PopTakes
  <2>5. ASSUME NEW t \in Threads, PopNew(t)
        PROVE  CP!Next
    BY <1>1, <2>5, PopTakes DEF PopNew
  <2>6. ASSUME NEW t \in Threads,
               \/ Start(t) \/ Finish(t) \/ Use(t) \/ Raise(t) \/ Catch(t) \/ LeaveRaises(t)
               \/ \E o \in Objects : Enter(t, o)
        PROVE  UNCHANGED CP!vars
    <3>1. /\ UNCHANGED <<scoped, poolVars, conn>> /\ pc[t] # "pop"
          /\ \E label \in {"idle", "run", "raising"} : pc' = [pc EXCEPT ![t] = label]
      BY <2>6 DEF Start, Finish, Use, Raise, Catch, LeaveRaises, Enter, Goto
    <3>2. \A u \in Threads : pc'[u] = "pop" <=> pc[u] = "pop"
      BY <1>1, <3>1 DEF IInv, TypeOK
    <3> QED
      BY <3>1, <3>2, PoolStutter
  <2>7. CASE UNCHANGED vars
    BY <2>7, PoolStutter DEF vars
  <2> QED
    BY <1>1, <2>1, <2>2, <2>3, <2>4, <2>5, <2>6, <2>7 DEF Next
<1> QED
  BY <1>1, InitPool, InductiveInvariant, PTL DEF Spec, CPSpec, CP!Spec

(* mongoc_client_pool_pop blocks a thread exactly when the abstract pool has *)
(* no client to hand out: all are with threads, or lost.                     *)
THEOREM BlocksWhenNoneFree == Spec => [](Exhausted <=> CP!Free = {})
<1>1. IInv => (Exhausted <=> CP!Free = {})
  BY FreeClients DEF Exhausted, IInv, TypeOK
<1> QED
  BY <1>1, InductiveInvariant, PTL

===============================================================================
