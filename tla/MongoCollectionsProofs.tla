------------------------ MODULE MongoCollectionsProofs ------------------------
(***************************************************************************)
(* Proofs about MongoCollections, for any threads, objects, clients and    *)
(* collections: every step is one of MongoConnections or leaves it alone,  *)
(* and a script that opens connections and collections for the with        *)
(* functions, and uses them inside, never works with a client it gave      *)
(* back, whatever the other scripts of the server do.                      *)
(***************************************************************************)
EXTENDS MongoCollections, MongoConnectionsProofs

(* What TidyInv says of a thread is about these. *)
Still(t) ==
  /\ conn'[t] = conn[t] /\ scopes'[t] = scopes[t]
  /\ pc'[t] = pc[t] /\ target'[t] = target[t]
  /\ coll'[t] = coll[t] /\ fresh'[t] = fresh[t]
  /\ blocks'[t] = blocks[t] /\ using'[t] = using[t]

LEMMA StillTidy ==
  ASSUME NEW t \in Threads, TidyInv(t), Still(t)
  PROVE  TidyInv(t)'
<1> USE DEF Still, TidyInv
<1>1. ScopesInv(t)'
  BY DEF ScopesInv, Connected, InScope
<1>2. BlocksInv(t)'
  BY DEF BlocksInv, Open
<1>3. OpenInv(t)'
  BY DEF OpenInv, Open, Enclosed
<1> QED
  BY <1>1, <1>2, <1>3

(* The types of a thread's with functions. *)
LEMMA BlockTypes ==
  ASSUME TypeOK, CTypeOK, NEW t \in Threads
  PROVE  /\ scopes[t] \in Seq(Objects) /\ Len(scopes[t]) \in Nat
         /\ blocks[t] \in Seq([colls : SUBSET Colls, depth : Nat])
         /\ Len(blocks[t]) \in Nat
         /\ \A i \in 1..Len(scopes[t]) : scopes[t][i] \in Objects
         /\ \A i \in 1..Len(blocks[t]) :
              blocks[t][i].depth \in Nat /\ blocks[t][i].colls \subseteq Colls
<1> DEFINE B == [colls : SUBSET Colls, depth : Nat]
<1>1. scopes[t] \in Seq(Objects) /\ blocks[t] \in Seq(B)
  BY DEF TypeOK, CTypeOK
<1>2. \A b \in B : b.depth \in Nat /\ b.colls \subseteq Colls
  OBVIOUS
<1> HIDE DEF B
<1>3. \A i \in 1..Len(blocks[t]) : blocks[t][i] \in B
  BY <1>1
<1> QED
  BY <1>1, <1>2, <1>3 DEF B

(* A step of MongoConnections; the collections stay as they are. *)
Steady(t) ==
  /\ UNCHANGED <<tidy, coll, fresh, blocks, using, phase>>
  /\ \A u \in Threads \ {t} :
       /\ conn'[u] = conn[u] /\ scopes'[u] = scopes[u]
       /\ pc'[u] = pc[u] /\ target'[u] = target[u]

LEMMA SteadyCInv ==
  ASSUME CInv, NEW t \in Threads, Steady(t), t \in tidy => TidyInv(t)'
  PROVE  CInv'
<1>1. CTypeOK' /\ NothingClosedTwice'
  BY DEF CInv, CTypeOK, NothingClosedTwice, Steady
<1>2. ASSUME NEW u \in tidy', u # t PROVE TidyInv(u)'
  <2>1. u \in Threads /\ TidyInv(u) /\ Still(u)
    BY <1>2 DEF Steady, Still, CInv, CTypeOK
  <2> QED
    BY <2>1, StillTidy
<1> QED
  BY <1>1, <1>2 DEF CInv, Steady

(* A step that moves the script of a tidy thread and leaves its objects and *)
(* its with functions alone.                                                *)
LEMMA MoveTidy ==
  ASSUME NEW t \in Threads, TidyInv(t), using[t] = None, Steady(t),
         conn'[t] = conn[t], scopes'[t] = scopes[t], fresh[t] = {},
         pc[t] \in {"idle", "run", "raising"},
         \/ pc'[t] \in {"run", "raising"}
         \/ pc'[t] = "idle" /\ blocks[t] = <<>>
         \/ pc'[t] = "pop" /\ ~InScope(t, target'[t])
  PROVE  TidyInv(t)'
<1> USE DEF Steady, TidyInv
<1>1. ScopesInv(t)'
  BY DEF ScopesInv, Connected, InScope
<1>2. BlocksInv(t)'
  BY DEF BlocksInv, Open
<1>3. OpenInv(t)'
  BY DEF OpenInv, Open, Enclosed
<1> QED
  BY <1>1, <1>2, <1>3

(* A collection that is open was opened on a connection still there. *)
LEMMA OpenConnected ==
  ASSUME NEW t \in Threads, TypeOK, CTypeOK, TidyInv(t), NEW k \in Colls, Open(t, k)
  PROVE  \E o \in Objects : Connected(t, o) /\ coll[t][k] = conn[t][o]
<1>1. CASE k \in fresh[t]
  BY <1>1, ConnectionsAssumption DEF TidyInv, OpenInv, Open, Connected
<1>2. CASE Enclosed(t, k)
  <2>1. PICK i \in 1..Len(blocks[t]) : k \in blocks[t][i].colls
    BY <1>2 DEF Enclosed
  <2>2. Len(scopes[t]) \in Nat /\ blocks[t][i].depth \in Nat
    BY BlockTypes
  <2>4. /\ blocks[t][i].depth <= Len(scopes[t])
        /\ \E j \in 1..blocks[t][i].depth : coll[t][k] = conn[t][scopes[t][j]]
    BY <2>1 DEF TidyInv, BlocksInv
  <2>5. PICK j \in 1..Len(scopes[t]) : coll[t][k] = conn[t][scopes[t][j]]
    BY <2>2, <2>4
  <2>6. scopes[t][j] \in Objects
    BY BlockTypes
  <2> QED
    BY <2>5, <2>6 DEF TidyInv, ScopesInv
<1> QED
  BY <1>1, <1>2 DEF TidyInv, OpenInv

(* A script whose calls of withConnection are over has nothing to close. *)
LEMMA NoScopesNoFresh ==
  ASSUME NEW t \in Threads, TypeOK, CTypeOK, TidyInv(t), scopes[t] = <<>>, pc[t] = "run"
  PROVE  fresh[t] = {}
<1> SUFFICES ASSUME NEW k \in fresh[t] PROVE FALSE
  OBVIOUS
<1>1. k \in Colls /\ Open(t, k)
  BY DEF CTypeOK, TidyInv, OpenInv
<1>2. PICK o \in Objects : Connected(t, o)
  BY <1>1, OpenConnected
<1>3. InScope(t, o)
  BY <1>2 DEF TidyInv, ScopesInv
<1> QED
  BY <1>3 DEF InScope

-------------------------------------------------------------------------------
(* The steps of MongoConnections. *)

LEMMA StartCInv ==
  ASSUME IInv, CInv, NEW t \in Threads, using[t] = None, fresh[t] = {},
         Start(t) \/ Raise(t), UNCHANGED <<tidy, collVars, phase>>
  PROVE  CInv'
<1>1. /\ UNCHANGED <<conn, scopes, target>>
      /\ pc[t] \in {"idle", "run"}
      /\ pc' = [pc EXCEPT ![t] = "run"] \/ pc' = [pc EXCEPT ![t] = "raising"]
  BY DEF Start, Raise, Goto
<1>2. Steady(t) /\ pc'[t] \in {"run", "raising"}
  BY <1>1 DEF Steady, collVars, IInv, TypeOK
<1>3. t \in tidy => TidyInv(t)'
  BY <1>1, <1>2, MoveTidy DEF CInv
<1> QED
  BY <1>2, <1>3, SteadyCInv

LEMMA OverCInv ==
  ASSUME IInv, CInv, NEW t \in Threads, using[t] = None,
         \/ Finish(t) /\ blocks[t] = <<>>
         \/ Catch(t) /\ (pc'[t] = "idle" => blocks[t] = <<>>),
         UNCHANGED <<tidy, collVars, phase>>
  PROVE  CInv'
<1>1. /\ UNCHANGED <<conn, scopes, target>>
      /\ (pc[t] = "run" /\ scopes[t] = <<>>) \/ pc[t] = "raising"
      /\ \/ pc' = [pc EXCEPT ![t] = "run"]
         \/ pc' = [pc EXCEPT ![t] = "idle"] /\ (pc'[t] = "idle" => blocks[t] = <<>>)
  BY DEF Finish, Catch, Goto
<1>2. Steady(t) /\ (pc'[t] = "run" \/ (pc'[t] = "idle" /\ blocks[t] = <<>>))
  BY <1>1 DEF Steady, collVars, IInv, TypeOK
<1>3. t \in tidy => fresh[t] = {}
  <2>1. CASE pc[t] = "raising"
    BY <2>1 DEF CInv, TidyInv, OpenInv
  <2>2. CASE pc[t] = "run" /\ scopes[t] = <<>>
    BY <2>2, NoScopesNoFresh DEF CInv, IInv
  <2> QED
    BY <1>1, <2>1, <2>2
<1>4. t \in tidy => TidyInv(t)'
  BY <1>1, <1>2, <1>3, MoveTidy DEF CInv
<1> QED
  BY <1>2, <1>4, SteadyCInv

LEMMA ConnectCInv ==
  ASSUME IInv, CInv, NEW t \in Threads, using[t] = None, fresh[t] = {},
         NEW o \in Objects, Connect(t, o), UNCHANGED <<tidy, collVars, phase>>
  PROVE  CInv'
<1>1. /\ UNCHANGED <<conn, scopes>> /\ pc[t] = "run" /\ ~Connected(t, o)
      /\ pc' = [pc EXCEPT ![t] = "pop"] /\ target' = [target EXCEPT ![t] = o]
  BY DEF Connect, Goto
<1>2. Steady(t) /\ pc'[t] = "pop" /\ target'[t] = o
  BY <1>1 DEF Steady, collVars, IInv, TypeOK
<1>3. t \in tidy => ~InScope(t, o)
  BY <1>1 DEF CInv, TidyInv, ScopesInv, InScope
<1>4. t \in tidy => TidyInv(t)'
  BY <1>1, <1>2, <1>3, MoveTidy DEF CInv
<1> QED
  BY <1>2, <1>4, SteadyCInv

LEMMA PopCInv ==
  ASSUME IInv, CInv, NEW t \in Threads, using[t] = None, fresh[t] = {},
         NEW c \in Clients, Pop(t, c), UNCHANGED <<tidy, collVars, phase>>
  PROVE  CInv'
<1> DEFINE o == target[t]
<1>1. /\ pc[t] = "pop" /\ o \in Objects
      /\ UNCHANGED <<scopes, target>> /\ pc' = [pc EXCEPT ![t] = "connected"]
      /\ conn' = [conn EXCEPT ![t][o] = c]
  BY DEF Pop, Goto, IInv, TypeOK, TargetInv
<1>2. Steady(t) /\ pc'[t] = "connected" /\ target'[t] = o
  BY <1>1 DEF Steady, collVars, IInv, TypeOK
<1>3. c # None /\ \A p \in Objects : conn'[t][p] = IF p = o THEN c ELSE conn[t][p]
  BY <1>1, ConnectionsAssumption DEF IInv, TypeOK
<1>4. ASSUME t \in tidy PROVE TidyInv(t)'
  <2>1. TidyInv(t) /\ ~InScope(t, o)
    BY <1>1, <1>4 DEF CInv, TidyInv, ScopesInv
  <2>2. \A i \in 1..Len(scopes[t]) : scopes[t][i] \in Objects /\ scopes[t][i] # o
    BY <2>1 DEF InScope, IInv, TypeOK
  <2>3. \A i \in 1..Len(scopes[t]) : conn'[t][scopes[t][i]] = conn[t][scopes[t][i]]
    BY <1>3, <2>2
  <2>4. scopes'[t] = scopes[t] /\ coll'[t] = coll[t] /\ blocks'[t] = blocks[t]
    BY <1>1, <1>2 DEF Steady
  <2>5. ScopesInv(t)'
    BY <1>1, <1>2, <1>3, <2>1, <2>3, <2>4 DEF ScopesInv, TidyInv, Connected, InScope
  <2>6. BlocksInv(t)'
    <3>1. \A i \in 1..Len(blocks[t]) :
            blocks[t][i].depth \in Nat /\ Len(scopes[t]) \in Nat
      BY BlockTypes DEF CInv, IInv
    <3>2. \A i \in 1..Len(blocks[t]) :
            /\ blocks[t][i].depth <= Len(scopes[t])
            /\ \A j \in 1..blocks[t][i].depth : j \in 1..Len(scopes[t])
      BY <2>1, <3>1 DEF BlocksInv, TidyInv
    <3> QED
      BY <1>2, <2>1, <2>3, <2>4, <3>2 DEF BlocksInv, TidyInv, Open
  <2>7. OpenInv(t)'
    BY <1>2, <2>1, <2>4 DEF OpenInv, TidyInv, Open, Enclosed, Steady
  <2> QED
    BY <2>5, <2>6, <2>7 DEF TidyInv
<1> QED
  BY <1>2, <1>4, SteadyCInv

(* withConnection of the object just connected. *)
LEMMA EnterTidy ==
  ASSUME IInv, CInv, NEW t \in tidy, using[t] = None, Steady(t),
         NEW o \in Objects, pc[t] = "connected", target[t] = o,
         conn'[t] = conn[t], scopes'[t] = Append(scopes[t], o), pc'[t] = "run"
  PROVE  TidyInv(t)'
<1> DEFINE n == Len(scopes[t])
<1>1. t \in Threads /\ TidyInv(t)
  BY DEF CInv, CTypeOK
<1>2. scopes[t] \in Seq(Objects) /\ n \in Nat
  BY <1>1, BlockTypes DEF CInv, IInv
<1>3. /\ Len(scopes'[t]) = n + 1 /\ scopes'[t][n + 1] = o
      /\ \A i \in 1..n : scopes'[t][i] = scopes[t][i]
  BY <1>2
<1>4. Connected(t, o) /\ \A i \in 1..n : scopes[t][i] # o
  BY <1>1 DEF TidyInv, ScopesInv, InScope
<1>5. \A p \in Objects : InScope(t, p) \/ p = o => InScope(t, p)'
  <2>1. 1..Len(scopes'[t]) = 1..n \cup {n + 1}
    BY <1>2, <1>3
  <2> QED
    BY <1>3, <2>1 DEF InScope
<1>6. ScopesInv(t)'
  <2>1. \A i \in 1..(n + 1) : i \in 1..n \/ i = n + 1
    BY <1>2
  <2>2. \A i \in 1..n : Connected(t, scopes[t][i])
    BY <1>1 DEF TidyInv, ScopesInv
  <2>3. \A i \in 1..(n + 1) : conn'[t][scopes'[t][i]] # None
    BY <1>3, <1>4, <2>1, <2>2 DEF Connected
  <2>4. \A i, j \in 1..(n + 1) : scopes'[t][i] = scopes'[t][j] => i = j
    BY <1>1, <1>3, <1>4, <2>1 DEF TidyInv, ScopesInv
  <2>5. \A p \in Objects : Connected(t, p)' => InScope(t, p)'
    BY <1>1, <1>5 DEF TidyInv, ScopesInv, Connected
  <2> QED
    BY <1>3, <2>3, <2>4, <2>5 DEF ScopesInv, Connected
<1>7. BlocksInv(t)'
  <2>1. \A i \in 1..Len(blocks[t]) : blocks[t][i].depth \in Nat
    BY <1>1, BlockTypes DEF CInv, IInv
  <2>2. \A i \in 1..Len(blocks[t]) :
          /\ blocks[t][i].depth <= n + 1
          /\ \A j \in 1..blocks[t][i].depth : j \in 1..n
    BY <1>1, <1>2, <2>1 DEF TidyInv, BlocksInv
  <2>3. coll'[t] = coll[t] /\ blocks'[t] = blocks[t]
    BY DEF Steady
  <2> QED
    BY <1>1, <1>3, <2>2, <2>3 DEF TidyInv, BlocksInv, Open
<1>8. OpenInv(t)'
  BY <1>1 DEF TidyInv, OpenInv, Open, Enclosed, Steady
<1> QED
  BY <1>6, <1>7, <1>8 DEF TidyInv

LEMMA EnterCInv ==
  ASSUME IInv, CInv, NEW t \in Threads, using[t] = None, NEW o \in Objects,
         t \in tidy => pc[t] = "connected", Enter(t, o),
         UNCHANGED <<tidy, collVars, phase>>
  PROVE  CInv'
<1>1. /\ conn' = conn /\ scopes' = [scopes EXCEPT ![t] = Append(@, o)]
      /\ pc' = [pc EXCEPT ![t] = "run"] /\ target' = [target EXCEPT ![t] = None]
      /\ pc[t] = "connected" => target[t] = o
  BY DEF Enter, Goto
<1>2. Steady(t) /\ pc'[t] = "run" /\ scopes'[t] = Append(scopes[t], o)
  BY <1>1 DEF Steady, collVars, IInv, TypeOK
<1>3. t \in tidy => TidyInv(t)'
  BY <1>1, <1>2, EnterTidy
<1> QED
  BY <1>2, <1>3, SteadyCInv

(* disconnect at the end of withConnection: the with functions inside it are *)
(* over, so their collections were opened on other connections.              *)
LEMMA LeaveTidy ==
  ASSUME IInv, CInv, NEW t \in tidy, using[t] = None, fresh[t] = {}, ~InBlock(t),
         Steady(t), pc[t] \in {"run", "raising"}, pc'[t] = pc[t],
         scopes[t] # <<>>, scopes'[t] = Outer(t),
         conn'[t] = [conn[t] EXCEPT ![Innermost(t)] = None]
  PROVE  TidyInv(t)'
<1> DEFINE n == Len(scopes[t])
           o == Innermost(t)
<1>1. t \in Threads /\ TidyInv(t)
  BY DEF CInv, CTypeOK
<1>2. /\ n \in Nat /\ Len(blocks[t]) \in Nat
      /\ \A i \in 1..n : scopes[t][i] \in Objects
      /\ \A i \in 1..Len(blocks[t]) : blocks[t][i].depth \in Nat
  BY <1>1, BlockTypes DEF CInv, IInv
<1>3. /\ o \in Objects /\ Len(scopes'[t]) = n - 1
      /\ \A i \in 1..(n - 1) : scopes'[t][i] = scopes[t][i]
  BY <1>1, OuterScopes DEF IInv
<1>4. n > 0
  BY <1>1, <1>2, EmptySeq DEF IInv, TypeOK
<1>5. \A i \in 1..(n - 1) : i \in 1..n /\ scopes[t][i] # o
  BY <1>1, <1>2, <1>4 DEF TidyInv, ScopesInv, Innermost
<1>6. \A p \in Objects : conn'[t][p] = IF p = o THEN None ELSE conn[t][p]
  BY <1>1 DEF IInv, TypeOK
<1>7. \A i \in 1..(n - 1) : conn'[t][scopes[t][i]] = conn[t][scopes[t][i]]
  BY <1>2, <1>5, <1>6
<1>8. ScopesInv(t)'
  <2>1. \A p \in Objects : Connected(t, p)' => p # o /\ Connected(t, p)
    BY <1>6 DEF Connected
  <2>2. \A p \in Objects : p # o /\ Connected(t, p) => \E i \in 1..n : scopes[t][i] = p
    BY <1>1 DEF TidyInv, ScopesInv, InScope
  <2>3. \A i \in 1..n : i \in 1..(n - 1) \/ scopes[t][i] = o
    BY <1>2, <1>4 DEF Innermost
  <2>4. \A p \in Objects : Connected(t, p)' => InScope(t, p)'
    BY <1>3, <2>1, <2>2, <2>3 DEF InScope
  <2>5. \A i \in 1..(n - 1) : conn'[t][scopes'[t][i]] # None
    BY <1>1, <1>3, <1>5, <1>7 DEF TidyInv, ScopesInv, Connected
  <2>6. \A i, j \in 1..(n - 1) : scopes'[t][i] = scopes'[t][j] => i = j
    BY <1>1, <1>3, <1>5 DEF TidyInv, ScopesInv
  <2> QED
    BY <1>3, <2>4, <2>5, <2>6 DEF ScopesInv, Connected
<1>9. BlocksInv(t)'
  <2>1. \A i \in 1..Len(blocks[t]) : blocks[t][i].depth <= n - 1
    <3> TAKE i \in 1..Len(blocks[t])
    <3> DEFINE m == Len(blocks[t])
    <3>1. blocks[t] # <<>> /\ m \in 1..m
      BY <1>2, EmptySeq
    <3>2. blocks[t][m].depth # n
      BY <3>1 DEF InBlock, Last
    <3>3. blocks[t][m].depth <= n /\ (i < m => blocks[t][i].depth <= blocks[t][m].depth)
      BY <1>1, <3>1 DEF TidyInv, BlocksInv
    <3> QED
      BY <1>2, <3>1, <3>2, <3>3
  <2>2. \A i \in 1..Len(blocks[t]) : \A j \in 1..blocks[t][i].depth : j \in 1..(n - 1)
    BY <1>2, <2>1
  <2>3. coll'[t] = coll[t] /\ blocks'[t] = blocks[t]
    BY DEF Steady
  <2>4. ASSUME NEW i \in 1..Len(blocks[t]), NEW k \in blocks[t][i].colls
        PROVE  /\ Open(t, k)
               /\ \E j \in 1..blocks[t][i].depth : coll[t][k] = conn'[t][scopes'[t][j]]
    <3>1. Open(t, k) /\ \E j \in 1..blocks[t][i].depth : coll[t][k] = conn[t][scopes[t][j]]
      BY <1>1, <2>4 DEF TidyInv, BlocksInv
    <3>2. PICK j \in 1..blocks[t][i].depth : coll[t][k] = conn[t][scopes[t][j]]
      BY <3>1
    <3>3. j \in 1..(n - 1)
      BY <2>2, <3>2
    <3>4. conn'[t][scopes'[t][j]] = conn[t][scopes[t][j]]
      BY <1>3, <1>7, <3>3
    <3> QED
      BY <3>1, <3>2, <3>4
  <2>5. \A i \in 1..Len(blocks[t]) :
          /\ blocks[t][i].depth <= n - 1
          /\ \A k \in blocks[t][i].colls :
               /\ Open(t, k)
               /\ \E j \in 1..blocks[t][i].depth : coll[t][k] = conn'[t][scopes'[t][j]]
    BY <2>1, <2>4
  <2>6. /\ \A i, j \in 1..Len(blocks[t]) :
             i < j => /\ blocks[t][i].depth <= blocks[t][j].depth
                      /\ blocks[t][i].colls \cap blocks[t][j].colls = {}
        /\ pc'[t] # "idle"
    BY <1>1 DEF TidyInv, BlocksInv
  <2> QED
    BY <1>3, <2>3, <2>5, <2>6 DEF BlocksInv, Open
<1>10. OpenInv(t)'
  BY <1>1 DEF TidyInv, OpenInv, Open, Enclosed, Steady
<1> QED
  BY <1>8, <1>9, <1>10 DEF TidyInv

LEMMA LeaveCInv ==
  ASSUME IInv, CInv, NEW t \in Threads, using[t] = None, fresh[t] = {}, ~InBlock(t),
         Leave(t), UNCHANGED <<tidy, collVars, phase>>
  PROVE  CInv'
<1>1. /\ pc[t] \in {"run", "raising"} /\ scopes[t] # <<>> /\ UNCHANGED <<pc, target>>
      /\ scopes' = [scopes EXCEPT ![t] = Outer(t)]
      /\ conn' = [conn EXCEPT ![t][Innermost(t)] = None]
  BY DEF Leave, PushClient
<1>2. /\ Steady(t) /\ pc'[t] = pc[t] /\ scopes'[t] = Outer(t)
      /\ conn'[t] = [conn[t] EXCEPT ![Innermost(t)] = None]
  BY <1>1 DEF Steady, collVars, IInv, TypeOK
<1>3. t \in tidy => TidyInv(t)'
  BY <1>1, <1>2, LeaveTidy
<1> QED
  BY <1>2, <1>3, SteadyCInv

(* disconnect finds a tidy script connected, and it reaches its objects. *)
LEMMA UntidyCInv ==
  ASSUME IInv, CInv, NEW t \in Threads,
         \/ t \notin tidy /\ Use(t)
         \/ LeaveRaises(t)
         \/ \E o \in Objects : (t \notin tidy /\ Disconnect(t, o)) \/ Lose(t, o),
         UNCHANGED <<tidy, collVars, phase>>
  PROVE  CInv'
<1>1. t \notin tidy
  <2> SUFFICES ASSUME t \in tidy, LeaveRaises(t) \/ \E o \in Objects : Lose(t, o)
               PROVE  FALSE
    OBVIOUS
  <2>1. TidyInv(t)
    BY DEF CInv
  <2>2. CASE LeaveRaises(t)
    <3>1. scopes[t] # <<>> /\ ~Connected(t, Innermost(t))
      BY <2>2 DEF LeaveRaises
    <3>2. Len(scopes[t]) \in 1..Len(scopes[t])
      BY <3>1, EmptySeq DEF IInv, TypeOK
    <3> QED
      BY <2>1, <3>1, <3>2 DEF TidyInv, ScopesInv, Innermost
  <2>3. CASE \E o \in Objects : Lose(t, o)
    BY <2>1, <2>3 DEF Lose, TidyInv, ScopesInv
  <2> QED
    BY <2>2, <2>3
<1>2. Steady(t)
  BY DEF Use, LeaveRaises, Disconnect, PushClient, Lose, Goto, Steady, collVars, IInv, TypeOK
<1> QED
  BY <1>1, <1>2, SteadyCInv

LEMMA ConnectionsCInv ==
  ASSUME IInv, CInv, NEW t \in Threads, using[t] = None, Connections(t)
  PROVE  CInv'
<1>1. UNCHANGED <<tidy, collVars, phase>>
  BY DEF Connections
<1>2. CASE fresh[t] = {} /\ PopIdle(t)
  <2>1. PICK c \in idle : Pop(t, c)
    BY <1>2 DEF PopIdle
  <2>2. c \in Clients
    BY DEF IInv, TypeOK
  <2> QED
    BY <1>1, <1>2, <2>1, <2>2, PopCInv
<1>3. CASE fresh[t] = {} /\ PopNew(t)
  BY <1>1, <1>3, PopCInv DEF PopNew
<1> QED
  BY <1>1, <1>2, <1>3, StartCInv, OverCInv, ConnectCInv, EnterCInv, LeaveCInv, UntidyCInv
     DEF Connections

-------------------------------------------------------------------------------
(* The steps of the collections. *)

(* One of thread t. *)
Only(t) ==
  /\ UNCHANGED <<vars, tidy>>
  /\ \A u \in Threads \ {t} :
       /\ coll'[u] = coll[u] /\ fresh'[u] = fresh[u]
       /\ blocks'[u] = blocks[u] /\ using'[u] = using[u]

LEMMA OnlyCInv ==
  ASSUME CInv, NEW t \in Threads, Only(t), CTypeOK', NothingClosedTwice',
         t \in tidy => TidyInv(t)'
  PROVE  CInv'
<1>1. UNCHANGED <<conn, scopes, pc, target>> /\ tidy' = tidy
  BY DEF Only, vars
<1>2. ASSUME NEW u \in tidy', u # t PROVE TidyInv(u)'
  <2>1. u \in Threads /\ TidyInv(u)
    BY <1>1, <1>2 DEF CInv, CTypeOK
  <2>2. Still(u)
    BY <1>1, <1>2, <2>1 DEF Only, Still
  <2> QED
    BY <2>1, <2>2, StillTidy
<1> QED
  BY <1>1, <1>2 DEF CInv

LEMMA ScopesStay ==
  ASSUME NEW t \in Threads, UNCHANGED vars, ScopesInv(t)
  PROVE  ScopesInv(t)'
  BY DEF vars, ScopesInv, Connected, InScope

LEMMA GetCollectionCInv ==
  ASSUME IInv, CInv, NEW t \in Threads, using[t] = None,
         NEW o \in Objects, NEW k \in Colls, GetCollection(t, o, k)
  PROVE  CInv'
<1>1. /\ pc[t] \in {"run", "connected"} /\ Connected(t, o) /\ coll[t][k] = None
      /\ coll' = [coll EXCEPT ![t][k] = conn[t][o]]
      /\ fresh' = [fresh EXCEPT ![t] = IF t \in tidy THEN @ \cup {k} ELSE @]
      /\ UNCHANGED <<vars, tidy, blocks, using, phase>>
  BY DEF GetCollection
<1>2. conn[t][o] \in Clients /\ UNCHANGED <<conn, scopes, pc, target>>
  BY <1>1 DEF IInv, TypeOK, Connected, vars
<1>3. coll'[t] = [coll[t] EXCEPT ![k] = conn[t][o]]
  BY <1>1 DEF CInv, CTypeOK
<1>4. Only(t) /\ CTypeOK' /\ NothingClosedTwice'
  BY <1>1, <1>2 DEF Only, CInv, CTypeOK, NothingClosedTwice
<1>5. ASSUME t \in tidy PROVE TidyInv(t)'
  <2>1. TidyInv(t) /\ coll[t] \in [Colls -> Clients \cup {None, Null}]
    BY <1>5 DEF CInv, CTypeOK
  <2>2. ~Open(t, k)
    BY <1>1, ConnectionsAssumption DEF Open
  <2>3. fresh'[t] = fresh[t] \cup {k} /\ blocks'[t] = blocks[t]
    BY <1>1, <1>5 DEF CInv, CTypeOK
  <2>4. \A j \in Colls : coll'[t][j] = IF j = k THEN conn[t][o] ELSE coll[t][j]
    BY <1>3, <2>1
  <2>5. fresh[t] \subseteq Colls
    BY DEF CInv, CTypeOK
  <2>6. \A i \in 1..Len(blocks[t]) : \A j \in blocks[t][i].colls :
          j \in Colls /\ coll'[t][j] = coll[t][j]
    BY <2>1, <2>2, <2>4, BlockTypes DEF CInv, IInv, TidyInv, BlocksInv
  <2>7. BlocksInv(t)'
    BY <1>2, <2>1, <2>3, <2>6 DEF TidyInv, BlocksInv, Open
  <2>8. ~Enclosed(t, k)
    BY <2>1, <2>2 DEF TidyInv, BlocksInv, Enclosed
  <2>9. OpenInv(t)'
    <3>1. \A j \in Colls : Enclosed(t, j)' <=> Enclosed(t, j)
      BY <2>3 DEF Enclosed
    <3>2. \A j \in fresh'[t] : Open(t, j)' /\ ~Enclosed(t, j)' /\ \E p \in Objects : coll'[t][j] = conn'[t][p]
      BY <1>2, <2>1, <2>3, <2>4, <2>5, <2>8, <3>1 DEF TidyInv, OpenInv, Open
    <3>3. \A j \in Colls : Open(t, j)' => j \in fresh'[t] \/ Enclosed(t, j)'
      BY <2>1, <2>3, <2>4, <3>1 DEF TidyInv, OpenInv, Open
    <3> QED
      BY <1>1, <1>2, <3>2, <3>3 DEF OpenInv
  <2> QED
    BY <1>1, <2>1, <2>7, <2>9, ScopesStay DEF TidyInv
<1> QED
  BY <1>4, <1>5, OnlyCInv

(* The new with function is the innermost one. *)
LEMMA EnterBlockTidy ==
  ASSUME IInv, CInv, NEW t \in tidy, using[t] = None, pc[t] = "run", UNCHANGED vars,
         blocks'[t] = Append(blocks[t], [colls |-> fresh[t], depth |-> Len(scopes[t])]),
         fresh'[t] = {}, coll'[t] = coll[t], using'[t] = None
  PROVE  TidyInv(t)'
<1> DEFINE m == Len(blocks[t])
           n == Len(scopes[t])
<1>1. t \in Threads /\ TidyInv(t) /\ fresh[t] \subseteq Colls
  BY DEF CInv, CTypeOK
<1>2. UNCHANGED <<conn, scopes, pc, target>>
  BY DEF vars
<1>3. /\ n \in Nat /\ m \in Nat
      /\ blocks[t] \in Seq([colls : SUBSET Colls, depth : Nat])
      /\ \A i \in 1..m : blocks[t][i].depth \in Nat
  BY <1>1, BlockTypes DEF CInv, IInv
<1>4. /\ Len(blocks'[t]) = m + 1
      /\ blocks'[t][m + 1] = [colls |-> fresh[t], depth |-> n]
      /\ \A i \in 1..m : blocks'[t][i] = blocks[t][i]
  BY <1>1, <1>3
<1>5. \A i \in 1..(m + 1) : i \in 1..m \/ i = m + 1
  BY <1>3
<1>6. \A i \in 1..m : i \in 1..(m + 1) /\ i # m + 1
  BY <1>3
<1>7. m + 1 \in 1..(m + 1)
  BY <1>3
<1>8. \A k \in fresh[t] : Open(t, k) /\ \E j \in 1..n : coll[t][k] = conn[t][scopes[t][j]]
  <2> TAKE k \in fresh[t]
  <2>1. Open(t, k)
    BY <1>1 DEF TidyInv, OpenInv
  <2>2. PICK o \in Objects : Connected(t, o) /\ coll[t][k] = conn[t][o]
    BY <1>1, <2>1, OpenConnected DEF IInv, CInv
  <2>3. InScope(t, o)
    BY <1>1, <2>2 DEF TidyInv, ScopesInv
  <2> QED
    BY <2>1, <2>2, <2>3 DEF InScope
<1>9. \A k \in Colls : Enclosed(t, k)' <=> Enclosed(t, k) \/ k \in fresh[t]
  BY <1>4, <1>5, <1>6, <1>7 DEF Enclosed
<1>10. BlocksInv(t)'
  <2>1. \A i \in 1..(m + 1) :
          /\ blocks'[t][i].depth <= n
          /\ \A k \in blocks'[t][i].colls :
               /\ Open(t, k)
               /\ \E j \in 1..blocks'[t][i].depth : coll[t][k] = conn[t][scopes[t][j]]
    <3>1. \A i \in 1..m :
            /\ blocks'[t][i].depth <= n
            /\ \A k \in blocks'[t][i].colls :
                 /\ Open(t, k)
                 /\ \E j \in 1..blocks'[t][i].depth : coll[t][k] = conn[t][scopes[t][j]]
      BY <1>1, <1>4 DEF TidyInv, BlocksInv
    <3>2. blocks'[t][m + 1].depth = n /\ blocks'[t][m + 1].colls = fresh[t] /\ n <= n
      BY <1>3, <1>4
    <3> QED
      BY <1>5, <1>8, <3>1, <3>2
  <2>2. ASSUME NEW i \in 1..(m + 1), NEW j \in 1..(m + 1), i < j
        PROVE  /\ blocks'[t][i].depth <= blocks'[t][j].depth
               /\ blocks'[t][i].colls \cap blocks'[t][j].colls = {}
    <3>1. i \in 1..m
      BY <1>3, <2>2
    <3>2. CASE j \in 1..m
      BY <1>1, <1>4, <2>2, <3>1, <3>2 DEF TidyInv, BlocksInv
    <3>3. CASE j = m + 1
      <4>1. blocks[t][i].depth <= n
        BY <1>1, <3>1 DEF TidyInv, BlocksInv
      <4>2. \A k \in fresh[t] : k \notin blocks[t][i].colls
        BY <1>1, <3>1 DEF TidyInv, OpenInv, Enclosed
      <4> QED
        BY <1>4, <3>1, <3>3, <4>1, <4>2
    <3> QED
      BY <1>5, <3>2, <3>3
  <2> QED
    BY <1>2, <1>4, <2>1, <2>2 DEF BlocksInv, Open
<1>11. OpenInv(t)'
  BY <1>1, <1>9 DEF TidyInv, OpenInv, Open
<1> QED
  BY <1>1, <1>10, <1>11, ScopesStay DEF TidyInv

LEMMA EnterBlockCInv ==
  ASSUME IInv, CInv, NEW t \in Threads, using[t] = None,
         NEW ks \in SUBSET Colls, EnterBlock(t, ks)
  PROVE  CInv'
<1> DEFINE b == [colls |-> ks, depth |-> Len(scopes[t])]
<1>1. /\ pc[t] = "run" /\ (t \in tidy => ks = fresh[t])
      /\ blocks' = [blocks EXCEPT ![t] = Append(@, b)]
      /\ fresh' = [fresh EXCEPT ![t] = {}]
      /\ UNCHANGED <<vars, tidy, coll, using, phase>>
  BY DEF EnterBlock
<1>2. b \in [colls : SUBSET Colls, depth : Nat]
  BY BlockTypes DEF CInv, IInv
<1> HIDE DEF b
<1>3. blocks'[t] = Append(blocks[t], b) /\ fresh'[t] = {}
  BY <1>1 DEF CInv, CTypeOK
<1>4. Append(blocks[t], b) \in Seq([colls : SUBSET Colls, depth : Nat])
  <2> DEFINE B == [colls : SUBSET Colls, depth : Nat]
  <2>1. blocks[t] \in Seq(B)
    BY DEF CInv, CTypeOK
  <2>2. b \in B
    BY <1>2
  <2> HIDE DEF B
  <2>3. Append(blocks[t], b) \in Seq(B)
    BY <2>1, <2>2
  <2> QED
    BY <2>3 DEF B
<1>5. Only(t) /\ CTypeOK' /\ NothingClosedTwice'
  BY <1>1, <1>4 DEF Only, CInv, CTypeOK, NothingClosedTwice
<1>6. t \in tidy => TidyInv(t)'
  BY <1>1, <1>3, EnterBlockTidy DEF b
<1> QED
  BY <1>5, <1>6, OnlyCInv

(* Leaving the innermost with function leaves those around it. *)
LEMMA PoppedBlock ==
  ASSUME IInv, CInv, NEW t \in Threads, PopBlock(t)
  PROVE  /\ blocks'[t] \in Seq([colls : SUBSET Colls, depth : Nat])
         /\ Len(blocks[t]) \in Nat \ {0} /\ Len(blocks'[t]) = Len(blocks[t]) - 1
         /\ \A i \in 1..Len(blocks'[t]) : blocks'[t][i] = blocks[t][i]
         /\ Last(t).colls \subseteq Colls
<1> DEFINE B == [colls : SUBSET Colls, depth : Nat]
<1>1. blocks[t] \in Seq(B) /\ blocks[t] # <<>>
  BY DEF CInv, CTypeOK, PopBlock, InBlock
<1>2. blocks'[t] = SubSeq(blocks[t], 1, Len(blocks[t]) - 1)
  BY DEF PopBlock, CInv, CTypeOK
<1> HIDE DEF B
<1>3. Len(blocks[t]) \in Nat \ {0}
  BY <1>1, EmptySeq
<1>4. \A i \in 1..Len(blocks[t]) : blocks[t][i] \in B
  BY <1>1
<1>5. /\ blocks'[t] \in Seq(B) /\ Len(blocks'[t]) = Len(blocks[t]) - 1
      /\ \A i \in 1..Len(blocks'[t]) : blocks'[t][i] = blocks[t][i]
  BY <1>1, <1>2, <1>3, <1>4, SubSeqProperties
<1>6. Len(blocks[t]) \in 1..Len(blocks[t])
  BY <1>3
<1>7. Last(t).colls \subseteq Colls
  BY <1>6, BlockTypes DEF Last, CInv, IInv
<1> QED
  BY <1>3, <1>5, <1>7 DEF B

(* It closes its own collections, which no other with function closes. *)
LEMMA LeaveBlockTidy ==
  ASSUME IInv, CInv, NEW t \in tidy, using[t] = None, LeaveBlock(t)
  PROVE  TidyInv(t)'
<1> DEFINE m == Len(blocks[t])
           ks == Last(t).colls
<1>1. t \in Threads /\ TidyInv(t)
  BY DEF CInv, CTypeOK
<1>2. /\ pc[t] \in {"run", "raising"} /\ fresh[t] = {} /\ PopBlock(t)
      /\ coll' = [coll EXCEPT ![t] = [k \in Colls |-> IF k \in ks THEN Null ELSE @[k]]]
      /\ UNCHANGED <<vars, tidy, fresh, using>>
  BY DEF LeaveBlock, PopBlock, CloseAll
<1>3. UNCHANGED <<conn, scopes, pc, target>>
  BY <1>2 DEF vars
<1>4. /\ m \in Nat \ {0} /\ Len(blocks'[t]) = m - 1 /\ ks \subseteq Colls
      /\ \A i \in 1..(m - 1) : blocks'[t][i] = blocks[t][i]
  BY <1>1, <1>2, PoppedBlock
<1>5. \A k \in Colls : coll'[t][k] = IF k \in ks THEN Null ELSE coll[t][k]
  BY <1>1, <1>2 DEF CInv, CTypeOK
<1>6. /\ m \in 1..m /\ Last(t) = blocks[t][m]
      /\ \A i \in 1..(m - 1) : i \in 1..m /\ i < m
      /\ \A i \in 1..m : i \in 1..(m - 1) \/ i = m
  BY <1>4 DEF Last
<1>7. \A k \in Colls : Open(t, k)' <=> Open(t, k) /\ k \notin ks
  BY <1>5, CollectionsAssumption DEF Open
<1>8. \A i \in 1..(m - 1) : \A k \in blocks[t][i].colls :
        k \in Colls /\ k \notin ks /\ coll'[t][k] = coll[t][k]
  <2> TAKE i \in 1..(m - 1)
  <2>1. blocks[t][i].colls \cap ks = {}
    BY <1>1, <1>6 DEF TidyInv, BlocksInv
  <2>2. blocks[t][i].colls \subseteq Colls
    BY <1>1, <1>6, BlockTypes DEF CInv, IInv
  <2> QED
    BY <1>5, <2>1, <2>2
<1>9. BlocksInv(t)'
  <2>1. \A i \in 1..(m - 1) :
          /\ blocks[t][i].depth <= Len(scopes[t])
          /\ \A k \in blocks[t][i].colls :
               /\ Open(t, k)'
               /\ \E j \in 1..blocks[t][i].depth : coll'[t][k] = conn[t][scopes[t][j]]
    BY <1>1, <1>6, <1>7, <1>8 DEF TidyInv, BlocksInv
  <2>2. \A i, j \in 1..(m - 1) :
          i < j => /\ blocks[t][i].depth <= blocks[t][j].depth
                   /\ blocks[t][i].colls \cap blocks[t][j].colls = {}
    BY <1>1, <1>6 DEF TidyInv, BlocksInv
  <2>3. pc'[t] # "idle" /\ scopes'[t] = scopes[t] /\ conn'[t] = conn[t]
    BY <1>2, <1>3
  <2>4. \A i, j \in 1..Len(blocks'[t]) :
          i < j => /\ blocks'[t][i].depth <= blocks'[t][j].depth
                   /\ blocks'[t][i].colls \cap blocks'[t][j].colls = {}
    BY <1>4, <2>2
  <2>5. \A i \in 1..Len(blocks'[t]) :
          /\ blocks'[t][i].depth <= Len(scopes'[t])
          /\ \A k \in blocks'[t][i].colls :
               /\ Open(t, k)'
               /\ \E j \in 1..blocks'[t][i].depth : coll'[t][k] = conn'[t][scopes'[t][j]]
    BY <1>4, <2>1, <2>3
  <2> QED
    BY <2>3, <2>4, <2>5 DEF BlocksInv
<1>10. OpenInv(t)'
  <2>1. ASSUME NEW k \in Colls, Open(t, k)' PROVE Enclosed(t, k)'
    <3>1. Open(t, k) /\ k \notin ks
      BY <1>7, <2>1
    <3>2. PICK i \in 1..m : k \in blocks[t][i].colls
      BY <1>1, <1>2, <3>1 DEF TidyInv, OpenInv, Enclosed
    <3>3. i \in 1..(m - 1)
      BY <1>6, <3>1, <3>2
    <3> QED
      BY <1>4, <3>2, <3>3 DEF Enclosed
  <2>2. fresh'[t] = {} /\ using'[t] = None
    BY <1>2
  <2> QED
    BY <2>1, <2>2 DEF OpenInv
<1> QED
  BY <1>1, <1>2, <1>9, <1>10, ScopesStay DEF TidyInv

LEMMA LeaveBlockCInv ==
  ASSUME IInv, CInv, NEW t \in Threads, using[t] = None, LeaveBlock(t)
  PROVE  CInv'
<1>1. /\ PopBlock(t) /\ blocks' = [blocks EXCEPT ![t] = SubSeq(@, 1, Len(@) - 1)]
      /\ coll' = [coll EXCEPT ![t] = [k \in Colls |-> IF k \in Last(t).colls THEN Null ELSE @[k]]]
      /\ UNCHANGED <<vars, tidy, fresh, using, phase>>
  BY DEF LeaveBlock, PopBlock, CloseAll
<1>2. blocks'[t] \in Seq([colls : SUBSET Colls, depth : Nat])
  BY <1>1, PoppedBlock
<1>3. Only(t)
  BY <1>1 DEF Only, CInv, CTypeOK
<1>4. blocks' \in [Threads -> Seq([colls : SUBSET Colls, depth : Nat])]
  BY <1>1, <1>2 DEF CInv, CTypeOK
<1>5. coll' \in [Threads -> [Colls -> Clients \cup {None, Null}]]
  BY <1>1 DEF CInv, CTypeOK
<1>6. CTypeOK' /\ NothingClosedTwice'
  BY <1>1, <1>4, <1>5 DEF CInv, CTypeOK, NothingClosedTwice
<1>7. t \in tidy => TidyInv(t)'
  BY LeaveBlockTidy
<1> QED
  BY <1>3, <1>6, <1>7, OnlyCInv

(* The steps with which only an untidy script goes wrong. *)
LEMMA UndefinedCInv ==
  ASSUME IInv, CInv, NEW t \in Threads,
         \/ ClosedAgain(t)
         \/ \E k \in Colls : UseClosed(t, k)
  PROVE  CInv'
<1>1. phase' = "undefined" /\ UNCHANGED <<vars, tidy, collVars>>
  BY DEF ClosedAgain, UseClosed
<1>2. \A k \in Colls : coll[t][k] = Null => ~Open(t, k)
  BY CollectionsAssumption DEF Open
<1>3. t \in tidy => \A k \in Colls : Enclosed(t, k) => Open(t, k)
  BY DEF CInv, TidyInv, BlocksInv, Enclosed
<1>4. t \notin tidy
  <2>1. CASE \E k \in Colls : UseClosed(t, k)
    BY <1>2, <1>3, <2>1 DEF UseClosed
  <2>2. CASE ClosedAgain(t)
    <3>1. PICK k \in Last(t).colls : coll[t][k] = Null
      BY <2>2 DEF ClosedAgain
    <3>2. Len(blocks[t]) \in 1..Len(blocks[t])
      BY <2>2, EmptySeq DEF ClosedAgain, InBlock, CInv, CTypeOK
    <3>3. k \in Colls /\ Enclosed(t, k)
      BY <3>2, BlockTypes DEF Last, Enclosed, CInv, IInv
    <3> QED
      BY <1>2, <1>3, <3>1, <3>3
  <2> QED
    BY <2>1, <2>2
<1>5. Only(t) /\ CTypeOK' /\ NothingClosedTwice'
  BY <1>1, <1>4 DEF Only, collVars, CInv, CTypeOK, NothingClosedTwice
<1> QED
  BY <1>4, <1>5, OnlyCInv

LEMMA CloseCInv ==
  ASSUME IInv, CInv, NEW t \in Threads, NEW k \in Colls, Close(t, k)
  PROVE  CInv'
<1>1. /\ t \notin tidy
      /\ coll' = [coll EXCEPT ![t] = [j \in Colls |-> IF j \in {k} THEN Null ELSE @[j]]]
      /\ UNCHANGED <<vars, tidy, fresh, blocks, using, phase>>
  BY DEF Close, CloseAll
<1>2. coll' \in [Threads -> [Colls -> Clients \cup {None, Null}]]
  BY <1>1 DEF CInv, CTypeOK
<1>3. Only(t) /\ CTypeOK' /\ NothingClosedTwice'
  BY <1>1, <1>2 DEF Only, CInv, CTypeOK, NothingClosedTwice
<1> QED
  BY <1>1, <1>3, OnlyCInv

LEMMA ForgetCInv ==
  ASSUME IInv, CInv, NEW t \in Threads, NEW k \in Colls, Forget(t, k)
  PROVE  CInv'
<1>1. /\ k \notin fresh[t] /\ ~Enclosed(t, k) /\ (Open(t, k) => t \notin tidy)
      /\ coll' = [coll EXCEPT ![t][k] = None]
      /\ UNCHANGED <<vars, tidy, fresh, blocks, using, phase>>
  BY DEF Forget
<1>2. Only(t) /\ CTypeOK' /\ NothingClosedTwice'
  BY <1>1 DEF Only, CInv, CTypeOK, NothingClosedTwice
<1>3. UNCHANGED <<conn, scopes, pc, target>>
  BY <1>1 DEF vars
<1>4. ASSUME t \in tidy PROVE TidyInv(t)'
  <2>1. TidyInv(t) /\ fresh[t] \subseteq Colls
    BY <1>4 DEF CInv, CTypeOK
  <2>2. \A j \in Colls : coll'[t][j] = IF j = k THEN None ELSE coll[t][j]
    BY <1>1 DEF CInv, CTypeOK
  <2>3. \A j \in Colls : Open(t, j)' <=> Open(t, j)
    BY <1>1, <1>4, <2>2, ConnectionsAssumption DEF Open
  <2>4. \A i \in 1..Len(blocks[t]) : \A j \in blocks[t][i].colls :
          j \in Colls /\ coll'[t][j] = coll[t][j] /\ (Open(t, j) => Open(t, j)')
    BY <1>1, <2>2, <2>3, BlockTypes DEF CInv, IInv, Enclosed
  <2>5. BlocksInv(t)'
    BY <1>1, <1>3, <2>1, <2>4 DEF TidyInv, BlocksInv
  <2>6. \A j \in Colls : Enclosed(t, j)' <=> Enclosed(t, j)
    BY <1>1 DEF Enclosed
  <2>7. \A j \in fresh[t] : j \in Colls /\ coll'[t][j] = coll[t][j]
    BY <1>1, <2>1, <2>2
  <2>8. \A j \in Colls : Enclosed(t, j) => coll'[t][j] = coll[t][j]
    BY <1>1, <2>2
  <2>9. OpenInv(t)'
    BY <1>1, <1>3, <2>1, <2>3, <2>6, <2>7, <2>8 DEF TidyInv, OpenInv
  <2> QED
    BY <1>1, <2>1, <2>5, <2>9, ScopesStay DEF TidyInv
<1> QED
  BY <1>2, <1>4, OnlyCInv

LEMMA UseCInv ==
  ASSUME IInv, CInv, NEW t \in Threads,
         EndUse(t) \/ \E k \in Colls : BeginUse(t, k)
  PROVE  CInv'
<1>1. UNCHANGED <<vars, tidy, coll, fresh, blocks, phase>>
  BY DEF EndUse, BeginUse
<1>2. UNCHANGED <<conn, scopes, pc, target>>
  BY <1>1 DEF vars
<1>3. Only(t) /\ CTypeOK' /\ NothingClosedTwice'
  BY <1>1 DEF EndUse, BeginUse, Open, Only, CInv, CTypeOK, NothingClosedTwice
<1>4. ASSUME t \in tidy PROVE TidyInv(t)'
  <2>1. TidyInv(t)
    BY <1>4 DEF CInv
  <2>2. \/ using'[t] = None
        \/ /\ pc[t] = "run" /\ fresh[t] = {}
           /\ \E k \in Colls : Enclosed(t, k) /\ using'[t] = coll[t][k]
    BY <1>4 DEF EndUse, BeginUse, CInv, CTypeOK
  <2>3. BlocksInv(t)' /\ OpenInv(t)'
    BY <1>1, <1>2, <2>1, <2>2 DEF TidyInv, BlocksInv, OpenInv, Open, Enclosed
  <2> QED
    BY <1>1, <2>1, <2>3, ScopesStay DEF TidyInv
<1> QED
  BY <1>3, <1>4, OnlyCInv

-------------------------------------------------------------------------------
LEMMA InitCInv == CInit => CInv
<1> SUFFICES ASSUME CInit PROVE CInv
  OBVIOUS
<1>1. CTypeOK /\ NothingClosedTwice
  BY EmptySeq DEF CInit, CTypeOK, NothingClosedTwice
<1>2. ASSUME NEW t \in tidy PROVE TidyInv(t)
  <2>1. /\ t \in Threads /\ scopes[t] = <<>> /\ pc[t] = "idle" /\ blocks[t] = <<>>
        /\ \A o \in Objects : conn[t][o] = None
        /\ fresh[t] = {} /\ using[t] = None /\ \A k \in Colls : coll[t][k] = None
    BY DEF CInit, Init
  <2>2. ScopesInv(t) /\ BlocksInv(t)
    BY <2>1 DEF ScopesInv, BlocksInv, Connected
  <2>3. OpenInv(t)
    BY <2>1, ConnectionsAssumption DEF OpenInv, Open
  <2> QED
    BY <2>2, <2>3 DEF TidyInv
<1> QED
  BY <1>1, <1>2 DEF CInv

LEMMA NextCInv == IInv /\ CInv /\ [CNext]_allVars => CInv'
<1> SUFFICES ASSUME IInv, CInv, [CNext]_allVars PROVE CInv'
  OBVIOUS
<1>1. CASE UNCHANGED allVars
  <2>1. UNCHANGED <<tidy, coll, fresh, blocks, using, phase, conn, scopes, pc, target>>
    BY <1>1 DEF allVars, collVars, vars
  <2>2. CTypeOK' /\ NothingClosedTwice'
    BY <2>1 DEF CInv, CTypeOK, NothingClosedTwice
  <2>3. ASSUME NEW t \in tidy' PROVE TidyInv(t)'
    BY <2>1, <2>3, StillTidy DEF Still, CInv, CTypeOK
  <2> QED
    BY <2>2, <2>3 DEF CInv
<1>2. ASSUME NEW t \in Threads, using[t] = None, NEW o \in Objects, NEW k \in Colls,
             GetCollection(t, o, k)
      PROVE  CInv'
  BY <1>2, GetCollectionCInv
<1>3. ASSUME NEW t \in Threads, using[t] = None, NEW ks \in SUBSET Colls, EnterBlock(t, ks)
      PROVE  CInv'
  BY <1>3, EnterBlockCInv
<1>4. ASSUME NEW t \in Threads, NEW k \in Colls, Close(t, k) \/ Forget(t, k)
      PROVE  CInv'
  BY <1>4, CloseCInv, ForgetCInv
<1> QED
  BY <1>1, <1>2, <1>3, <1>4, ConnectionsCInv, LeaveBlockCInv, UndefinedCInv, UseCInv DEF CNext

(* A step of the collections is one of MongoConnections, or none. *)
LEMMA StepIsNext == [CNext]_allVars => [Next]_vars
<1> SUFFICES ASSUME CNext PROVE Next \/ UNCHANGED vars
  BY DEF allVars
<1>1. ASSUME NEW t \in Threads, Connections(t) PROVE Next
  BY <1>1 DEF Connections, Next
<1>2. ASSUME NEW t \in Threads,
             \/ EndUse(t) \/ LeaveBlock(t) \/ ClosedAgain(t)
             \/ \E ks \in SUBSET Colls : EnterBlock(t, ks)
             \/ \E k \in Colls :
                  \/ Close(t, k) \/ UseClosed(t, k) \/ Forget(t, k) \/ BeginUse(t, k)
                  \/ \E o \in Objects : GetCollection(t, o, k)
      PROVE  UNCHANGED vars
  BY <1>2 DEF EndUse, LeaveBlock, ClosedAgain, EnterBlock, Close, UseClosed, Forget,
              BeginUse, GetCollection
<1> QED
  BY <1>1, <1>2 DEF CNext

-------------------------------------------------------------------------------
(* What collections add takes nothing away: all that MongoConnectionsProofs *)
(* says of the clients of a pool is true with collections as well.          *)
THEOREM KeepsConnections == CSpec => Spec
  BY StepIsNext, PTL DEF CSpec, CInit, Spec

(* The invariants hold in every reachable state. *)
THEOREM CollectionsInvariance == CSpec => [](IInv /\ CInv)
<1>1. CSpec => []IInv
  BY KeepsConnections, InductiveInvariant, PTL
<1> QED
  BY <1>1, InitCInv, NextCInv, PTL DEF CSpec

(* While an operation of a script that keeps to the with functions runs, its *)
(* client neither waits in the pool nor is used by another such script.      *)
THEOREM UsesItsOwnClient == CSpec => []UseExclusive
<1>1. ASSUME IInv, CInv, NEW t \in tidy, using[t] # None
      PROVE  \E o \in Objects : Connected(t, o) /\ using[t] = conn[t][o]
  <2>1. t \in Threads /\ TidyInv(t)
    BY <1>1 DEF CInv, CTypeOK
  <2>2. PICK k \in Colls : Enclosed(t, k) /\ using[t] = coll[t][k]
    BY <1>1, <2>1 DEF TidyInv, OpenInv
  <2>3. Open(t, k)
    BY <2>1, <2>2 DEF TidyInv, BlocksInv, Enclosed
  <2> QED
    BY <1>1, <2>1, <2>2, <2>3, OpenConnected DEF IInv, CInv
<1>2. IInv /\ CInv => UseExclusive
  <2> SUFFICES ASSUME IInv, CInv, NEW t \in tidy, using[t] # None
               PROVE  using[t] \notin idle /\ \A u \in tidy \ {t} : using[u] # using[t]
    BY DEF UseExclusive
  <2>1. PICK o \in Objects : Connected(t, o) /\ using[t] = conn[t][o]
    BY <1>1
  <2>2. t \in Threads /\ tidy \subseteq Threads
    BY DEF CInv, CTypeOK
  <2>3. /\ conn[t][o] \notin idle
        /\ \A u \in Threads, p \in Objects : conn[u][p] = conn[t][o] => u = t
    BY <2>1, <2>2 DEF IInv, ClientExclusive
  <2>4. ASSUME NEW u \in tidy \ {t}, using[u] = using[t] PROVE FALSE
    <3>1. PICK p \in Objects : using[u] = conn[u][p]
      BY <1>1, <2>4
    <3> QED
      BY <2>1, <2>2, <2>3, <2>4, <3>1
  <2> QED
    BY <2>1, <2>3, <2>4
<1> QED
  BY <1>2, CollectionsInvariance, PTL

(* Such a script has closed the collections of a connection before the       *)
(* client goes back to the pool, however the functions it passes end.        *)
THEOREM ClosesFirst == CSpec => []ClosedBeforeReturned
<1>1. IInv /\ CInv => ClosedBeforeReturned
  <2> SUFFICES ASSUME IInv, CInv, NEW t \in tidy, NEW k \in Colls, Open(t, k)
               PROVE  coll[t][k] \in Held(t)
    BY DEF ClosedBeforeReturned
  <2>1. PICK o \in Objects : Connected(t, o) /\ coll[t][k] = conn[t][o]
    BY OpenConnected DEF IInv, CInv, CTypeOK
  <2> QED
    BY <2>1 DEF Held, Connected
<1> QED
  BY <1>1, CollectionsInvariance, PTL

(* It has closed all of them when it is over. *)
THEOREM ClosesAll == CSpec => []CollectionsClosed
<1>1. CInv => CollectionsClosed
  BY DEF CInv, TidyInv, BlocksInv, OpenInv, Enclosed, CollectionsClosed
<1> QED
  BY <1>1, CollectionsInvariance, PTL

(* It closes none twice and uses none after it is closed. *)
THEOREM ClosesOnce == CSpec => []NothingClosedTwice
<1>1. CInv => NothingClosedTwice
  BY DEF CInv
<1> QED
  BY <1>1, CollectionsInvariance, PTL

(* It has given back all its clients by then, whether or not the scripts on  *)
(* the other threads keep to the with functions.                             *)
THEOREM ReturnsAll == CSpec => []TidyReturned
<1>1. IInv /\ CInv => TidyReturned
  <2> SUFFICES ASSUME IInv, CInv, NEW t \in tidy, pc[t] = "idle",
                      NEW o \in Objects, Connected(t, o)
               PROVE  FALSE
    BY DEF TidyReturned, Held, Connected
  <2>1. t \in Threads /\ TidyInv(t)
    BY DEF CInv, CTypeOK
  <2>2. scopes[t] = <<>>
    BY <2>1 DEF IInv, TargetInv
  <2>3. InScope(t, o)
    BY <2>1 DEF TidyInv, ScopesInv
  <2> QED
    BY <2>2, <2>3 DEF InScope
<1> QED
  BY <1>1, CollectionsInvariance, PTL

(* To the scripts that use collections the clients are the simple pool of    *)
(* ClientPool still.                                                         *)
THEOREM CollectionsKeepThePool == CSpec => CPSpec
  BY KeepsConnections, ImplementsClientPool, PTL

===============================================================================
