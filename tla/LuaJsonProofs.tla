----------------------------- MODULE LuaJsonProofs -----------------------------
(***************************************************************************)
(* What a conversion does to the Lua stack and to tables, for every        *)
(* document and every stack it starts on.  MongoOperationsProofs and       *)
(* RequestHandlerProofs build on it.                                       *)
(***************************************************************************)
EXTENDS LuaJson, SequenceTheorems, TLAPS

IsTable(T) == DOMAIN T \subseteq Keys /\ T \in [DOMAIN T -> Slots]

(* Storing a value in a table keeps it one. *)
LEMMA WithTable ==
  ASSUME NEW T, IsTable(T), NEW k \in Keys, NEW v \in Slots
  PROVE  /\ IsTable(With(T, k, v))
         /\ DOMAIN With(T, k, v) = DOMAIN T \cup {k}
         /\ With(T, k, v)[k] = v
         /\ \A x \in DOMAIN T : x # k => With(T, k, v)[x] = T[x]
BY DEF IsTable, With

(* A heap is a sequence of tables. *)
LEMMA HeapIsSeq ==
  ASSUME NEW h, IsHeap(h)
  PROVE  /\ Len(h) \in Nat
         /\ DOMAIN h = 1..Len(h)
         /\ \A n \in 1..Len(h) : IsTable(h[n])
BY DEF IsHeap, IsTable

LEMMA HeapFromDomain ==
  ASSUME NEW m \in Nat, NEW h, h = [n \in 1..m |-> h[n]],
         \A n \in 1..m : IsTable(h[n])
  PROVE  IsHeap(h) /\ Len(h) = m
<1> DEFINE S == {h[n] : n \in DOMAIN h}
<1>1. h \in [1..m -> S]
  OBVIOUS
<1>2. h \in Seq(S)
  <2> HIDE DEF S
  <2> QED BY <1>1, SeqDef
<1>3. Len(h) = m
  <2> HIDE DEF S
  <2> QED BY <1>1, <1>2, LenProperties
<1> QED
  BY <1>1, <1>2, <1>3 DEF IsHeap, IsTable

(* The tables after a store in table n. *)
Put(h, n, k, v) == [h EXCEPT ![n] = With(@, k, v)]

LEMMA HeapSet ==
  ASSUME NEW h, IsHeap(h), NEW n \in DOMAIN h, NEW k \in Keys, NEW v \in Slots
  PROVE  LET g == Put(h, n, k, v)
         IN  /\ IsHeap(g) /\ Len(g) = Len(h) /\ DOMAIN g = DOMAIN h
             /\ g[n] = With(h[n], k, v)
             /\ \A i \in DOMAIN h : i # n => g[i] = h[i]
<1> DEFINE g == Put(h, n, k, v)
<1>1. /\ Len(h) \in Nat /\ DOMAIN h = 1..Len(h)
      /\ \A i \in 1..Len(h) : IsTable(h[i])
  BY HeapIsSeq
<1>2. /\ DOMAIN g = 1..Len(h) /\ g = [i \in 1..Len(h) |-> g[i]]
      /\ g[n] = With(h[n], k, v)
      /\ \A i \in DOMAIN h : i # n => g[i] = h[i]
  BY <1>1 DEF Put
<1>3. IsTable(g[n])
  <2>1. IsTable(h[n])
    BY <1>1
  <2>2. IsTable(With(h[n], k, v))
    BY <2>1, WithTable
  <2> QED BY <1>2, <2>2
<1>4. \A i \in 1..Len(h) : IsTable(g[i])
  BY <1>1, <1>2, <1>3
<1>5. IsHeap(g) /\ Len(g) = Len(h)
  <2> HIDE DEF g
  <2> QED BY <1>1, <1>2, <1>4, HeapFromDomain
<1> QED
  BY <1>1, <1>2, <1>5

LEMMA HeapAppend ==
  ASSUME NEW h, IsHeap(h)
  PROVE  LET g == Append(h, NewTable)
         IN  /\ IsHeap(g) /\ Len(g) = Len(h) + 1 /\ DOMAIN g = 1..(Len(h) + 1)
             /\ g[Len(h) + 1] = NewTable
             /\ \A i \in DOMAIN h : g[i] = h[i]
<1> DEFINE g == Append(h, NewTable)
<1>1. /\ Len(h) \in Nat /\ DOMAIN h = 1..Len(h)
      /\ \A i \in 1..Len(h) : IsTable(h[i])
  BY HeapIsSeq
<1>2. IsTable(NewTable)
  BY DEF IsTable, NewTable
<1>3. /\ DOMAIN g = 1..(Len(h) + 1) /\ g = [i \in 1..(Len(h) + 1) |-> g[i]]
      /\ g[Len(h) + 1] = NewTable
      /\ \A i \in DOMAIN h : g[i] = h[i]
  <2>1. PICK S : h \in Seq(S) /\ NewTable \in S
    <3> DEFINE S == {h[n] : n \in DOMAIN h} \cup {NewTable}
    <3>1. h \in Seq({h[n] : n \in DOMAIN h})
      BY DEF IsHeap
    <3>2. h \in Seq(S)
      BY <3>1, SeqMonotonic
    <3> QED BY <3>2
  <2>2. /\ g \in Seq(S) /\ Len(g) = Len(h) + 1
        /\ \A i \in 1..Len(g) : g[i] = IF i = Len(g) THEN NewTable ELSE h[i]
    BY <2>1, AppendProperties
  <2>3. DOMAIN g = 1..(Len(h) + 1) /\ g \in [1..(Len(h) + 1) -> S]
    <3> HIDE DEF g
    <3> QED BY <2>2, LenProperties
  <2> HIDE DEF g
  <2> QED
    BY <1>1, <2>2, <2>3
<1>4. \A i \in 1..(Len(h) + 1) : IsTable(g[i])
  BY <1>1, <1>2, <1>3
<1>5. IsHeap(g) /\ Len(g) = Len(h) + 1
  <2> HIDE DEF g
  <2> QED BY <1>1, <1>3, <1>4, HeapFromDomain
<1> QED
  BY <1>3, <1>5

-------------------------------------------------------------------------------
LEMMA PopSeq ==
  ASSUME NEW S, NEW s \in Seq(S), Len(s) >= 1
  PROVE  /\ Popped(s, 1) \in Seq(S) /\ Len(Popped(s, 1)) = Len(s) - 1
         /\ \A i \in 1..(Len(s) - 1) : Popped(s, 1)[i] = s[i]
<1>1. Len(s) \in Nat /\ 1 \in 1..(Len(s) + 1) /\ Len(s) - 1 \in 0..Len(s)
  BY LenProperties
<1>2. \A i \in 1..Len(s) : s[i] \in S
  BY ElementOfSeq
<1> DEFINE m == Len(s) - 1
<1>3. m \in Nat /\ m <= Len(s)
  BY <1>1
<1>4. \A i \in 1..m : s[i] \in S
  BY <1>2, <1>3
<1>5. /\ SubSeq(s, 1, m) \in Seq(S)
      /\ Len(SubSeq(s, 1, m)) = IF 1 <= m THEN m - 1 + 1 ELSE 0
      /\ \A i \in 1..(m - 1 + 1) : SubSeq(s, 1, m)[i] = s[1 + i - 1]
  <2> HIDE DEF m
  <2> QED BY <1>3, <1>4, SubSeqProperties
<1>6. Popped(s, 1) = SubSeq(s, 1, m)
  BY DEF Popped
<1>7. Len(SubSeq(s, 1, m)) = m /\ \A i \in 1..m : SubSeq(s, 1, m)[i] = s[i]
  <2> HIDE DEF m
  <2> QED BY <1>3, <1>5
<1> QED
  BY <1>5, <1>6, <1>7

(* Tables that are not written to hold what they held. *)
LEMMA HoldsStays ==
  ASSUME NEW h, NEW g, NEW md, NEW me, NEW n, NEW m,
         g[n] = h[n], DOMAIN h \subseteq DOMAIN g,
         me[n] = md[n], \A i \in DOMAIN h : me[i] = md[i],
         Holds(h, md, n, m)
  PROVE  Holds(g, me, n, m)
<1>1. \A x, v : Same(h, md, x, v) => Same(g, me, x, v)
  BY DEF Same
<1> QED
  BY <1>1 DEF Holds

(* The next member is stored in a table that holds those before it. *)
LEMMA HoldsStep ==
  ASSUME NEW h, IsHeap(h), NEW md, NEW n \in DOMAIN h,
         NEW m \in Nat, NEW ms \in Seq(Keys \X Json), ms = md[n].members, m < Len(ms),
         Holds(h, md, n, m),
         NEW v \in Slots, Same(h, md, v, ms[m+1][2])
  PROVE  Holds(Put(h, n, ms[m+1][1], v), md, n, m + 1)
<1> DEFINE k == ms[m+1][1]
           g == Put(h, n, k, v)
<1>1. k \in Keys
  <2>1. m + 1 \in 1..Len(ms)
    BY LenProperties
  <2> QED BY <2>1, ElementOfSeq
<1> HIDE DEF k
<1>2. /\ DOMAIN g = DOMAIN h /\ g[n] = With(h[n], k, v)
  BY ONLY <1>1, IsHeap(h), n \in DOMAIN h, v \in Slots, HeapSet
<1>3. IsTable(h[n])
  BY HeapIsSeq
<1> HIDE DEF g
<1>4. /\ DOMAIN g[n] = DOMAIN h[n] \cup {k} /\ g[n][k] = v
      /\ \A x \in DOMAIN h[n] : x # k => g[n][x] = h[n][x]
  <2>1. /\ DOMAIN With(h[n], k, v) = DOMAIN h[n] \cup {k} /\ With(h[n], k, v)[k] = v
        /\ \A x \in DOMAIN h[n] : x # k => With(h[n], k, v)[x] = h[n][x]
    BY <1>1, <1>3, WithTable
  <2> QED BY <1>2, <2>1
<1>5. /\ DOMAIN h[n] = {ms[i][1] : i \in 1..m}
      /\ \A i \in 1..m : Last(ms, m, i) => Same(h, md, h[n][ms[i][1]], ms[i][2])
  BY DEF Holds
<1>6. 1..(m + 1) = 1..m \cup {m + 1}
  OBVIOUS
<1>7. DOMAIN g[n] = {ms[i][1] : i \in 1..(m + 1)}
  BY <1>4, <1>5, <1>6 DEF k
<1>8. ASSUME NEW i \in 1..(m + 1), Last(ms, m + 1, i)
      PROVE  Same(g, md, g[n][ms[i][1]], ms[i][2])
  <2>1. CASE i = m + 1
    BY <2>1, <1>2, <1>4 DEF Same, k
  <2>2. CASE i # m + 1
    <3>1. i \in 1..m /\ ms[i][1] # k /\ Last(ms, m, i)
      BY <1>8, <2>2 DEF Last, k
    <3>2. ms[i][1] \in DOMAIN h[n]
      BY <3>1, <1>5
    <3> QED BY <1>2, <1>4, <1>5, <3>1, <3>2 DEF Same
  <2> QED BY <2>1, <2>2
<1> QED
  BY <1>7, <1>8 DEF Holds, g, k

(* The member a conversion reads. *)
LEMMA MemberType ==
  ASSUME JsonTypeOK, work # <<>>
  PROVE  /\ Len(work) \in Nat \ {0} /\ DOMAIN work = 1..Len(work)
         /\ Len(stack) \in Nat /\ Len(base.stack) \in Nat
         /\ Len(heap) \in Nat /\ Len(base.heap) \in Nat
         /\ \A i \in DOMAIN work :
              /\ work[i] \in FrameType
              /\ work[i].doc.members \in Seq(Keys \X Json)
              /\ work[i].done \in Nat /\ Len(work[i].doc.members) \in Nat
              /\ work[i].done <= Len(work[i].doc.members)
         /\ HasMember => Key \in Keys /\ Value \in Json /\ Frame.done + 1 \in 1..Len(Frame.doc.members)
<1>1. /\ Len(work) \in Nat \ {0} /\ DOMAIN work = 1..Len(work)
      /\ Len(stack) \in Nat /\ Len(base.stack) \in Nat
      /\ Len(heap) \in Nat /\ Len(base.heap) \in Nat
  BY EmptySeq, LenProperties, HeapIsSeq DEF JsonTypeOK
<1>2. ASSUME NEW i \in DOMAIN work
      PROVE  /\ work[i] \in FrameType
             /\ work[i].doc.members \in Seq(Keys \X Json)
             /\ work[i].done \in Nat /\ Len(work[i].doc.members) \in Nat
             /\ work[i].done <= Len(work[i].doc.members)
  <2>1. work[i] \in FrameType
    BY <1>1, <1>2, ElementOfSeq DEF JsonTypeOK
  <2>2. work[i].doc.members \in Seq(Keys \X Json)
    BY <2>1, JsonAssumption DEF FrameType
  <2> QED
    BY <2>1, <2>2, LenProperties DEF FrameType, JsonTypeOK
<1>3. ASSUME HasMember
      PROVE  Key \in Keys /\ Value \in Json /\ Frame.done + 1 \in 1..Len(Frame.doc.members)
  <2>1. Frame.done + 1 \in 1..Len(Frame.doc.members)
    BY <1>1, <1>2, <1>3 DEF HasMember, Frame
  <2>2. Frame.doc.members[Frame.done + 1] \in Keys \X Json
    BY <1>1, <1>2, <2>1, ElementOfSeq DEF Frame
  <2> QED BY <2>1, <2>2 DEF Key, Value
<1> QED
  BY <1>1, <1>2, <1>3

-------------------------------------------------------------------------------
(* FramesInv and Faithful of any stack, tables and frames.                 *)

Nested(w) ==
  \A i \in 1..(Len(w) - 1) :
    /\ w[i].done < Len(w[i].doc.members)
    /\ w[i].doc.members[w[i].done + 1][2] = w[i+1].doc

FramesAt(h, md, w, st, bs, bh) ==
  /\ \A i \in DOMAIN w : st[bs + i] \in (bh + 1)..Len(h) /\ md[st[bs + i]] = w[i].doc
  /\ \A n \in (bh + 1)..Len(h) : md[n] \in Compounds
  /\ \A i, j \in DOMAIN w : i # j => st[bs + i] # st[bs + j]

FaithfulAt(h, md, w, st, bs, bh) ==
  /\ \A i \in DOMAIN w : Holds(h, md, st[bs + i], w[i].done)
  /\ \A n \in (bh + 1)..Len(h) : IsWhole(h, md, n) \/ \E i \in DOMAIN w : n = st[bs + i]

(* The next member of the last frame. *)
NextKey(w) == w[Len(w)].doc.members[w[Len(w)].done + 1][1]
NextValue(w) == w[Len(w)].doc.members[w[Len(w)].done + 1][2]

Filling(h, md, w, st, bs, bh) ==
  /\ IsHeap(h) /\ bs \in Nat /\ bh \in Nat
  /\ w \in Seq(FrameType) /\ w # <<>>
  /\ w[Len(w)].done < Len(w[Len(w)].doc.members)
  /\ FramesAt(h, md, w, st, bs, bh)
  /\ FaithfulAt(h, md, w, st, bs, bh)
  /\ Nested(w)

LEMMA FramesAre ==
  /\ FramesInv <=> /\ Nested(work)
                   /\ work # <<>> /\ nulls = 0 =>
                        FramesAt(heap, made, work, stack, Len(base.stack), Len(base.heap))
  /\ Faithful <=> (work # <<>> /\ nulls = 0 =>
                        FaithfulAt(heap, made, work, stack, Len(base.stack), Len(base.heap)))
BY DEF FramesInv, Faithful, Nested, FramesAt, FaithfulAt, Filled, New

LEMMA FramesAreNext ==
  /\ FramesInv' <=> /\ Nested(work')
                    /\ work' # <<>> /\ nulls' = 0 =>
                         FramesAt(heap, made, work, stack, Len(base.stack), Len(base.heap))'
  /\ Faithful' <=> (work' # <<>> /\ nulls' = 0 =>
                         FaithfulAt(heap, made, work, stack, Len(base.stack), Len(base.heap))')
BY DEF FramesInv, Faithful, Nested, FramesAt, FaithfulAt, Filled, New

(* The last frame has one more member done. *)
LEMMA SteppedSeq ==
  ASSUME NEW w \in Seq(FrameType), w # <<>>
  PROVE  /\ Stepped(w) \in Seq(FrameType) /\ Len(Stepped(w)) = Len(w)
         /\ Stepped(w) # <<>> /\ DOMAIN Stepped(w) = DOMAIN w
         /\ Len(w) \in Nat \ {0} /\ DOMAIN w = 1..Len(w) /\ w[Len(w)] \in FrameType
         /\ Stepped(w)[Len(w)].doc = w[Len(w)].doc
         /\ Stepped(w)[Len(w)].done = w[Len(w)].done + 1
         /\ \A i \in 1..(Len(w) - 1) : Stepped(w)[i] = w[i]
<1>1. Len(w) \in Nat \ {0} /\ DOMAIN w = 1..Len(w)
  BY EmptySeq, LenProperties
<1>2. w[Len(w)] \in FrameType
  BY <1>1, ElementOfSeq
<1> DEFINE f == [w[Len(w)] EXCEPT !.done = @ + 1]
<1>3. f \in FrameType /\ f.doc = w[Len(w)].doc /\ f.done = w[Len(w)].done + 1
  BY <1>2 DEF FrameType
<1>4. Stepped(w) = [w EXCEPT ![Len(w)] = f]
  BY DEF Stepped
<1>5. Stepped(w) \in Seq(FrameType) /\ Len(Stepped(w)) = Len(w)
  BY <1>1, <1>3, <1>4, ExceptSeq
<1>6. Stepped(w)[Len(w)] = f /\ \A i \in 1..(Len(w) - 1) : Stepped(w)[i] = w[i]
  BY <1>1, <1>4
<1>7. Stepped(w) # <<>> /\ DOMAIN Stepped(w) = DOMAIN w
  BY <1>1, <1>5, EmptySeq, LenProperties
<1> QED
  BY <1>1, <1>2, <1>3, <1>5, <1>6, <1>7

(* The next member of the last frame is stored in its table. *)
LEMMA StoreStep ==
  ASSUME NEW h, NEW md, NEW w, NEW st, NEW bs, NEW bh, Filling(h, md, w, st, bs, bh),
         NEW v \in Slots, Same(h, md, v, NextValue(w))
  PROVE  LET g == Put(h, st[bs + Len(w)], NextKey(w), v)
         IN  /\ FramesAt(g, md, Stepped(w), st, bs, bh)
             /\ FaithfulAt(g, md, Stepped(w), st, bs, bh)
             /\ Nested(Stepped(w))
             /\ \A n \in 1..bh : g[n] = h[n]
<1> DEFINE m == w[Len(w)].done
           ms == w[Len(w)].doc.members
           k == ms[m+1][1]
           F == st[bs + Len(w)]
           g == Put(h, F, k, v)
           u == Stepped(w)
<1>0. /\ IsHeap(h) /\ bs \in Nat /\ bh \in Nat /\ w \in Seq(FrameType) /\ w # <<>> /\ m < Len(ms)
      /\ FramesAt(h, md, w, st, bs, bh) /\ FaithfulAt(h, md, w, st, bs, bh) /\ Nested(w)
      /\ Same(h, md, v, ms[m+1][2]) /\ k = NextKey(w)
  BY DEF Filling, NextKey, NextValue
<1>1. /\ u \in Seq(FrameType) /\ Len(u) = Len(w) /\ u # <<>> /\ DOMAIN u = 1..Len(w)
      /\ Len(w) \in Nat \ {0} /\ DOMAIN w = 1..Len(w) /\ w[Len(w)] \in FrameType
      /\ u[Len(w)].doc = w[Len(w)].doc /\ u[Len(w)].done = m + 1
      /\ \A i \in 1..(Len(w) - 1) : u[i] = w[i]
  BY <1>0, SteppedSeq
<1> HIDE DEF u, m, ms
<1>2. m \in Nat /\ ms \in Seq(Keys \X Json) /\ m + 1 \in 1..Len(ms)
  BY <1>0, <1>1, JsonAssumption, LenProperties DEF FrameType, m, ms
<1>3. k \in Keys
  BY <1>2, ElementOfSeq
<1>4. /\ Len(h) \in Nat /\ DOMAIN h = 1..Len(h)
  BY <1>0, HeapIsSeq
<1>5. F \in (bh + 1)..Len(h) /\ F \in DOMAIN h /\ md[F] = w[Len(w)].doc
  <2>1. Len(w) \in DOMAIN w
    BY <1>1
  <2>2. F \in (bh + 1)..Len(h) /\ md[F] = w[Len(w)].doc
    BY <1>0, <2>1 DEF FramesAt
  <2>3. F \in 1..Len(h)
    <3> HIDE DEF F
    <3> QED BY <1>0, <1>4, <2>2
  <2> QED BY <1>4, <2>2, <2>3
<1>6. Holds(h, md, F, m)
  <2>1. Len(w) \in DOMAIN w
    BY <1>1
  <2> QED BY <1>0, <2>1 DEF FaithfulAt, m
<1>7. Holds(g, md, F, m + 1)
  <2>1. ms = md[F].members
    BY <1>5 DEF ms
  <2>2. IsHeap(h) /\ Same(h, md, v, ms[m+1][2]) /\ m \in Nat /\ m < Len(ms)
    BY <1>0, <1>2 DEF m, ms
  <2> HIDE DEF F
  <2> QED BY ONLY <1>2, <1>5, <1>6, <2>1, <2>2, v \in Slots, HoldsStep
<1> HIDE DEF k, F
<1>8. /\ Len(g) = Len(h) /\ DOMAIN g = DOMAIN h
      /\ \A i \in DOMAIN h : i # F => g[i] = h[i]
  BY <1>0, <1>3, <1>5, HeapSet
<1> HIDE DEF g
<1>9. FramesAt(g, md, u, st, bs, bh)
  <2>1. \A i \in DOMAIN w : u[i].doc = w[i].doc
    BY <1>1
  <2> QED BY <1>0, <1>1, <1>8, <2>1 DEF FramesAt
<1>10. Nested(u)
  <2>1. Nested(w)
    BY <1>0
  <2> QED BY <1>1, <2>1 DEF Nested
<1>11. \A n \in 1..bh : g[n] = h[n]
  BY <1>0, <1>4, <1>5, <1>8
<1>12. ASSUME NEW n \in DOMAIN h, n # F, NEW l, Holds(h, md, n, l)
       PROVE  Holds(g, md, n, l)
  BY <1>8, <1>12, HoldsStays
<1>13. ASSUME NEW i \in DOMAIN u
       PROVE  Holds(g, md, st[bs + i], u[i].done)
  <2>1. CASE i = Len(w)
    BY <2>1, <1>1, <1>7 DEF F
  <2>2. CASE i # Len(w)
    <3>1. u[i] = w[i] /\ i \in DOMAIN w
      BY <2>2, <1>1
    <3>2. st[bs + i] # F /\ st[bs + i] \in (bh + 1)..Len(h)
      <4>1. Len(w) \in DOMAIN w
        BY <1>1
      <4> QED BY <1>0, <2>2, <3>1, <4>1 DEF FramesAt, F
    <3>3. Holds(h, md, st[bs + i], w[i].done)
      BY <1>0, <3>1 DEF FaithfulAt
    <3>4. st[bs + i] \in DOMAIN h
      BY <1>0, <1>4, <3>2
    <3> QED BY <1>12, <3>1, <3>2, <3>3, <3>4
  <2> QED BY <2>1, <2>2
<1>14. ASSUME NEW n \in (bh + 1)..Len(g)
       PROVE  IsWhole(g, md, n) \/ \E i \in DOMAIN u : n = st[bs + i]
  <2>1. n \in DOMAIN h /\ n \in (bh + 1)..Len(h)
    BY <1>0, <1>4, <1>8
  <2>2. CASE \E i \in DOMAIN w : n = st[bs + i]
    BY <2>2, <1>1
  <2>3. CASE IsWhole(h, md, n) /\ n # F
    BY <2>1, <2>3, <1>12 DEF IsWhole
  <2>4. n = F => \E i \in DOMAIN w : n = st[bs + i]
    <3>1. Len(w) \in DOMAIN w
      BY <1>1
    <3> QED BY <3>1 DEF F
  <2> QED BY <1>0, <2>1, <2>2, <2>3, <2>4 DEF FaithfulAt
<1> QED
  BY <1>0, <1>9, <1>10, <1>11, <1>13, <1>14 DEF FaithfulAt, g, u, F

-------------------------------------------------------------------------------
LEMMA TopOfStack ==
  ASSUME JsonInv, work # <<>>, nulls = 0
  PROVE  /\ Len(stack) = Len(base.stack) + Len(work)
         /\ Slot(1) = stack[Len(base.stack) + Len(work)]
         /\ Slot(2) = stack[Len(base.stack) + (Len(work) - 1)]
         /\ FramesAt(heap, made, work, stack, Len(base.stack), Len(base.heap))
         /\ FaithfulAt(heap, made, work, stack, Len(base.stack), Len(base.heap))
<1>1. Len(stack) = Len(base.stack) + Len(work)
  BY MemberType DEF JsonInv, StackEffect, JsonTypeOK
<1>2. /\ Len(stack) + 1 - 1 = Len(base.stack) + Len(work)
      /\ Len(stack) + 1 - 2 = Len(base.stack) + (Len(work) - 1)
  BY <1>1, MemberType DEF JsonInv
<1> QED
  BY <1>1, <1>2, FramesAre DEF JsonInv, Slot

LEMMA PushScalarKeeps ==
  ASSUME JsonInv, PushScalar
  PROVE  JsonInv'
<1>1. /\ HasMember /\ Value \in Scalars /\ Slot(1) \in DOMAIN heap /\ work # <<>>
      /\ heap' = Put(heap, Slot(1), Key, Value)
      /\ work' = Stepped(work)
      /\ UNCHANGED <<stack, made, base, nulls>>
  BY DEF PushScalar, HasMember, Put
<1>2. JsonTypeOK
  BY DEF JsonInv
<1>3. Key \in Keys /\ Value \in Slots /\ work \in Seq(FrameType)
  BY <1>1, <1>2, MemberType DEF Slots, JsonTypeOK
<1>4. IsHeap(heap') /\ Len(heap') = Len(heap)
  <2>1. IsHeap(heap)
    BY <1>2 DEF JsonTypeOK
  <2> QED BY <2>1, <1>1, <1>3, HeapSet
<1>5. /\ work' \in Seq(FrameType) /\ Len(work') = Len(work) /\ work' # <<>>
      /\ DOMAIN work' = DOMAIN work /\ DOMAIN work = 1..Len(work) /\ Len(work) \in Nat \ {0}
      /\ work'[Len(work)].doc = Frame.doc /\ work'[Len(work)].done = Frame.done + 1
      /\ \A i \in 1..(Len(work) - 1) : work'[i] = work[i]
  BY <1>1, <1>3, SteppedSeq DEF Frame
<1>6. \A i \in DOMAIN work' : work'[i].done <= Len(work'[i].doc.members)
  <2>1. \A i \in DOMAIN work : work[i].done <= Len(work[i].doc.members)
    BY <1>2 DEF JsonTypeOK
  <2>2. Frame.done + 1 <= Len(Frame.doc.members)
    BY <1>1, <1>2, MemberType
  <2> QED BY <1>5, <2>1, <2>2
<1>7. JsonTypeOK'
  BY <1>1, <1>2, <1>4, <1>5, <1>6 DEF JsonTypeOK
<1>8. StackEffect'
  BY <1>1, <1>5 DEF JsonInv, StackEffect
<1>9. Nested(work')
  <2>1. Nested(work)
    BY FramesAre DEF JsonInv
  <2> QED BY <1>5, <2>1 DEF Nested, Frame
<1>10. ASSUME nulls = 0
       PROVE  /\ FramesAt(heap, made, work, stack, Len(base.stack), Len(base.heap))'
              /\ FaithfulAt(heap, made, work, stack, Len(base.stack), Len(base.heap))'
              /\ \A n \in 1..Len(base.heap) : heap'[n] = heap[n]
  <2>1. /\ Slot(1) = stack[Len(base.stack) + Len(work)]
        /\ FramesAt(heap, made, work, stack, Len(base.stack), Len(base.heap))
        /\ FaithfulAt(heap, made, work, stack, Len(base.stack), Len(base.heap))
    BY <1>1, <1>10, TopOfStack
  <2>2. Key = NextKey(work) /\ Value = NextValue(work)
    BY DEF Value, Key, Frame, NextKey, NextValue
  <2>3. Same(heap, made, Value, NextValue(work))
    BY <1>1, <2>2 DEF Same
  <2>4. Filling(heap, made, work, stack, Len(base.stack), Len(base.heap))
    BY <1>1, <1>2, <1>3, <2>1, MemberType, FramesAre
       DEF Filling, JsonInv, HasMember, Frame, JsonTypeOK
  <2>5. heap' = Put(heap, stack[Len(base.stack) + Len(work)], NextKey(work), Value)
    BY <1>1, <2>1, <2>2
  <2> QED
    BY <1>1, <1>3, <2>3, <2>4, <2>5, StoreStep
<1>11. OthersKept'
  <2>1. DOMAIN base.heap = 1..Len(base.heap)
    BY <1>2, HeapIsSeq DEF JsonTypeOK
  <2> QED BY <1>1, <1>10, <2>1 DEF JsonInv, OthersKept
<1>12. FramesInv' /\ Faithful'
  BY <1>1, <1>9, <1>10, FramesAreNext
<1> QED
  BY <1>1, <1>4, <1>7, <1>8, <1>11, <1>12 DEF JsonInv

LEMMA PushNullKeeps ==
  ASSUME JsonInv, PushNull
  PROVE  JsonInv' /\ nulls' > 0
<1>1. /\ HasMember /\ work # <<>> /\ Len(stack) >= 2 /\ Slot(2) \in DOMAIN heap
      /\ heap' = Put(heap, Slot(2), Key, Slot(1))
      /\ stack' = Popped(stack, 1) /\ work' = Stepped(work) /\ nulls' = nulls + 1
      /\ UNCHANGED <<made, base>>
  BY DEF PushNull, HasMember, Put, CanSet, SetTop
<1>2. JsonTypeOK
  BY DEF JsonInv
<1>3. /\ Key \in Keys /\ work \in Seq(FrameType) /\ stack \in Seq(Slots) /\ IsHeap(heap)
      /\ Len(stack) \in Nat /\ nulls \in Nat /\ Len(base.stack) \in Nat
  BY <1>1, <1>2, MemberType DEF JsonTypeOK
<1>4. Slot(1) \in Slots
  BY <1>1, <1>3, ElementOfSeq DEF Slot
<1>5. IsHeap(heap') /\ Len(heap') = Len(heap)
  BY <1>1, <1>3, <1>4, HeapSet
<1>6. /\ stack' \in Seq(Slots) /\ Len(stack') = Len(stack) - 1
      /\ \A i \in 1..(Len(stack) - 1) : stack'[i] = stack[i]
  BY <1>1, <1>3, PopSeq
<1>7. /\ work' \in Seq(FrameType) /\ Len(work') = Len(work) /\ work' # <<>>
      /\ DOMAIN work' = DOMAIN work /\ DOMAIN work = 1..Len(work) /\ Len(work) \in Nat \ {0}
      /\ work'[Len(work)].doc = Frame.doc /\ work'[Len(work)].done = Frame.done + 1
      /\ \A i \in 1..(Len(work) - 1) : work'[i] = work[i]
  BY <1>1, <1>3, SteppedSeq DEF Frame
<1>8. \A i \in DOMAIN work' : work'[i].done <= Len(work'[i].doc.members)
  <2>1. \A i \in DOMAIN work : work[i].done <= Len(work[i].doc.members)
    BY <1>2 DEF JsonTypeOK
  <2>2. Frame.done + 1 <= Len(Frame.doc.members)
    BY <1>1, <1>2, MemberType
  <2> QED BY <1>7, <2>1, <2>2
<1>9. JsonTypeOK'
  BY <1>1, <1>2, <1>3, <1>5, <1>6, <1>7, <1>8 DEF JsonTypeOK
<1>10. StackEffect'
  <2>1. /\ Len(stack) + nulls = Len(base.stack) + Len(work)
        /\ \A i \in DOMAIN base.stack :
             i + nulls <= Len(base.stack) + 1 => stack[i] = base.stack[i]
    BY <1>1 DEF JsonInv, StackEffect
  <2>2. DOMAIN base.stack = 1..Len(base.stack)
    BY <1>2, LenProperties DEF JsonTypeOK
  <2> DEFINE bs == base.stack
  <2>0. bs = base.stack /\ bs' = bs /\ nulls' = nulls + 1
    BY <1>1
  <2> HIDE DEF bs
  <2>3. Len(stack') + nulls' = Len(bs) + Len(work')
    <3>1. /\ Len(stack') = Len(stack) - 1 /\ Len(work') = Len(work) /\ Len(work) \in Nat
          /\ Len(stack) + nulls = Len(bs) + Len(work)
      BY <1>6, <1>7, <2>0, <2>1
    <3>2. Len(stack) \in Nat /\ nulls \in Nat /\ Len(bs) \in Nat
      BY <1>3, <2>0
    <3> QED BY <2>0, <3>1, <3>2
  <2>4. ASSUME NEW i \in DOMAIN base.stack, i + nulls' <= Len(base.stack) + 1
        PROVE  stack'[i] = base.stack[i]
    <3>1. i \in 1..(Len(stack) - 1)
      BY <1>1, <1>3, <1>7, <2>1, <2>2, <2>4
    <3>2. i + nulls <= Len(base.stack) + 1
      BY <1>3, <2>0, <2>2, <2>4
    <3>3. stack'[i] = stack[i]
      BY <1>6, <3>1
    <3> QED BY <2>1, <2>4, <3>2, <3>3
  <2> QED BY <1>1, <2>0, <2>3, <2>4 DEF StackEffect, bs
<1>11. Nested(work')
  <2>1. Nested(work)
    BY FramesAre DEF JsonInv
  <2> QED BY <1>7, <2>1 DEF Nested, Frame
<1>12. nulls' # 0 /\ nulls' > 0
  BY <1>1, <1>3
<1>13. FramesInv' /\ Faithful' /\ OthersKept'
  BY <1>11, <1>12, FramesAreNext DEF OthersKept
<1> QED
  BY <1>1, <1>5, <1>9, <1>10, <1>12, <1>13 DEF JsonInv

-------------------------------------------------------------------------------
NewFrame(d) == [doc |-> d, done |-> 0]

LEMMA AppendSeq ==
  ASSUME NEW S, NEW s \in Seq(S), NEW e \in S
  PROVE  /\ Append(s, e) \in Seq(S) /\ Len(Append(s, e)) = Len(s) + 1
         /\ Len(s) \in Nat /\ DOMAIN s = 1..Len(s) /\ DOMAIN Append(s, e) = 1..(Len(s) + 1)
         /\ Append(s, e) # <<>>
         /\ Append(s, e)[Len(s) + 1] = e
         /\ \A i \in 1..Len(s) : Append(s, e)[i] = s[i]
<1> DEFINE u == Append(s, e)
<1>1. /\ u \in Seq(S) /\ Len(u) = Len(s) + 1
      /\ \A i \in 1..Len(u) : u[i] = IF i = Len(u) THEN e ELSE s[i]
  BY AppendProperties
<1> HIDE DEF u
<1>2. Len(s) \in Nat /\ DOMAIN s = 1..Len(s) /\ DOMAIN u = 1..(Len(s) + 1)
  BY <1>1, LenProperties
<1>3. u # <<>>
  BY <1>1, <1>2, EmptySeq
<1> QED
  BY <1>1, <1>2, <1>3 DEF u

(* A value within the last, or the first value, gets a table and a frame. *)
LEMMA PushFrame ==
  ASSUME NEW h, IsHeap(h), NEW S, NEW md \in Seq(S), Len(md) = Len(h),
         NEW w \in Seq(FrameType), NEW st \in Seq(Slots),
         NEW bs \in Nat, NEW bh \in Nat, Len(st) = bs + Len(w), bh <= Len(h),
         FramesAt(h, md, w, st, bs, bh), FaithfulAt(h, md, w, st, bs, bh),
         NEW d \in Compounds, d \in S
  PROVE  LET g == Append(h, NewTable)
             me == Append(md, d)
             u == Append(w, NewFrame(d))
             su == Append(st, Len(h) + 1)
         IN  FramesAt(g, me, u, su, bs, bh) /\ FaithfulAt(g, me, u, su, bs, bh)
<1> DEFINE g == Append(h, NewTable)
           me == Append(md, d)
           u == Append(w, NewFrame(d))
           su == Append(st, Len(h) + 1)
<1>1. NewFrame(d) \in FrameType /\ NewFrame(d).doc = d /\ NewFrame(d).done = 0
  BY DEF NewFrame, FrameType
<1>2. /\ Len(h) \in Nat /\ DOMAIN h = 1..Len(h) /\ Len(g) = Len(h) + 1
      /\ DOMAIN g = 1..(Len(h) + 1) /\ g[Len(h) + 1] = NewTable
      /\ \A i \in 1..Len(h) : g[i] = h[i]
  BY HeapIsSeq, HeapAppend
<1>3. /\ me[Len(h) + 1] = d /\ \A i \in 1..Len(h) : me[i] = md[i]
  BY AppendSeq
<1>4. /\ Len(w) \in Nat /\ DOMAIN w = 1..Len(w) /\ DOMAIN u = 1..(Len(w) + 1)
      /\ u[Len(w) + 1] = NewFrame(d) /\ \A i \in 1..Len(w) : u[i] = w[i]
  BY <1>1, AppendSeq
<1>5. /\ su[bs + (Len(w) + 1)] = Len(h) + 1
      /\ \A i \in 1..Len(w) : su[bs + i] = st[bs + i]
  <2>1. Len(h) + 1 \in Slots
    BY <1>2 DEF Slots
  <2>2. /\ su[Len(st) + 1] = Len(h) + 1 /\ \A i \in 1..Len(st) : su[i] = st[i]
    BY <2>1, AppendSeq
  <2> HIDE DEF su
  <2> QED BY <1>4, <2>2
<1> HIDE DEF g, me, u, su
<1>13. \A i \in DOMAIN u : i \in 1..Len(w) \/ i = Len(w) + 1
  BY <1>4
<1>6. \A i \in 1..Len(w) : st[bs + i] \in (bh + 1)..Len(h) /\ md[st[bs + i]] = w[i].doc
  BY <1>4 DEF FramesAt
<1>7. \A i \in DOMAIN u : su[bs + i] \in (bh + 1)..Len(g) /\ me[su[bs + i]] = u[i].doc
  <2>1. ASSUME NEW i \in 1..Len(w)
        PROVE  su[bs + i] \in (bh + 1)..Len(g) /\ me[su[bs + i]] = u[i].doc
    <3>1. su[bs + i] = st[bs + i] /\ st[bs + i] \in 1..Len(h) /\ st[bs + i] \in (bh + 1)..Len(g)
      BY <1>2, <1>5, <1>6
    <3> QED BY <1>3, <1>4, <1>6, <3>1
  <2>2. LET i == Len(w) + 1
        IN  su[bs + i] \in (bh + 1)..Len(g) /\ me[su[bs + i]] = u[i].doc
    BY <1>1, <1>2, <1>3, <1>4, <1>5
  <2> QED BY <1>13, <2>1, <2>2
<1>8. \A n \in (bh + 1)..Len(g) : me[n] \in Compounds
  <2>1. \A n \in (bh + 1)..Len(h) : md[n] \in Compounds
    BY DEF FramesAt
  <2> QED BY <1>2, <1>3, <2>1
<1>9. ASSUME NEW i \in DOMAIN u, NEW j \in DOMAIN u, i # j
      PROVE  su[bs + i] # su[bs + j]
  <2>1. \A k \in 1..Len(w) : su[bs + k] # Len(h) + 1
    BY <1>2, <1>5, <1>6
  <2>2. CASE i \in 1..Len(w) /\ j \in 1..Len(w)
    BY <2>2, <1>4, <1>5, <1>9 DEF FramesAt
  <2>3. CASE i \in 1..Len(w) /\ j = Len(w) + 1
    BY <2>1, <2>3, <1>5
  <2>4. CASE j \in 1..Len(w) /\ i = Len(w) + 1
    BY <2>1, <2>4, <1>5
  <2> QED BY <1>9, <1>13, <2>2, <2>3, <2>4
<1>10. ASSUME NEW n \in 1..Len(h), NEW m, Holds(h, md, n, m)
       PROVE  Holds(g, me, n, m)
  <2>1. g[n] = h[n] /\ DOMAIN h \subseteq DOMAIN g /\ me[n] = md[n]
    BY <1>2, <1>3
  <2>2. \A i \in DOMAIN h : g[i] = h[i] /\ me[i] = md[i]
    BY <1>2, <1>3
  <2> QED BY ONLY <2>1, <2>2, <1>10, HoldsStays
<1>11. \A i \in DOMAIN u : Holds(g, me, su[bs + i], u[i].done)
  <2>1. ASSUME NEW i \in 1..Len(w)
        PROVE  Holds(g, me, su[bs + i], u[i].done)
    <3>1. su[bs + i] = st[bs + i] /\ st[bs + i] \in 1..Len(h) /\ u[i] = w[i]
      BY <1>2, <1>4, <1>5, <1>6
    <3>2. Holds(h, md, st[bs + i], w[i].done)
      BY <1>4 DEF FaithfulAt
    <3> QED BY <1>10, <3>1, <3>2
  <2>2. Holds(g, me, Len(h) + 1, 0)
    BY <1>2 DEF Holds, NewTable
  <2>3. Holds(g, me, su[bs + (Len(w) + 1)], u[Len(w) + 1].done)
    BY <1>1, <1>4, <1>5, <2>2
  <2> QED BY <1>13, <2>1, <2>3
<1>12. ASSUME NEW n \in (bh + 1)..Len(g)
       PROVE  IsWhole(g, me, n) \/ \E i \in DOMAIN u : n = su[bs + i]
  <2>1. CASE n = Len(h) + 1
    BY <2>1, <1>4, <1>5
  <2>2. CASE n \in (bh + 1)..Len(h)
    <3>1. CASE IsWhole(h, md, n)
      BY <2>2, <3>1, <1>3, <1>10 DEF IsWhole
    <3>2. CASE \E i \in DOMAIN w : n = st[bs + i]
      BY <3>2, <1>4, <1>5
    <3> QED BY <2>2, <3>1, <3>2 DEF FaithfulAt
  <2> QED BY <1>2, <2>1, <2>2
<1> QED
  BY <1>7, <1>8, <1>9, <1>11, <1>12 DEF FramesAt, FaithfulAt, g, me, u, su

LEMMA OpenKeeps ==
  ASSUME JsonInv, Open
  PROVE  JsonInv'
<1>1. /\ HasMember /\ work # <<>> /\ Value \notin Scalars \cup {Null}
      /\ heap' = Append(heap, NewTable) /\ made' = Append(made, Value)
      /\ stack' = Append(stack, Len(heap) + 1) /\ work' = Append(work, NewFrame(Value))
      /\ base' = base /\ nulls' = nulls
  BY DEF Open, PushTable, HasMember, NewFrame
<1>2. /\ JsonTypeOK /\ IsHeap(heap) /\ stack \in Seq(Slots) /\ work \in Seq(FrameType)
      /\ made \in Seq(Json \cup {Null}) /\ Len(made) = Len(heap) /\ nulls \in Nat
      /\ Len(base.heap) <= Len(heap)
  BY <1>1 DEF JsonInv, JsonTypeOK
<1>3. /\ Len(heap) \in Nat /\ Len(base.stack) \in Nat /\ Len(base.heap) \in Nat
      /\ DOMAIN base.heap = 1..Len(base.heap) /\ DOMAIN base.stack = 1..Len(base.stack)
      /\ DOMAIN heap = 1..Len(heap)
  BY <1>1, <1>2, MemberType, HeapIsSeq, LenProperties DEF JsonTypeOK
<1>4. Value \in Compounds /\ Value \in Json /\ Value \in Json \cup {Null}
  BY <1>1, <1>2, MemberType DEF Compounds
<1>5. /\ IsHeap(heap') /\ Len(heap') = Len(heap) + 1 /\ \A n \in DOMAIN heap : heap'[n] = heap[n]
  BY <1>1, <1>2, HeapAppend
<1>6. made' \in Seq(Json \cup {Null}) /\ Len(made') = Len(heap')
  BY <1>1, <1>2, <1>4, <1>5, AppendSeq
<1>7. /\ stack' \in Seq(Slots) /\ Len(stack') = Len(stack) + 1 /\ Len(stack) \in Nat
      /\ \A i \in 1..Len(stack) : stack'[i] = stack[i]
  <2>1. Len(heap) + 1 \in Slots
    BY <1>3 DEF Slots
  <2> QED BY <1>1, <1>2, <2>1, AppendSeq
<1>8. NewFrame(Value) \in FrameType /\ NewFrame(Value).doc = Value /\ NewFrame(Value).done = 0
  BY <1>4 DEF NewFrame, FrameType
<1>9. /\ work' \in Seq(FrameType) /\ Len(work') = Len(work) + 1 /\ work' # <<>>
      /\ Len(work) \in Nat /\ DOMAIN work = 1..Len(work) /\ DOMAIN work' = 1..(Len(work) + 1)
      /\ work'[Len(work) + 1] = NewFrame(Value) /\ \A i \in 1..Len(work) : work'[i] = work[i]
  BY <1>1, <1>2, <1>8, AppendSeq
<1>10. \A i \in DOMAIN work' : i \in DOMAIN work \/ i = Len(work) + 1
  BY <1>9
<1>11. \A i \in DOMAIN work' : work'[i].done <= Len(work'[i].doc.members)
  <2>1. \A i \in DOMAIN work : work[i].done <= Len(work[i].doc.members)
    BY <1>2 DEF JsonTypeOK
  <2>2. 0 <= Len(Value.members)
    BY <1>4, JsonAssumption, LenProperties
  <2> QED BY <1>8, <1>9, <1>10, <2>1, <2>2
<1>12. JsonTypeOK'
  BY <1>1, <1>2, <1>5, <1>6, <1>7, <1>9, <1>11 DEF JsonTypeOK
<1>13. Len(stack) + nulls = Len(base.stack) + Len(work) /\ Len(work) >= 1
  BY <1>1, <1>2, MemberType DEF JsonInv, StackEffect
<1>14. StackEffect'
  <2>1. Len(stack') + nulls' = Len(base.stack) + Len(work')
    <3>1. /\ Len(stack') = Len(stack) + 1 /\ Len(work') = Len(work) + 1
          /\ Len(stack) \in Nat /\ Len(work) \in Nat
      BY <1>7, <1>9
    <3> DEFINE bs == base.stack
    <3>2. /\ nulls' = nulls /\ nulls \in Nat /\ Len(bs) \in Nat
          /\ Len(stack) + nulls = Len(bs) + Len(work)
      BY <1>1, <1>2, <1>3, <1>13
    <3> HIDE DEF bs
    <3>3. Len(stack') + nulls' = Len(bs) + Len(work')
      BY <3>1, <3>2
    <3> QED BY <3>3 DEF bs
  <2>2. ASSUME NEW i \in DOMAIN base.stack, i + nulls <= Len(base.stack) + 1
        PROVE  stack'[i] = base.stack[i]
    <3>1. i \in 1..Len(stack)
      BY <1>2, <1>3, <1>7, <1>9, <1>13, <2>2
    <3>2. stack[i] = base.stack[i]
      BY <1>1, <2>2 DEF JsonInv, StackEffect
    <3> QED BY <1>7, <3>1, <3>2
  <2> QED BY <1>1, <2>1, <2>2 DEF StackEffect
<1>15. Nested(work')
  <2>1. Nested(work)
    BY FramesAre DEF JsonInv
  <2>2. /\ work'[Len(work)].done < Len(work'[Len(work)].doc.members)
        /\ work'[Len(work)].doc.members[work'[Len(work)].done + 1][2] = Value
    <3>1. work'[Len(work)] = Frame /\ Frame.done < Len(Frame.doc.members)
      BY <1>1, <1>9, <1>13 DEF Frame, HasMember
    <3> QED BY <3>1 DEF Value
  <2>3. Len(work') - 1 = Len(work)
    BY <1>9
  <2>4. ASSUME NEW i \in 1..Len(work)
        PROVE  /\ work'[i].done < Len(work'[i].doc.members)
               /\ work'[i].doc.members[work'[i].done + 1][2] = work'[i+1].doc
    <3>1. CASE i = Len(work)
      BY <1>8, <1>9, <2>2, <3>1
    <3>2. CASE i \in 1..(Len(work) - 1)
      <4>1. work'[i] = work[i] /\ work'[i+1] = work[i+1]
        BY <1>9, <3>2
      <4> QED BY <2>1, <3>2, <4>1 DEF Nested
    <3>3. i = Len(work) \/ i \in 1..(Len(work) - 1)
      <4>1. Len(work) \in Nat
        BY <1>9
      <4> QED BY <4>1
    <3> QED BY <3>1, <3>2, <3>3
  <2> QED BY <2>3, <2>4 DEF Nested
<1>16. nulls = 0 => /\ FramesAt(heap, made, work, stack, Len(base.stack), Len(base.heap))'
                    /\ FaithfulAt(heap, made, work, stack, Len(base.stack), Len(base.heap))'
  <2> HAVE nulls = 0
  <2>1. /\ FramesAt(heap, made, work, stack, Len(base.stack), Len(base.heap))
        /\ FaithfulAt(heap, made, work, stack, Len(base.stack), Len(base.heap))
        /\ Len(stack) = Len(base.stack) + Len(work)
    BY <1>1, TopOfStack
  <2>2. /\ FramesAt(heap', made', work', stack', Len(base.stack), Len(base.heap))
        /\ FaithfulAt(heap', made', work', stack', Len(base.stack), Len(base.heap))
    BY <1>1, <1>2, <1>3, <1>4, <2>1, PushFrame
  <2> QED BY <1>1, <2>2
<1>17. FramesInv' /\ Faithful'
  BY <1>1, <1>15, <1>16, FramesAreNext
<1>18. OthersKept'
  BY <1>1, <1>2, <1>3, <1>5 DEF OthersKept, JsonInv
<1> QED
  BY <1>1, <1>2, <1>3, <1>5, <1>12, <1>14, <1>17, <1>18 DEF JsonInv

(* A conversion may start on any stack and any tables. *)
LEMMA BeginKeeps ==
  ASSUME JsonTypeOK, work = <<>>, NEW d \in Compounds, Begin(d)
  PROVE  /\ JsonInv' /\ nulls' = 0 /\ base' = [stack |-> stack, heap |-> heap]
         /\ work' # <<>> /\ work'[1].doc = d /\ Len(work') = 1
<1>1. /\ heap' = Append(heap, NewTable) /\ made' = Append(made, d)
      /\ stack' = Append(stack, Len(heap) + 1) /\ work' = Append(work, NewFrame(d))
      /\ base'.stack = stack /\ base'.heap = heap /\ nulls' = 0
      /\ base' = [stack |-> stack, heap |-> heap]
      /\ work' = <<NewFrame(d)>>
  BY DEF Begin, PushTable, NewFrame
<1>2. /\ IsHeap(heap) /\ stack \in Seq(Slots) /\ work \in Seq(FrameType)
      /\ made \in Seq(Json \cup {Null}) /\ Len(made) = Len(heap)
  BY DEF JsonTypeOK
<1>3. /\ Len(heap) \in Nat /\ DOMAIN heap = 1..Len(heap)
      /\ Len(stack) \in Nat /\ DOMAIN stack = 1..Len(stack)
  BY <1>2, HeapIsSeq, LenProperties
<1>4. d \in Json \cup {Null}
  BY DEF Compounds
<1>5. /\ IsHeap(heap') /\ Len(heap') = Len(heap) + 1 /\ \A n \in DOMAIN heap : heap'[n] = heap[n]
  BY <1>1, <1>2, HeapAppend
<1>6. made' \in Seq(Json \cup {Null}) /\ Len(made') = Len(heap')
  BY <1>1, <1>2, <1>4, <1>5, AppendSeq
<1>7. /\ stack' \in Seq(Slots) /\ Len(stack') = Len(stack) + 1
      /\ \A i \in 1..Len(stack) : stack'[i] = stack[i]
  <2>1. Len(heap) + 1 \in Slots
    BY <1>3 DEF Slots
  <2> QED BY <1>1, <1>2, <2>1, AppendSeq
<1>8. NewFrame(d) \in FrameType /\ NewFrame(d).doc = d /\ NewFrame(d).done = 0
  BY DEF NewFrame, FrameType
<1>9. /\ work' \in Seq(FrameType) /\ Len(work') = 1 /\ work' # <<>>
      /\ DOMAIN work' = {1} /\ work'[1] = NewFrame(d)
  BY <1>1, <1>8
<1>10. 0 <= Len(d.members)
  BY JsonAssumption, LenProperties
<1>11. JsonTypeOK'
  BY <1>1, <1>2, <1>5, <1>6, <1>7, <1>8, <1>9, <1>10 DEF JsonTypeOK
<1>12. StackEffect'
  BY <1>1, <1>3, <1>7, <1>9 DEF StackEffect
<1>13. Nested(work')
  BY <1>9 DEF Nested
<1>14. /\ FramesAt(heap, made, work, stack, Len(stack), Len(heap))
       /\ FaithfulAt(heap, made, work, stack, Len(stack), Len(heap))
  BY <1>3 DEF FramesAt, FaithfulAt
<1>15. /\ FramesAt(heap', made', work', stack', Len(stack), Len(heap))
       /\ FaithfulAt(heap', made', work', stack', Len(stack), Len(heap))
  <2>1. Len(stack) = Len(stack) + Len(work) /\ Len(heap) <= Len(heap)
    BY <1>3
  <2>2. /\ heap' = Append(heap, NewTable) /\ made' = Append(made, d)
        /\ stack' = Append(stack, Len(heap) + 1) /\ work' = Append(work, NewFrame(d))
    BY <1>1
  <2>3. Len(stack) \in Nat /\ Len(heap) \in Nat
    BY <1>3
  <2> HIDE <1>1
  <2> QED BY ONLY <1>2, <1>4, <1>14, <2>1, <2>2, <2>3, d \in Compounds, PushFrame
<1>16. FramesInv' /\ Faithful'
  BY <1>1, <1>13, <1>15, FramesAreNext
<1>17. OthersKept'
  BY <1>1, <1>5 DEF OthersKept
<1> QED
  BY <1>1, <1>3, <1>5, <1>8, <1>9, <1>11, <1>12, <1>16, <1>17 DEF JsonInv

(* The end of a value within another. *)
LEMMA CloseKeeps ==
  ASSUME JsonInv, Close
  PROVE  JsonInv'
<1> DEFINE outer == Popped(work, 1)
           n == Len(work) - 1
           bs == base.stack
<1>1. /\ Len(work) > 1 /\ work # <<>> /\ ~HasMember /\ Len(stack) >= 2 /\ Slot(2) \in DOMAIN heap
      /\ heap' = Put(heap, Slot(2), NextKey(outer), Slot(1))
      /\ stack' = Popped(stack, 1) /\ work' = Stepped(outer)
      /\ made' = made /\ base' = base /\ nulls' = nulls
  <2>1. Len(work) > 1 => work # <<>>
    OBVIOUS
  <2> QED BY <2>1 DEF Close, Put, CanSet, SetTop, NextKey
<1>2. /\ JsonTypeOK /\ IsHeap(heap) /\ stack \in Seq(Slots) /\ work \in Seq(FrameType)
      /\ nulls \in Nat /\ Len(base.heap) <= Len(heap)
  BY <1>1 DEF JsonInv, JsonTypeOK
<1>3. /\ Len(heap) \in Nat /\ Len(bs) \in Nat /\ Len(base.heap) \in Nat
      /\ DOMAIN base.heap = 1..Len(base.heap) /\ DOMAIN bs = 1..Len(bs)
      /\ DOMAIN heap = 1..Len(heap) /\ Len(stack) \in Nat /\ Len(work) \in Nat
      /\ DOMAIN work = 1..Len(work)
  BY <1>1, <1>2, MemberType, HeapIsSeq, LenProperties DEF JsonTypeOK
<1>4. /\ Len(stack) + nulls = Len(bs) + Len(work)
      /\ \A i \in DOMAIN bs : i + nulls <= Len(bs) + 1 => stack[i] = bs[i]
  BY <1>1 DEF JsonInv, StackEffect
<1> HIDE DEF bs
<1>5. /\ outer \in Seq(FrameType) /\ Len(outer) = n
      /\ \A i \in 1..n : outer[i] = work[i]
  BY <1>1, <1>2, PopSeq
<1>6. n \in Nat \ {0} /\ n = Len(work) - 1 /\ outer # <<>> /\ DOMAIN outer = 1..n
      /\ outer[n] = work[n]
  <2>1. n \in Nat \ {0}
    BY <1>1, <1>3
  <2>2. DOMAIN outer = 1..Len(outer)
    BY <1>5, LenProperties
  <2> HIDE DEF n, outer
  <2>3. outer # <<>>
    BY <1>5, <2>1, EmptySeq
  <2> QED BY <1>5, <2>1, <2>2, <2>3 DEF n
<1> HIDE DEF outer, n
<1>7. /\ work' \in Seq(FrameType) /\ Len(work') = n /\ work' # <<>> /\ DOMAIN work' = 1..n
      /\ work'[n].doc = work[n].doc /\ work'[n].done = work[n].done + 1
      /\ \A i \in 1..(n - 1) : work'[i] = work[i]
  <2>1. \A i \in 1..(n - 1) : i \in 1..n
    BY <1>6
  <2>2. /\ work' \in Seq(FrameType) /\ Len(work') = n /\ work' # <<>> /\ DOMAIN work' = 1..n
        /\ work'[n].doc = outer[n].doc /\ work'[n].done = outer[n].done + 1
        /\ \A i \in 1..(n - 1) : work'[i] = outer[i]
    BY <1>1, <1>5, <1>6, SteppedSeq
  <2> QED BY <1>5, <1>6, <2>1, <2>2
<1>8. Nested(work)
  BY FramesAre DEF JsonInv
<1>9. /\ work[n].done < Len(work[n].doc.members)
      /\ work[n].doc.members[work[n].done + 1][2] = work[n+1].doc
      /\ n + 1 = Len(work)
  <2>1. n \in 1..(Len(work) - 1) /\ n + 1 = Len(work)
    BY <1>6
  <2> QED BY <1>8, <2>1 DEF Nested
<1>10. /\ NextValue(outer) = Frame.doc
       /\ outer[Len(outer)].done < Len(outer[Len(outer)].doc.members)
  BY <1>5, <1>6, <1>9 DEF NextValue, Frame
<1>11. n \in DOMAIN work /\ Len(work) \in DOMAIN work
  BY <1>1, <1>3, <1>6
<1>12. NextKey(outer) \in Keys
  <2>1. /\ work[n].doc.members \in Seq(Keys \X Json)
        /\ work[n].done \in Nat /\ Len(work[n].doc.members) \in Nat
    BY <1>1, <1>2, <1>11, MemberType
  <2>2. work[n].done + 1 \in 1..Len(work[n].doc.members)
    BY <1>9, <2>1
  <2>3. work[n].doc.members[work[n].done + 1] \in Keys \X Json
    BY <2>1, <2>2, ElementOfSeq
  <2> QED BY <1>5, <1>6, <2>3 DEF NextKey
<1>13. Slot(1) \in Slots
  BY <1>1, <1>2, <1>3, ElementOfSeq DEF Slot
<1>14. IsHeap(heap') /\ Len(heap') = Len(heap)
  BY <1>1, <1>2, <1>12, <1>13, HeapSet
<1>15. /\ stack' \in Seq(Slots) /\ Len(stack') = Len(stack) - 1
       /\ \A i \in 1..(Len(stack) - 1) : stack'[i] = stack[i]
  BY <1>1, <1>2, <1>3, PopSeq
<1>16. \A i \in DOMAIN work' : work'[i].done <= Len(work'[i].doc.members)
  <2>1. ASSUME NEW i \in 1..(n - 1)
        PROVE  work'[i].done <= Len(work'[i].doc.members)
    <3>1. i \in DOMAIN work
      BY <1>3, <1>6
    <3> QED BY <1>2, <1>7, <3>1 DEF JsonTypeOK
  <2>2. work'[n].done <= Len(work'[n].doc.members)
    <3>1. work[n].done \in Nat /\ Len(work[n].doc.members) \in Nat
      BY <1>1, <1>2, <1>11, MemberType
    <3> QED BY <1>7, <1>9, <3>1
  <2>3. \A i \in 1..n : i = n \/ i \in 1..(n - 1)
    BY <1>6
  <2> QED BY <1>7, <2>1, <2>2, <2>3
<1>17. JsonTypeOK'
  BY <1>1, <1>2, <1>7, <1>14, <1>15, <1>16 DEF JsonTypeOK
<1>18. StackEffect'
  <2>1. /\ Len(stack') = Len(stack) - 1 /\ Len(work') = n /\ n = Len(work) - 1 /\ nulls' = nulls
    BY <1>1, <1>6, <1>7, <1>15
  <2>2. Len(stack') + nulls' = Len(bs) + Len(work')
    BY <1>2, <1>3, <1>4, <2>1
  <2>3. ASSUME NEW i \in DOMAIN bs, i + nulls <= Len(bs) + 1
        PROVE  stack'[i] = bs[i]
    <3>1. i \in 1..Len(bs) /\ Len(work) >= 2
      BY <1>1, <1>3
    <3>2. i \in 1..(Len(stack) - 1)
      BY <1>2, <1>3, <1>4, <2>3, <3>1
    <3> QED BY <1>4, <1>15, <2>3, <3>2
  <2> QED BY <1>1, <2>1, <2>2, <2>3 DEF StackEffect, bs
<1>19. ASSUME nulls = 0
       PROVE  /\ Filling(heap, made, outer, stack', Len(bs), Len(base.heap))
              /\ Slot(2) = stack'[Len(bs) + n]
              /\ Same(heap, made, Slot(1), NextValue(outer))
  <2>1. /\ Len(stack) = Len(bs) + Len(work)
        /\ Slot(1) = stack[Len(bs) + Len(work)] /\ Slot(2) = stack[Len(bs) + n]
        /\ FramesAt(heap, made, work, stack, Len(bs), Len(base.heap))
        /\ FaithfulAt(heap, made, work, stack, Len(bs), Len(base.heap))
    BY <1>1, <1>6, <1>19, TopOfStack DEF bs
  <2>2. \A i \in 1..n : stack'[Len(bs) + i] = stack[Len(bs) + i] /\ i \in DOMAIN work
    <3>1. \A i \in 1..n : Len(bs) + i \in 1..(Len(stack) - 1) /\ i \in DOMAIN work
      <4>1. Len(stack) = Len(bs) + Len(work)
        BY <2>1
      <4> QED BY <1>3, <1>6, <4>1
    <3> QED BY <1>15, <3>1
  <2>3. FramesAt(heap, made, outer, stack', Len(bs), Len(base.heap))
    BY <1>5, <1>6, <2>1, <2>2 DEF FramesAt
  <2>4. FaithfulAt(heap, made, outer, stack', Len(bs), Len(base.heap))
    <3>1. \A i \in DOMAIN outer : Holds(heap, made, stack'[Len(bs) + i], outer[i].done)
      BY <1>5, <1>6, <2>1, <2>2 DEF FaithfulAt
    <3>2. ASSUME NEW k \in (Len(base.heap) + 1)..Len(heap)
          PROVE  IsWhole(heap, made, k) \/ \E i \in DOMAIN outer : k = stack'[Len(bs) + i]
      <4>1. CASE \E i \in 1..n : k = stack[Len(bs) + i]
        BY <4>1, <1>6, <2>2
      <4>2. CASE k = stack[Len(bs) + Len(work)]
        <5>1. Holds(heap, made, k, Frame.done) /\ made[k] = Frame.doc
          BY <4>2, <1>11, <2>1 DEF FaithfulAt, FramesAt, Frame
        <5>2. Frame.done = Len(Frame.doc.members)
          <6>1. /\ Frame.done \in Nat /\ Len(Frame.doc.members) \in Nat
                /\ Frame.done <= Len(Frame.doc.members)
            BY <1>1, <1>2, <1>11, MemberType DEF Frame
          <6> QED BY <1>1, <6>1 DEF HasMember
        <5> QED BY <5>1, <5>2 DEF IsWhole
      <4>3. \A i \in DOMAIN work : i \in 1..n \/ i = Len(work)
        BY <1>3, <1>6
      <4> QED BY <4>1, <4>2, <4>3, <2>1 DEF FaithfulAt
    <3> QED BY <3>1, <3>2 DEF FaithfulAt
  <2>5. Nested(outer)
    <3>1. \A i \in 1..(n - 1) : i \in 1..n /\ i + 1 \in 1..n /\ i \in 1..(Len(work) - 1)
      BY <1>6
    <3> QED BY <1>5, <1>8, <3>1 DEF Nested
  <2>6. Same(heap, made, Slot(1), NextValue(outer))
    <3>1. /\ Slot(1) \in (Len(base.heap) + 1)..Len(heap)
          /\ made[Slot(1)] = Frame.doc
      BY <1>11, <2>1 DEF FramesAt, Frame
    <3>2. made[Slot(1)] \in Compounds
      BY <2>1, <3>1 DEF FramesAt
    <3>3. Slot(1) \in DOMAIN heap
      BY <1>3, <3>1
    <3> QED BY <1>10, <3>1, <3>2, <3>3 DEF Same, Compounds
  <2> QED
    BY <1>2, <1>3, <1>5, <1>6, <1>10, <2>1, <2>2, <2>3, <2>4, <2>5, <2>6 DEF Filling
<1>20. ASSUME nulls = 0
       PROVE  /\ FramesAt(heap', made, work', stack', Len(bs), Len(base.heap))
              /\ FaithfulAt(heap', made, work', stack', Len(bs), Len(base.heap))
              /\ \A i \in 1..Len(base.heap) : heap'[i] = heap[i]
  <2>1. heap' = Put(heap, stack'[Len(bs) + Len(outer)], NextKey(outer), Slot(1))
    BY <1>1, <1>5, <1>19, <1>20
  <2> QED BY <1>1, <1>13, <1>19, <1>20, <2>1, StoreStep
<1>21. Nested(work')
  <2>1. \A i \in 1..(n - 1) : i + 1 = n \/ i + 1 \in 1..(n - 1)
    BY <1>6
  <2>2. \A i \in 1..(n - 1) : work'[i] = work[i] /\ work'[i+1].doc = work[i+1].doc
    BY <1>7, <2>1
  <2>3. \A i \in 1..(n - 1) : i \in 1..(Len(work) - 1)
    BY <1>6
  <2> QED BY <1>7, <1>8, <2>2, <2>3 DEF Nested
<1>22. FramesInv' /\ Faithful'
  BY <1>1, <1>20, <1>21, FramesAreNext DEF bs
<1>23. OthersKept'
  BY <1>1, <1>3, <1>20 DEF OthersKept, JsonInv
<1> QED
  BY <1>1, <1>2, <1>3, <1>14, <1>17, <1>18, <1>22, <1>23 DEF JsonInv

(* Every step of a conversion. *)
THEOREM ConvertKeeps ==
  ASSUME JsonInv, Convert
  PROVE  JsonInv'
BY PushScalarKeeps, PushNullKeeps, OpenKeeps, CloseKeeps DEF Convert

(* A table that holds all members of its value is of the value's kind. *)
LEMMA KindOfWhole ==
  ASSUME NEW h, NEW md, NEW n, md[n] \in Compounds, IsWhole(h, md, n)
  PROVE  IsTableArray(h[n]) <=> md[n].kind = "array" /\ md[n].members # <<>>
<1> DEFINE ms == md[n].members
<1>1. DOMAIN h[n] = {ms[i][1] : i \in 1..Len(ms)}
  BY DEF IsWhole, Holds
<1>2. ms \in Seq(Keys \X Json) /\ Len(ms) \in Nat /\ DOMAIN ms = 1..Len(ms)
  BY JsonAssumption, LenProperties
<1>3. CASE /\ md[n].kind = "array"
           /\ \A i \in DOMAIN ms : ms[i][1] = i
  <2>1. IsTableArray(h[n]) <=> 1 \in 1..Len(ms)
    BY <1>1, <1>2, <1>3 DEF IsTableArray
  <2>2. ms # <<>> <=> 1 \in 1..Len(ms)
    BY <1>2, EmptySeq
  <2> QED BY <1>3, <2>1, <2>2
<1>4. CASE /\ md[n].kind = "object"
           /\ \A i \in DOMAIN ms : ms[i][1] \notin Nat
  BY <1>1, <1>2, <1>4 DEF IsTableArray
<1> QED
  BY <1>3, <1>4, JsonAssumption

(* KindsKept follows: a table written back is of the kind it was read as. *)
THEOREM JsonInvKinds == JsonInv => KindsKept
<1> SUFFICES ASSUME JsonInv, Converted, nulls = 0, NEW n \in New
             PROVE  IsTableArray(heap[n]) <=> made[n].kind = "array" /\ made[n].members # <<>>
  BY DEF KindsKept
<1>1. work # <<>> /\ JsonTypeOK
  BY EmptySeq DEF Converted, JsonInv
<1>2. /\ made[n] \in Compounds
      /\ IsWhole(heap, made, n) \/ \E i \in DOMAIN work : n = Filled(i)
  BY <1>1 DEF JsonInv, FramesInv, Faithful
<1>3. ASSUME NEW i \in DOMAIN work, n = Filled(i)
      PROVE  IsWhole(heap, made, n)
  <2>1. /\ i = 1 /\ Len(work) = 1 /\ work[1] = Frame
        /\ Frame.done \in Nat /\ Len(Frame.doc.members) \in Nat
        /\ Frame.done <= Len(Frame.doc.members)
    BY <1>1, <1>3, MemberType DEF Converted, Frame
  <2>2. Frame.done = Len(Frame.doc.members)
    BY <1>1, <2>1 DEF Converted, HasMember
  <2>3. Holds(heap, made, n, Frame.done) /\ made[n] = Frame.doc
    BY <1>1, <1>3, <2>1 DEF JsonInv, Faithful, FramesInv
  <2> QED BY <2>2, <2>3 DEF IsWhole
<1> QED
  BY <1>2, <1>3, KindOfWhole

-------------------------------------------------------------------------------
LEMMA LastOrBefore ==
  ASSUME NEW n \in Nat
  PROVE  \A i \in 1..n : i = n \/ i \in 1..(n - 1)
OBVIOUS

(* The frames after a step: those before it, one of them gone or one added. *)
LEMMA FramesNext ==
  ASSUME JsonInv, Convert
  PROVE  /\ work # <<>> /\ work' # <<>> /\ work'[1].doc = work[1].doc
         /\ \A i \in DOMAIN work' :
              \/ i \in DOMAIN work /\ work'[i].doc = work[i].doc
              \/ HasMember /\ work'[i].doc = Value
<1>1. JsonTypeOK /\ work \in Seq(FrameType)
  BY DEF JsonInv, JsonTypeOK
<1>2. CASE PushScalar \/ PushNull
  <2>1. work # <<>> /\ work' = Stepped(work)
    BY <1>2 DEF PushScalar, PushNull, HasMember
  <2>2. /\ work' # <<>> /\ DOMAIN work' = 1..Len(work) /\ DOMAIN work = 1..Len(work)
        /\ Len(work) \in Nat \ {0} /\ work'[Len(work)].doc = work[Len(work)].doc
        /\ \A i \in 1..(Len(work) - 1) : work'[i] = work[i]
    BY <1>1, <2>1, SteppedSeq
  <2>3. \A i \in 1..Len(work) : i = Len(work) \/ i \in 1..(Len(work) - 1)
    BY <2>2, LastOrBefore
  <2>4. \A i \in DOMAIN work' : i \in DOMAIN work /\ work'[i].doc = work[i].doc
    BY <2>2, <2>3
  <2>5. 1 \in DOMAIN work'
    BY <2>2
  <2> QED BY <2>1, <2>2, <2>4, <2>5
<1>3. CASE Open
  <2>1. /\ HasMember /\ work # <<>> /\ work' = Append(work, NewFrame(Value))
        /\ Value \notin Scalars \cup {Null}
    BY <1>3 DEF Open, HasMember, NewFrame
  <2>2. NewFrame(Value) \in FrameType /\ NewFrame(Value).doc = Value
    BY <1>1, <2>1, MemberType DEF NewFrame, FrameType, Compounds
  <2>3. /\ work' # <<>> /\ DOMAIN work' = 1..(Len(work) + 1) /\ DOMAIN work = 1..Len(work)
        /\ Len(work) \in Nat \ {0} /\ work'[Len(work) + 1] = NewFrame(Value)
        /\ \A i \in 1..Len(work) : work'[i] = work[i]
    BY <1>1, <2>1, <2>2, AppendSeq, EmptySeq
  <2>4. (\A i \in DOMAIN work' : i \in DOMAIN work \/ i = Len(work) + 1) /\ 1 \in DOMAIN work
    BY <2>3
  <2> QED BY <2>1, <2>2, <2>3, <2>4
<1>4. CASE Close
  <2> DEFINE outer == Popped(work, 1)
             n == Len(work) - 1
  <2>1. Len(work) > 1 /\ work # <<>> /\ work' = Stepped(outer)
    <3>1. Len(work) > 1 => work # <<>>
      OBVIOUS
    <3> QED BY <1>4, <3>1 DEF Close
  <2>2. Len(work) \in Nat /\ DOMAIN work = 1..Len(work)
    BY <1>1, LenProperties
  <2>3. outer \in Seq(FrameType) /\ Len(outer) = n /\ \A i \in 1..n : outer[i] = work[i]
    BY <1>1, <2>1, PopSeq
  <2>4. n \in Nat \ {0} /\ (\A i \in 1..n : i = n \/ i \in 1..(n - 1)) /\ 1 \in 1..n
        /\ 1..n \subseteq DOMAIN work
    <3>1. Len(work) \in Nat /\ Len(work) > 1
      BY <2>1, <2>2
    <3>2. n \in Nat \ {0} /\ n + 1 = Len(work)
      BY <3>1
    <3> HIDE DEF n
    <3>3. 1 \in 1..n /\ 1..n \subseteq 1..(n + 1)
      BY <3>2
    <3> QED BY <2>2, <3>2, <3>3, LastOrBefore
  <2> HIDE DEF outer, n
  <2>5. outer # <<>>
    BY <2>3, <2>4, EmptySeq
  <2>6. /\ work' # <<>> /\ DOMAIN work' = 1..n /\ work'[n].doc = outer[n].doc
        /\ \A i \in 1..(n - 1) : work'[i] = outer[i]
    BY <2>1, <2>3, <2>5, SteppedSeq
  <2>7. \A i \in 1..n : work'[i].doc = work[i].doc
    BY <2>3, <2>4, <2>6
  <2> QED BY <2>1, <2>4, <2>6, <2>7
<1> QED
  BY <1>2, <1>3, <1>4 DEF Convert

(* What a step leaves alone. *)
LEMMA ConvertGrows ==
  ASSUME JsonInv, Convert
  PROVE  /\ base' = base /\ nulls' >= nulls /\ Len(heap') >= Len(heap)
         /\ \A n \in 1..Len(heap) : made'[n] = made[n]
<1>1. /\ JsonTypeOK /\ made \in Seq(Json \cup {Null}) /\ Len(made) = Len(heap)
      /\ IsHeap(heap) /\ nulls \in Nat
  BY DEF JsonInv, JsonTypeOK
<1>2. Len(heap) \in Nat /\ DOMAIN heap = 1..Len(heap)
  BY <1>1, HeapIsSeq
<1>3. CASE PushScalar
  <2>1. /\ HasMember /\ work # <<>> /\ Value \in Scalars /\ Slot(1) \in DOMAIN heap
        /\ heap' = Put(heap, Slot(1), Key, Value)
        /\ UNCHANGED <<stack, made, base, nulls>>
    BY <1>3 DEF PushScalar, HasMember, Put
  <2>2. Key \in Keys /\ Value \in Slots
    BY <1>1, <2>1, MemberType DEF Slots
  <2>3. Len(heap') = Len(heap)
    BY <1>1, <2>1, <2>2, HeapSet
  <2> QED BY <1>1, <1>2, <2>1, <2>3
<1>4. CASE PushNull \/ Close
  <2>1. PICK k : heap' = Put(heap, Slot(2), k, Slot(1))
    BY <1>4 DEF PushNull, Close, SetTop, Put
  <2>2. made' = made /\ base' = base /\ (nulls' = nulls \/ nulls' = nulls + 1)
    BY <1>4 DEF PushNull, Close
  <2>3. IsHeap(heap')
    BY <1>4, PushNullKeeps, CloseKeeps DEF JsonInv, JsonTypeOK
  <2>4. DOMAIN heap' = DOMAIN heap
    BY <2>1 DEF Put
  <2>5. Len(heap') = Len(heap)
    BY <1>2, <2>3, <2>4, HeapIsSeq
  <2> QED BY <1>1, <1>2, <2>2, <2>5
<1>5. CASE Open
  <2>1. /\ HasMember /\ work # <<>> /\ Value \notin Scalars \cup {Null}
        /\ heap' = Append(heap, NewTable) /\ made' = Append(made, Value)
        /\ base' = base /\ nulls' = nulls
    BY <1>5 DEF Open, PushTable, HasMember
  <2>2. Value \in Json \cup {Null}
    BY <1>1, <2>1, MemberType
  <2>3. Len(heap') = Len(heap) + 1 /\ \A n \in 1..Len(heap) : made'[n] = made[n]
    BY <1>1, <2>1, <2>2, HeapAppend, AppendSeq
  <2> QED BY <1>1, <1>2, <2>1, <2>3
<1> QED
  BY <1>3, <1>4, <1>5 DEF Convert

(* The values converted stay within a set that is closed under membership. *)
LEMMA ConvertWithin ==
  ASSUME JsonInv, Convert,
         NEW S, Null \notin S,
         \A v \in S \cap Compounds : \A i \in DOMAIN v.members : v.members[i][2] \in S,
         \A i \in DOMAIN work : work[i].doc \in S
  PROVE  nulls' = nulls /\ \A i \in DOMAIN work' : work'[i].doc \in S
<1>1. JsonTypeOK /\ work # <<>>
  BY FramesNext DEF JsonInv
<1>2. ASSUME HasMember PROVE Value \in S
  <2>1. Len(work) \in DOMAIN work /\ Frame \in FrameType
        /\ Frame.done + 1 \in 1..Len(Frame.doc.members)
        /\ Frame.doc.members \in Seq(Keys \X Json)
    BY <1>1, <1>2, MemberType DEF Frame
  <2>2. Frame.done + 1 \in DOMAIN Frame.doc.members
    BY <2>1, LenProperties
  <2>3. Frame.doc \in S \cap Compounds
    BY <2>1 DEF Frame, FrameType
  <2> QED BY <2>2, <2>3 DEF Value
<1>3. ~PushNull
  BY <1>2 DEF PushNull
<1>4. nulls' = nulls
  BY <1>3 DEF Convert, PushScalar, Open, Close
<1> QED
  BY <1>2, <1>4, FramesNext

(* Between conversions there is nothing to say of frames. *)
LEMMA JsonIdle ==
  ASSUME JsonTypeOK', work' = <<>>
  PROVE  JsonInv'
<1>1. Len(work') = 0
  BY EmptySeq
<1> QED
  BY <1>1 DEF JsonInv, StackEffect, OthersKept, FramesInv, Faithful

===============================================================================
