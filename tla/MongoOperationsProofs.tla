-------------------------- MODULE MongoOperationsProofs --------------------------
(***************************************************************************)
(* MongoOperations keeps IInv, for all rows, replies and arguments.  The   *)
(* steps of a conversion are those of LuaJsonProofs; what is left is how   *)
(* an operation uses its results.                                          *)
(***************************************************************************)
EXTENDS MongoOperations, LuaJsonProofs

(* An operation that neither converts nor touches tables leaves what was   *)
(* said of them.                                                           *)
LEMMA TablesKept ==
  ASSUME IInv, UNCHANGED <<heap, made, base, nulls, lost, rows, results, given, args>>,
         pc # "idle", pc' # "idle", work' = <<>>,
         (pc' = "rows" \/ Found') => pc = "rows"
  PROVE  GivenInv' /\ (pc' \notin {"row", "unparsed"} => RowsInv')
<1>1. Len(given) <= Len(heap)
  BY DEF IInv, GivenInv
<1>2. ArgumentsKept'
  BY DEF IInv, GivenInv, ArgumentsKept
<1>3. GivenInv'
  BY <1>1, <1>2 DEF GivenInv
<1>4. ASSUME pc' \notin {"row", "unparsed"} PROVE RowsInv'
  <2> SUFFICES ASSUME pc' = "rows" \/ Found', lost = 0
               PROVE  RowsInv'
    BY <1>4 DEF RowsInv
  <2>1. /\ results \in DOMAIN heap /\ Len(given) < results
        /\ DOMAIN heap[results] = 1..Len(rows)
        /\ \A i \in 1..Len(rows) : Same(heap, made, heap[results][i], rows[i])
        /\ \A n \in (results + 1)..Len(heap) : made[n] \in Compounds /\ IsWhole(heap, made, n)
    BY DEF IInv, RowsInv, Stored, Before
  <2>2. Before' = heap /\ Stored' = Len(rows)
    BY <1>4 DEF Before, Stored
  <2> QED BY <2>1, <2>2 DEF RowsInv
<1> QED
  BY <1>3, <1>4

LEMMA InitIInv == Init => IInv
<1> SUFFICES ASSUME Init PROVE IInv
  OBVIOUS
<1>1. /\ IsHeap(ScriptTables) /\ Len(ScriptTables) \in Nat /\ DOMAIN ScriptTables = 1..Len(ScriptTables)
  BY OperationsAssumption, HeapIsSeq
<1>2. made \in Seq(Json \cup {Null}) /\ Len(made) = Len(heap)
  <2>1. made \in [1..Len(ScriptTables) -> Json \cup {Null}]
    BY <1>1 DEF Init
  <2>2. made \in Seq(Json \cup {Null})
    BY <1>1, <2>1, SeqDef
  <2>3. Len(made) = Len(ScriptTables)
    BY <1>1, <2>1, <2>2, LenProperties
  <2> QED BY <2>2, <2>3 DEF Init
<1>3. /\ IsHeap(<<>>) /\ Len(<<>>) = 0
  <2>1. \A S : <<>> \in Seq(S) /\ Len(<<>>) = 0
    BY EmptySeq
  <2>2. DOMAIN <<>> = {}
    BY <2>1, LenProperties
  <2> QED BY <2>1, <2>2 DEF IsHeap
<1>4. JsonTypeOK
  BY <1>1, <1>2, <1>3, EmptySeq DEF Init, JsonTypeOK
<1>5. JsonInv
  BY <1>3, <1>4 DEF Init, JsonInv, StackEffect, OthersKept, FramesInv, Faithful
<1>6. TypeOK
  BY <1>3, <1>4, EmptySeq DEF Init, TypeOK
<1>7. PcInv
  BY DEF Init, PcInv
<1>8. LiveInv /\ ReplyInv /\ CursorInv /\ GivenInv /\ RowsInv
  BY DEF Init, LiveInv, ReplyInv, CursorInv, GivenInv, RowsInv, LeakLedger, WritesReported,
         RowsDisplaced, ArgumentsKept, Found, Answered
<1> QED
  BY <1>5, <1>6, <1>7, <1>8 DEF IInv

-------------------------------------------------------------------------------
LEMMA TupleSeq ==
  ASSUME NEW S, NEW w \in S, NEW x \in S, NEW y \in S, NEW z \in S
  PROVE  /\ <<w>> \in Seq(S) /\ <<w>> # <<>>
         /\ <<w, x>> \in Seq(S) /\ <<w, x>> # <<>>
         /\ <<w, x, y>> \in Seq(S) /\ <<w, x, y>> # <<>>
         /\ <<w, x, y, z>> \in Seq(S) /\ <<w, x, y, z>> # <<>>
OBVIOUS

LEMMA CallKeeps ==
  ASSUME IInv, NEW o \in Writes \cup Reads, NEW s \in Arguments, Call(o, s)
  PROVE  IInv'
<1>1. /\ pc = "idle" /\ op' = o /\ args' = s /\ stack' = s /\ given' = heap /\ nulls' = 0
      /\ pc' = "enter" /\ heap' = heap /\ work' = work /\ made' = made /\ base' = base
      /\ live' = live /\ refused' = refused /\ failed' = failed
      /\ rows' = rows /\ results' = results /\ lost' = lost /\ returned' = returned
  BY DEF Call, rowVars
<1>2. s \in Seq(Slots) /\ s # <<>>
  <2>1. DOMAIN heap \subseteq Slots
    BY HeapIsSeq DEF IInv, TypeOK, JsonTypeOK, Slots
  <2>2. Coll \in Slots /\ Number \in Slots /\ Text \in Slots
    BY OperationsAssumption DEF Slots
  <2>3. \/ s = <<Coll>>
        \/ \E d \in Slots : s = <<Coll, d>>
        \/ \E d, x \in Slots : s = <<Coll, d, x>>
        \/ \E d \in Slots : s = <<Coll, d, Number, Number>>
    BY <2>1, <2>2 DEF Arguments
  <2> QED BY <2>2, <2>3, TupleSeq
<1>3. work = <<>>
  BY <1>1 DEF IInv, PcInv
<1>4. JsonTypeOK'
  BY <1>1, <1>2, <1>3 DEF IInv, TypeOK, JsonTypeOK
<1>5. JsonInv'
  BY <1>1, <1>3, <1>4, JsonIdle
<1>6. TypeOK'
  BY <1>1, <1>2, <1>4 DEF IInv, TypeOK, JsonTypeOK
<1>7. PcInv'
  BY <1>1, <1>2, <1>3 DEF IInv, PcInv, Writes, Reads
<1>8. LiveInv'
  BY <1>1 DEF IInv, LiveInv, LeakLedger, Answered
<1>9. ReplyInv' /\ CursorInv' /\ RowsInv'
  BY <1>1 DEF ReplyInv, CursorInv, RowsInv, WritesReported, RowsDisplaced, Found, Answered
<1>10. GivenInv'
  <2>1. Len(heap) <= Len(heap)
    BY HeapIsSeq DEF IInv, TypeOK, JsonTypeOK
  <2> QED BY <1>1, <1>3, <2>1 DEF GivenInv, ArgumentsKept
<1> QED
  BY <1>5, <1>6, <1>7, <1>8, <1>9, <1>10 DEF IInv

LEMMA RaiseKeeps ==
  ASSUME IInv, Raise, pc \notin {"idle", "rows", "done", "undefined"}
  PROVE  IInv'
<1>1. /\ pc' = "done" /\ returned' = Raised /\ work' = <<>>
      /\ stack' = stack /\ heap' = heap /\ made' = made /\ base' = base /\ nulls' = nulls
      /\ op' = op /\ args' = args /\ given' = given
      /\ live' = live /\ refused' = refused /\ failed' = failed
      /\ rows' = rows /\ results' = results /\ lost' = lost
  BY DEF Raise, Abandon, Return, callVars, rowVars
<1>2. ~Answered' /\ ~Found'
  BY <1>1 DEF Answered, Found
<1>3. JsonTypeOK'
  BY <1>1, EmptySeq DEF IInv, TypeOK, JsonTypeOK
<1>4. JsonInv'
  BY <1>1, <1>3, JsonIdle
<1>5. TypeOK'
  BY <1>1, <1>3 DEF IInv, TypeOK
<1>6. PcInv'
  BY <1>1 DEF IInv, PcInv
<1>7. LiveInv'
  <2>1. rows # <<>> => live = {"query", "cursor", "text"}
    BY DEF IInv, TypeOK, PcInv, LiveInv
  <2> QED BY <1>1, <1>2, <2>1 DEF LiveInv, LeakLedger
<1>8. ReplyInv' /\ CursorInv'
  BY <1>1, <1>2 DEF ReplyInv, CursorInv, WritesReported, RowsDisplaced, Under
<1>9. GivenInv' /\ RowsInv'
  BY <1>1, <1>2, TablesKept
<1> QED
  BY <1>4, <1>5, <1>6, <1>7, <1>8, <1>9 DEF IInv

LEMMA UndefinedKeeps ==
  ASSUME IInv, Undefined, pc \notin {"idle", "done"}
  PROVE  IInv'
<1>1. /\ pc' = "undefined" /\ returned' = returned /\ work' = <<>>
      /\ stack' = stack /\ heap' = heap /\ made' = made /\ base' = base /\ nulls' = nulls
      /\ op' = op /\ args' = args /\ given' = given
      /\ live' = live /\ refused' = refused /\ failed' = failed
      /\ rows' = rows /\ results' = results /\ lost' = lost
  BY DEF Undefined, Abandon, callVars, rowVars
<1>2. ~Answered' /\ ~Found'
  BY <1>1 DEF Answered, Found
<1>3. JsonTypeOK'
  BY <1>1, EmptySeq DEF IInv, TypeOK, JsonTypeOK
<1>4. JsonInv'
  BY <1>1, <1>3, JsonIdle
<1>5. TypeOK'
  BY <1>1, <1>3 DEF IInv, TypeOK
<1>6. PcInv'
  BY <1>1 DEF IInv, PcInv
<1>7. LiveInv' /\ ReplyInv' /\ CursorInv'
  BY <1>1, <1>2 DEF LiveInv, LeakLedger, ReplyInv, CursorInv, WritesReported, RowsDisplaced
<1>8. GivenInv' /\ RowsInv'
  BY <1>1, <1>2, TablesKept
<1> QED
  BY <1>4, <1>5, <1>6, <1>7, <1>8 DEF IInv

(* The steps before the database is asked, and those that end a call        *)
(* without a conversion.                                                   *)
Prepare ==
  \/ \E accepted \in BOOLEAN : MakeQuery(accepted) \/ MakeUpdate(accepted)
  \/ ReadPaging

EndPlainly == Refuse \/ WriteFails \/ DeleteSucceeds \/ Count

LEMMA PrepareKeeps ==
  ASSUME IInv, Prepare
  PROVE  IInv'
<1>1. /\ pc \in {"enter", "update", "paging"} /\ pc' \in {"update", "paging", "made"}
      /\ stack' = stack /\ heap' = heap /\ work' = work /\ made' = made /\ base' = base
      /\ nulls' = nulls /\ op' = op /\ args' = args /\ given' = given /\ failed' = failed
      /\ rows' = rows /\ results' = results /\ lost' = lost /\ returned' = returned
  BY DEF Prepare, MakeQuery, MakeUpdate, ReadPaging, jsonVars, callVars, rowVars
<1>2. /\ pc' = "update" => op = "update" /\ pc = "enter"
      /\ pc' = "paging" => op \in {"find", "count"}
      /\ pc = "update" => op = "update"
      /\ refused' \in BOOLEAN
  BY DEF Prepare, MakeQuery, MakeUpdate, ReadPaging, IInv, PcInv, TypeOK
<1>3. work = <<>> /\ ~Answered' /\ ~Found'
  BY <1>1 DEF IInv, PcInv, Answered, Found
<1>4. JsonTypeOK'
  BY <1>1, EmptySeq DEF IInv, TypeOK, JsonTypeOK
<1>5. JsonInv'
  BY <1>1, <1>3, <1>4, JsonIdle
<1>6. TypeOK'
  <2>1. live' \subseteq {"query", "update"}
    BY DEF Prepare, MakeQuery, MakeUpdate, ReadPaging, IInv, LiveInv, Documents
  <2> QED BY <1>1, <1>2, <1>4, <2>1 DEF IInv, TypeOK
<1>7. PcInv'
  BY <1>1, <1>2 DEF IInv, PcInv
<1>8. LiveInv'
  <2>1. CASE \E accepted \in BOOLEAN : MakeQuery(accepted)
    <3>1. PICK accepted \in BOOLEAN : MakeQuery(accepted)
      BY <2>1
    <3>2. /\ live' = IF accepted THEN {"query"} ELSE {}
          /\ refused' = ~accepted
          /\ pc' \in {"update", "paging", "made"}
          /\ op = "update" => pc' = "update"
      BY <3>1 DEF MakeQuery
    <3> QED BY <1>1, <3>2 DEF LiveInv, LeakLedger, Documents
  <2>2. CASE \E accepted \in BOOLEAN : MakeUpdate(accepted)
    <3>1. PICK accepted \in BOOLEAN : MakeUpdate(accepted)
      BY <2>2
    <3>2. /\ pc = "update" /\ pc' = "made"
          /\ live' = IF accepted THEN live \cup {"update"} ELSE live
          /\ refused' = (refused \/ ~accepted)
      BY <3>1 DEF MakeUpdate
    <3>3. op = "update" /\ live = IF refused THEN {} ELSE {"query"}
      BY <3>2 DEF IInv, PcInv, LiveInv
    <3>4. live' \subseteq Documents /\ (refused' <=> live' # Documents)
      <4>1. Documents = {"query", "update"}
        BY <3>3 DEF Documents
      <4>2. CASE refused
        <5>1. live = {} /\ refused' /\ "query" \notin live'
          BY <3>2, <3>3, <4>2
        <5> QED BY <3>2, <4>1, <5>1
      <4>3. CASE ~refused /\ accepted
        <5>1. live' = {"query", "update"} /\ ~refused'
          BY <3>2, <3>3, <4>3
        <5> QED BY <4>1, <5>1
      <4>4. CASE ~refused /\ ~accepted
        <5>1. live' = {"query"} /\ refused'
          BY <3>2, <3>3, <4>4
        <5> QED BY <4>1, <5>1
      <4> QED BY <4>2, <4>3, <4>4
    <3>5. Documents' = Documents
      BY <1>1 DEF Documents
    <3> QED BY <1>1, <3>2, <3>4, <3>5 DEF LiveInv, LeakLedger
  <2>3. CASE ReadPaging
    <3>1. pc = "paging" /\ pc' = "made" /\ live' = live /\ refused' = refused
      BY <2>3 DEF ReadPaging
    <3>2. op \in {"find", "count"} /\ live = IF refused THEN {} ELSE {"query"}
      BY <3>1 DEF IInv, PcInv, LiveInv
    <3> QED BY <1>1, <3>1, <3>2 DEF LiveInv, LeakLedger, Documents
  <2> QED BY <2>1, <2>2, <2>3 DEF Prepare
<1>9. ReplyInv' /\ CursorInv'
  BY <1>1, <1>3 DEF ReplyInv, CursorInv, WritesReported, RowsDisplaced
<1>10. GivenInv' /\ RowsInv'
  BY <1>1, <1>3, TablesKept
<1> QED
  BY <1>5, <1>6, <1>7, <1>8, <1>9, <1>10 DEF IInv

LEMMA EndPlainlyKeeps ==
  ASSUME IInv, EndPlainly
  PROVE  IInv'
<1>1. /\ pc = "made" /\ pc' = "done" /\ returned' \in Seq(Slots)
      /\ stack' = stack /\ heap' = heap /\ work' = work /\ made' = made /\ base' = base
      /\ nulls' = nulls /\ op' = op /\ args' = args /\ given' = given /\ refused' = refused
      /\ rows' = rows /\ results' = results /\ lost' = lost /\ failed' \in BOOLEAN
      /\ live' \subseteq live
  <2>1. /\ False \in Slots /\ Nil \in Slots /\ Message \in Slots /\ True \in Slots
        /\ MinusOne \in Slots /\ Number \in Slots
    BY OperationsAssumption DEF Slots
  <2>2. /\ pc = "made" /\ pc' = "done"
        /\ stack' = stack /\ heap' = heap /\ work' = work /\ made' = made /\ base' = base
        /\ nulls' = nulls /\ op' = op /\ args' = args /\ given' = given /\ refused' = refused
        /\ rows' = rows /\ results' = results /\ lost' = lost
    BY DEF EndPlainly, Refuse, WriteFails, DeleteSucceeds, Count, Ready, Return,
           jsonVars, callVars, rowVars
  <2>3. failed' \in BOOLEAN /\ live' \subseteq live
    BY DEF EndPlainly, Refuse, WriteFails, DeleteSucceeds, Count, IInv, TypeOK
  <2>4. \E x, y \in Slots : returned' = <<x>> \/ returned' = <<x, y>>
    BY <2>1 DEF EndPlainly, Refuse, WriteFails, DeleteSucceeds, Count, Failure, Return
  <2>5. returned' \in Seq(Slots)
    BY <2>4, TupleSeq
  <2> QED BY <2>2, <2>3, <2>5
<1>2. ~refused => \/ WriteFails \/ DeleteSucceeds \/ Count
  BY DEF EndPlainly, Refuse
<1>3. /\ work = <<>> /\ ~failed /\ rows = <<>>
      /\ live \subseteq Documents /\ (refused <=> live # Documents)
  BY <1>1 DEF IInv, PcInv, LiveInv
<1>4. WritesReported' /\ LeakLedger' /\ ~Found'
  <2>1. CASE refused
    <3>1. live' = live
      BY <2>1 DEF EndPlainly, Refuse, WriteFails, DeleteSucceeds, Count, Ready
    <3>2. ~Answered'
      BY <1>1, <2>1 DEF Answered
    <3>3. LeakLedger'
      BY <1>1, <1>3, <2>1, <3>1, <3>2 DEF LeakLedger, Documents
    <3> QED BY <3>2, <3>3 DEF WritesReported, Found
  <2> DEFINE FreedAs == live' = IF failed' /\ op \in Writes THEN Documents ELSE {}
  <2>2. ~refused /\ FreedAs => LeakLedger'
    BY <1>1, <1>3 DEF LeakLedger, Documents
  <2>3. CASE ~refused /\ WriteFails
    <3>1. op \in Writes /\ failed' = TRUE /\ live' = live /\ returned' = <<False, Message>>
      BY <2>3 DEF WriteFails, Failure, Return
    <3>2. FreedAs
      BY <1>3, <2>3, <3>1
    <3> QED BY <1>1, <2>2, <2>3, <3>1, <3>2 DEF WritesReported, Found, Answered, Writes, Reads
  <2>4. CASE ~refused /\ DeleteSucceeds
    <3>1. op = "delete" /\ failed' = failed /\ live' = live \ {"query"} /\ returned' = <<True>>
      BY <2>4 DEF DeleteSucceeds, Return
    <3>2. FreedAs
      BY <1>3, <2>4, <3>1 DEF Documents
    <3> QED BY <1>1, <1>3, <2>2, <2>4, <3>1, <3>2 DEF WritesReported, Found, Answered
  <2>5. CASE ~refused /\ Count
    <3>1. op = "count" /\ live' = live \ {"query"}
      BY <2>5 DEF Count
    <3>2. FreedAs
      BY <1>3, <2>5, <3>1 DEF Documents, Writes
    <3> QED BY <1>1, <2>2, <2>5, <3>1, <3>2 DEF WritesReported, Found, Answered, Writes
  <2> QED BY <1>2, <2>1, <2>3, <2>4, <2>5
<1>5. JsonTypeOK'
  BY <1>1, EmptySeq DEF IInv, TypeOK, JsonTypeOK
<1>6. JsonInv'
  BY <1>1, <1>3, <1>5, JsonIdle
<1>7. TypeOK'
  BY <1>1, <1>5 DEF IInv, TypeOK
<1>8. PcInv'
  BY <1>1 DEF IInv, PcInv
<1>9. LiveInv' /\ ReplyInv' /\ CursorInv'
  BY <1>1, <1>4 DEF LiveInv, ReplyInv, CursorInv, RowsDisplaced
<1>10. GivenInv' /\ RowsInv'
  BY <1>1, <1>3, <1>4, TablesKept
<1> QED
  BY <1>6, <1>7, <1>8, <1>9, <1>10 DEF IInv

-------------------------------------------------------------------------------
(* More tables, and more known of what they were made from, change nothing  *)
(* for those there were.                                                   *)
LEMMA WholeStays ==
  ASSUME NEW h, NEW md, NEW me, NEW n, IsWhole(h, md, n), me[n] = md[n],
         \A i \in DOMAIN h : me[i] = md[i]
  PROVE  IsWhole(h, me, n)
<1>1. Holds(h, md, n, Len(md[n].members))
  BY DEF IsWhole
<1>2. Holds(h, me, n, Len(md[n].members))
  BY <1>1, HoldsStays
<1> QED
  BY <1>2 DEF IsWhole

LEMMA SameStays ==
  ASSUME NEW h, NEW md, NEW me, NEW x, NEW v, Same(h, md, x, v),
         \A i \in DOMAIN h : me[i] = md[i]
  PROVE  Same(h, me, x, v)
BY DEF Same

LEMMA SumZero ==
  ASSUME NEW x \in Nat, NEW y \in Nat, x + y = 0
  PROVE  x = 0 /\ y = 0
OBVIOUS

LEMMA ConvertRowKeeps ==
  ASSUME IInv, ConvertRow
  PROVE  IInv'
<1>1. /\ pc \in {"row", "replying"} /\ Convert /\ pc' = pc
      /\ op' = op /\ args' = args /\ given' = given
      /\ live' = live /\ refused' = refused /\ failed' = failed
      /\ rows' = rows /\ results' = results /\ lost' = lost /\ returned' = returned
  BY DEF ConvertRow, callVars, rowVars
<1>2. JsonInv /\ JsonInv' /\ JsonTypeOK'
  BY <1>1, ConvertKeeps DEF IInv, JsonInv
<1>3. work' # <<>> /\ work # <<>> /\ work'[1].doc = work[1].doc
  BY <1>1, <1>2, FramesNext
<1>4. /\ base' = base /\ nulls' >= nulls /\ Len(heap') >= Len(heap)
      /\ \A n \in 1..Len(heap) : made'[n] = made[n]
  BY <1>1, <1>2, ConvertGrows
<1>5. TypeOK'
  BY <1>1, <1>2 DEF IInv, TypeOK
<1>6. PcInv'
  BY <1>1, <1>3 DEF IInv, PcInv
<1>7. LiveInv'
  BY <1>1 DEF IInv, LiveInv, LeakLedger, Answered
<1>8. ReplyInv'
  <2>1. ASSUME pc = "replying"
        PROVE  nulls' = nulls /\ \A i \in DOMAIN work' : work'[i].doc \in ReplyJson
    <3>1. Null \notin ReplyJson
      BY OperationsAssumption
    <3>2. \A v \in ReplyJson \cap Compounds : \A i \in DOMAIN v.members : v.members[i][2] \in ReplyJson
      BY OperationsAssumption
    <3>3. \A i \in DOMAIN work : work[i].doc \in ReplyJson
      BY <2>1 DEF IInv, ReplyInv
    <3> QED BY ONLY <1>1, <1>2, <3>1, <3>2, <3>3, ConvertWithin
  <2> QED BY <1>1, <1>4, <2>1 DEF IInv, ReplyInv, WritesReported, Answered
<1>9. CursorInv'
  BY <1>1, <1>3, <1>4 DEF IInv, CursorInv, Under, RowsDisplaced, Found, Answered
<1>10. /\ Len(base.heap) \in Nat /\ DOMAIN base.heap = 1..Len(base.heap)
       /\ Len(given) \in Nat /\ DOMAIN given = 1..Len(given)
       /\ Len(heap) \in Nat /\ Len(heap') \in Nat /\ Len(base.heap) <= Len(heap)
  BY <1>2, <1>3, HeapIsSeq DEF IInv, TypeOK, JsonTypeOK, JsonInv
<1>11. GivenInv'
  <2>1. Len(given') <= Len(heap')
    BY <1>1, <1>4, <1>10 DEF IInv, GivenInv
  <2>2. ASSUME lost' = 0
        PROVE  Len(given) <= Len(base.heap) /\ \A n \in DOMAIN given : base.heap[n] = given[n]
    BY <1>1, <1>3, <2>2 DEF IInv, GivenInv
  <2>3. ASSUME lost' + nulls' = 0, NEW n \in DOMAIN given
        PROVE  heap'[n] = given[n]
    <3>1. lost' = 0 /\ nulls' = 0
      <4>1. lost' \in Nat /\ nulls' \in Nat
        BY <1>5 DEF TypeOK, JsonTypeOK
      <4>2. lost' + nulls' = 0
        BY <2>3
      <4> QED BY ONLY <4>1, <4>2, SumZero
    <3>2. n \in DOMAIN base.heap
      BY <1>10, <2>2, <3>1
    <3>3. heap'[n] = base.heap[n]
      BY <1>2, <1>3, <1>4, <3>1, <3>2 DEF JsonInv, OthersKept
    <3> QED BY <2>2, <3>1, <3>3
  <2> QED BY <1>1, <1>4, <2>1, <2>2, <2>3 DEF GivenInv, ArgumentsKept
<1>12. RowsInv'
  <2> SUFFICES ASSUME pc = "row", lost = 0
               PROVE  RowsInv'
    BY <1>1 DEF RowsInv, Found, Answered
  <2>1. \A i \in DOMAIN base.heap : made'[i] = made[i]
    BY <1>4, <1>10
  <2>2. /\ results \in DOMAIN base.heap /\ Len(given) < results
        /\ DOMAIN base.heap[results] = 1..(Len(rows) - 1)
        /\ \A i \in 1..(Len(rows) - 1) : Same(base.heap, made, base.heap[results][i], rows[i])
        /\ \A n \in (results + 1)..Len(base.heap) : made[n] \in Compounds /\ IsWhole(base.heap, made, n)
    BY DEF IInv, RowsInv, Stored, Before
  <2>3. \A n \in (results + 1)..Len(base.heap) : n \in DOMAIN base.heap
    BY <1>10, <2>2
  <2>4. \A n \in (results + 1)..Len(base.heap) : made'[n] \in Compounds /\ IsWhole(base.heap, made', n)
    BY <2>1, <2>2, <2>3, WholeStays
  <2>5. \A i \in 1..(Len(rows) - 1) : Same(base.heap, made', base.heap[results][i], rows[i])
    BY <2>1, <2>2, SameStays
  <2>6. Before' = base.heap /\ Stored' = Len(rows) - 1
    BY <1>1, <1>4 DEF Before, Stored
  <2> QED BY <1>1, <2>2, <2>4, <2>5, <2>6 DEF RowsInv
<1> QED
  BY <1>2, <1>5, <1>6, <1>7, <1>8, <1>9, <1>11, <1>12 DEF IInv

-------------------------------------------------------------------------------
(* insert and update *)

LEMMA WriteSucceedsKeeps ==
  ASSUME IInv, WriteSucceeds
  PROVE  IInv'
<1>1. /\ pc = "made" /\ ~refused /\ op \in {"insert", "update"} /\ pc' = "reply"
      /\ live' = (live \ Destroyed) \cup {"text"} /\ stack' = Append(stack, True)
      /\ heap' = heap /\ work' = work /\ made' = made /\ base' = base
      /\ nulls' = nulls /\ op' = op /\ args' = args /\ given' = given
      /\ refused' = refused /\ failed' = failed
      /\ rows' = rows /\ results' = results /\ lost' = lost /\ returned' = returned
  BY DEF WriteSucceeds, Ready, callVars, rowVars
<1>2. /\ work = <<>> /\ ~failed /\ stack = args /\ ~Answered' /\ ~Found'
      /\ live = Documents /\ live' = {"text"}
  BY <1>1 DEF IInv, PcInv, LiveInv, Answered, Found, Documents, Destroyed
<1>3. stack' \in Seq(Slots)
  <2>1. True \in Slots /\ stack \in Seq(Slots)
    BY OperationsAssumption DEF Slots, IInv, TypeOK, JsonTypeOK
  <2> QED BY <1>1, <2>1, AppendSeq
<1>4. JsonTypeOK'
  BY <1>1, <1>3 DEF IInv, TypeOK, JsonTypeOK
<1>5. JsonInv'
  BY <1>1, <1>2, <1>4, JsonIdle
<1>6. TypeOK'
  <2>1. live' \subseteq {"query", "update", "cursor", "text"}
    BY <1>1, <1>2
  <2> QED BY <1>1, <1>4, <2>1 DEF IInv, TypeOK
<1>7. PcInv'
  BY <1>1 DEF IInv, PcInv
<1>8. LiveInv' /\ ReplyInv' /\ CursorInv'
  BY <1>1, <1>2 DEF LiveInv, ReplyInv, CursorInv, LeakLedger, WritesReported, RowsDisplaced
<1>9. GivenInv' /\ RowsInv'
  BY <1>1, <1>2, TablesKept
<1> QED
  BY <1>5, <1>6, <1>7, <1>8, <1>9 DEF IInv

(* A row or a reply is about to be converted: the tables are as they were. *)
LEMMA BeginTables ==
  ASSUME JsonTypeOK, NEW d, PushTable(d), d \in Json \cup {Null}
  PROVE  /\ Len(heap) \in Nat /\ DOMAIN heap = 1..Len(heap) /\ Len(heap') = Len(heap) + 1
         /\ DOMAIN heap' = 1..(Len(heap) + 1)
         /\ IsHeap(heap') /\ heap'[Len(heap) + 1] = NewTable
         /\ \A n \in 1..Len(heap) : heap'[n] = heap[n] /\ made'[n] = made[n]
         /\ made' \in Seq(Json \cup {Null}) /\ Len(made') = Len(heap')
         /\ stack' \in Seq(Slots) /\ Len(stack') = Len(stack) + 1 /\ Len(stack) \in Nat
<1>1. /\ heap' = Append(heap, NewTable) /\ made' = Append(made, d)
      /\ stack' = Append(stack, Len(heap) + 1)
  BY DEF PushTable
<1>2. /\ IsHeap(heap) /\ stack \in Seq(Slots) /\ made \in Seq(Json \cup {Null}) /\ Len(made) = Len(heap)
  BY DEF JsonTypeOK
<1>3. /\ Len(heap) \in Nat /\ DOMAIN heap = 1..Len(heap)
      /\ Len(heap') = Len(heap) + 1 /\ DOMAIN heap' = 1..(Len(heap) + 1)
      /\ IsHeap(heap') /\ heap'[Len(heap) + 1] = NewTable
      /\ \A n \in 1..Len(heap) : heap'[n] = heap[n]
  BY <1>1, <1>2, HeapIsSeq, HeapAppend
<1>4. /\ made' \in Seq(Json \cup {Null}) /\ Len(made') = Len(heap')
      /\ \A n \in 1..Len(heap) : made'[n] = made[n]
  BY <1>1, <1>2, <1>3, AppendSeq
<1>5. stack' \in Seq(Slots) /\ Len(stack') = Len(stack) + 1 /\ Len(stack) \in Nat
  <2>1. Len(heap) + 1 \in Slots
    BY <1>3 DEF Slots
  <2> QED BY <1>1, <1>2, <2>1, AppendSeq
<1> QED
  BY <1>3, <1>4, <1>5

LEMMA ReadReplyKeeps ==
  ASSUME IInv, NEW d \in Replies, ReadReply(d)
  PROVE  IInv'
<1>1. /\ pc = "reply" /\ Begin(d) /\ pc' = "replying"
      /\ op' = op /\ args' = args /\ given' = given
      /\ live' = live /\ refused' = refused /\ failed' = failed
      /\ rows' = rows /\ results' = results /\ lost' = lost /\ returned' = returned
  BY DEF ReadReply, callVars, rowVars
<1>2. JsonTypeOK /\ work = <<>> /\ d \in Compounds /\ d \in ReplyJson /\ PushTable(d) /\ d \in Json \cup {Null}
  BY <1>1, OperationsAssumption DEF IInv, TypeOK, Begin, Compounds
<1>3. /\ JsonInv' /\ JsonTypeOK' /\ nulls' = 0 /\ base' = [stack |-> stack, heap |-> heap]
      /\ work' # <<>> /\ work'[1].doc = d /\ Len(work') = 1
  BY <1>1, <1>2, BeginKeeps DEF JsonInv
<1>4. \A i \in DOMAIN work' : i = 1
  BY <1>3, LenProperties DEF JsonTypeOK
<1>5. /\ Len(heap) \in Nat /\ DOMAIN heap = 1..Len(heap) /\ Len(heap') = Len(heap) + 1
      /\ \A n \in 1..Len(heap) : heap'[n] = heap[n]
  BY <1>2, BeginTables
<1>6. TypeOK'
  BY <1>1, <1>3 DEF IInv, TypeOK
<1>7. PcInv'
  BY <1>1, <1>3 DEF IInv, PcInv
<1>8. LiveInv' /\ CursorInv' /\ RowsInv'
  BY <1>1 DEF IInv, LiveInv, CursorInv, RowsInv, LeakLedger, RowsDisplaced, Answered, Found
<1>9. ReplyInv'
  BY <1>1, <1>2, <1>3, <1>4 DEF IInv, ReplyInv, WritesReported, Answered
<1>10. nulls = 0 /\ lost = 0 /\ Len(given) <= Len(heap) /\ Len(given) \in Nat /\ DOMAIN given = 1..Len(given)
  BY <1>1, HeapIsSeq DEF IInv, PcInv, GivenInv, TypeOK
<1>11. \A n \in DOMAIN given : heap[n] = given[n] /\ n \in 1..Len(heap)
  <2>1. lost + nulls = 0
    BY <1>10
  <2>2. \A n \in DOMAIN given : n \in 1..Len(heap)
    BY <1>5, <1>10
  <2> QED BY <1>1, <2>1, <2>2 DEF IInv, GivenInv, ArgumentsKept
<1>12. GivenInv'
  BY <1>1, <1>3, <1>5, <1>10, <1>11 DEF GivenInv, ArgumentsKept
<1> QED
  BY <1>3, <1>6, <1>7, <1>8, <1>9, <1>12 DEF IInv

LEMMA ReplyConvertedKeeps ==
  ASSUME IInv, ReplyConverted
  PROVE  IInv'
<1>1. /\ pc = "replying" /\ Converted /\ work' = <<>> /\ pc' = "done"
      /\ live' = live \ {"text"} /\ returned' = Tops(2, stack)
      /\ stack' = stack /\ heap' = heap /\ made' = made /\ base' = base /\ nulls' = nulls
      /\ op' = op /\ args' = args /\ given' = given /\ refused' = refused /\ failed' = failed
      /\ rows' = rows /\ results' = results /\ lost' = lost
  BY DEF ReplyConverted, Return, callVars, rowVars
<1>2. /\ op \in {"insert", "update"} /\ ~failed /\ work # <<>> /\ nulls = 0
      /\ base.stack = Append(args, True) /\ live = {"text"} /\ ~refused /\ rows = <<>>
  BY <1>1 DEF IInv, PcInv, ReplyInv, LiveInv
<1>3. /\ stack \in Seq(Slots) /\ args \in Seq(Slots) /\ Len(work) = 1 /\ True \in Slots
  BY <1>1, OperationsAssumption DEF IInv, TypeOK, JsonTypeOK, Converted, Slots
<1>4. /\ Len(base.stack) = Len(args) + 1 /\ Len(args) \in Nat
      /\ base.stack[Len(args) + 1] = True /\ DOMAIN base.stack = 1..(Len(args) + 1)
  BY <1>2, <1>3, AppendSeq
<1>5. Len(stack) = Len(args) + 2 /\ stack[Len(args) + 1] = True
  <2>1. /\ Len(stack) + 0 = (Len(args) + 1) + 1
        /\ \A i \in 1..(Len(args) + 1) : i + 0 <= (Len(args) + 1) + 1 => stack[i] = base.stack[i]
    BY <1>2, <1>3, <1>4 DEF IInv, JsonInv, StackEffect
  <2>2. Len(stack) \in Nat
    BY <1>3, LenProperties
  <2> QED BY <1>4, <2>1, <2>2
<1>6. returned' \in Seq(Slots) /\ returned'[1] = True
  <2> DEFINE m == Len(args) + 1
             n == Len(args) + 2
  <2>1. Tops(2, stack) = SubSeq(stack, m, n)
    <3>1. Len(stack) + 1 - 2 = m /\ Len(stack) = n
      BY <1>4, <1>5
    <3> QED BY <3>1 DEF Tops
  <2>2. m \in Int /\ n \in Int /\ 1 \in 1..(n - m + 1) /\ m + 1 - 1 = m
        /\ \A i \in m..n : i \in 1..Len(stack)
    BY <1>4, <1>5
  <2>3. \A i \in m..n : stack[i] \in Slots
    BY <1>3, <2>2, ElementOfSeq
  <2> HIDE DEF m, n
  <2>4. SubSeq(stack, m, n) \in Seq(Slots) /\ SubSeq(stack, m, n)[1] = stack[m + 1 - 1]
    BY <2>2, <2>3, SubSeqProperties
  <2> QED BY <1>1, <1>5, <2>1, <2>2, <2>4 DEF m
<1>7. JsonTypeOK'
  BY <1>1, EmptySeq DEF IInv, TypeOK, JsonTypeOK
<1>8. JsonInv'
  BY <1>1, <1>7, JsonIdle
<1>9. TypeOK'
  BY <1>1, <1>6, <1>7 DEF IInv, TypeOK
<1>10. PcInv'
  BY <1>1 DEF IInv, PcInv
<1>11. LiveInv' /\ ReplyInv'
  BY <1>1, <1>2, <1>6 DEF LiveInv, ReplyInv, LeakLedger, WritesReported
<1>12. CursorInv' /\ ~Found'
  BY <1>1, <1>2 DEF CursorInv, RowsDisplaced, Found
<1>13. GivenInv' /\ RowsInv'
  BY <1>1, <1>12, TablesKept
<1> QED
  BY <1>8, <1>9, <1>10, <1>11, <1>12, <1>13 DEF IInv

-------------------------------------------------------------------------------
(* find and aggregate *)

LEMMA OpenCursorKeeps ==
  ASSUME IInv, OpenCursor
  PROVE  IInv'
<1>1. /\ pc = "made" /\ ~refused /\ op \in {"find", "aggregate"} /\ pc' = "rows"
      /\ PushTable(Null) /\ results' = Len(heap) + 1 /\ live' = live \cup {"cursor"}
      /\ stack' = Append(stack, Len(heap) + 1)
      /\ work' = work /\ base' = base /\ nulls' = nulls /\ op' = op /\ args' = args /\ given' = given
      /\ refused' = refused /\ failed' = failed
      /\ rows' = rows /\ lost' = lost /\ returned' = returned
  BY DEF OpenCursor, Ready, callVars, PushResults, PushTable
<1>2. /\ work = <<>> /\ ~failed /\ stack = args /\ ~Answered' /\ ~Found'
      /\ live = {"query"} /\ rows = <<>> /\ lost = 0 /\ nulls = 0 /\ JsonTypeOK
  BY <1>1 DEF IInv, PcInv, LiveInv, TypeOK, Answered, Found, Documents
<1>3. /\ Len(heap) \in Nat /\ DOMAIN heap = 1..Len(heap) /\ Len(heap') = Len(heap) + 1
      /\ DOMAIN heap' = 1..(Len(heap) + 1)
      /\ IsHeap(heap') /\ heap'[Len(heap) + 1] = NewTable
      /\ \A n \in 1..Len(heap) : heap'[n] = heap[n] /\ made'[n] = made[n]
      /\ made' \in Seq(Json \cup {Null}) /\ Len(made') = Len(heap')
      /\ stack' \in Seq(Slots) /\ Len(stack') = Len(stack) + 1 /\ Len(stack) \in Nat
  BY <1>1, <1>2, BeginTables
<1>4. JsonTypeOK'
  BY <1>1, <1>2, <1>3 DEF JsonTypeOK
<1>5. JsonInv'
  BY <1>1, <1>2, <1>4, JsonIdle
<1>6. TypeOK'
  <2>1. live' \subseteq {"query", "update", "cursor", "text"} /\ results' \in Nat
    BY <1>1, <1>2, <1>3
  <2> QED BY <1>1, <1>4, <2>1 DEF IInv, TypeOK
<1>7. PcInv'
  BY <1>1, <1>2 DEF IInv, PcInv
<1>8. LiveInv' /\ ReplyInv'
  BY <1>1, <1>2 DEF LiveInv, ReplyInv, LeakLedger, WritesReported
<1>9. CursorInv'
  <2>1. Under' = stack' /\ stack' = Append(args, results) '
    BY <1>1, <1>2 DEF Under
  <2>2. Len(rows) <= MaxRows
    BY <1>2, OperationsAssumption, EmptySeq
  <2>3. Len(stack') + 0 = Len(args) + 1 /\ Len(stack') >= 1
    BY <1>2, <1>3
  <2> QED BY <1>1, <1>2, <2>1, <2>2, <2>3 DEF CursorInv, RowsDisplaced
<1>10. /\ Len(given) <= Len(heap) /\ Len(given) \in Nat /\ DOMAIN given = 1..Len(given)
       /\ \A n \in DOMAIN given : heap[n] = given[n]
  <2>1. lost + nulls = 0
    BY <1>2
  <2> QED BY <1>1, <2>1, HeapIsSeq DEF IInv, GivenInv, ArgumentsKept, TypeOK
<1>11. GivenInv'
  <2>1. \A n \in DOMAIN given : n \in 1..Len(heap)
    BY <1>3, <1>10
  <2> QED BY <1>1, <1>2, <1>3, <1>10, <2>1 DEF GivenInv, ArgumentsKept
<1>12. RowsInv'
  <2>1. Before' = heap' /\ Stored' = 0
    BY <1>1, <1>2, EmptySeq DEF Before, Stored
  <2>2. results' \in DOMAIN heap' /\ Len(given) < results' /\ DOMAIN heap'[results'] = 1..0
    BY <1>1, <1>3, <1>10 DEF NewTable
  <2>3. (results' + 1)..Len(heap') = {}
    BY <1>1, <1>3
  <2> QED BY <1>1, <2>1, <2>2, <2>3 DEF RowsInv
<1> QED
  BY <1>5, <1>6, <1>7, <1>8, <1>9, <1>11, <1>12 DEF IInv

LEMMA NextRowKeeps ==
  ASSUME IInv, NEW d \in Rows, NextRow(d)
  PROVE  IInv'
<1>1. /\ pc = "rows" /\ Len(rows) < MaxRows /\ Begin(d) /\ pc' = "row"
      /\ rows' = Append(rows, d) /\ live' = live \cup {"text"}
      /\ op' = op /\ args' = args /\ given' = given
      /\ refused' = refused /\ failed' = failed
      /\ results' = results /\ lost' = lost /\ returned' = returned
  BY DEF NextRow, callVars
<1>2. JsonTypeOK /\ work = <<>> /\ d \in Compounds /\ PushTable(d) /\ d \in Json \cup {Null}
  BY <1>1, OperationsAssumption DEF IInv, TypeOK, Begin, Compounds
<1>3. /\ JsonInv' /\ JsonTypeOK' /\ nulls' = 0 /\ base' = [stack |-> stack, heap |-> heap]
      /\ work' # <<>> /\ work'[1].doc = d /\ Len(work') = 1
  BY <1>1, <1>2, BeginKeeps DEF JsonInv
<1>4. /\ Len(heap) \in Nat /\ DOMAIN heap = 1..Len(heap) /\ Len(heap') = Len(heap) + 1
      /\ \A n \in 1..Len(heap) : heap'[n] = heap[n] /\ made'[n] = made[n]
  BY <1>2, BeginTables
<1>5. /\ rows' \in Seq(Rows) /\ Len(rows') = Len(rows) + 1 /\ Len(rows) \in Nat /\ rows' # <<>>
      /\ rows'[Len(rows) + 1] = d /\ \A i \in 1..Len(rows) : rows'[i] = rows[i]
  BY <1>1, AppendSeq DEF IInv, TypeOK
<1>6. TypeOK'
  <2>1. live' \subseteq {"query", "update", "cursor", "text"}
    BY <1>1 DEF IInv, TypeOK
  <2> QED BY <1>1, <1>3, <1>5, <2>1 DEF IInv, TypeOK
<1>7. PcInv'
  BY <1>1, <1>3 DEF IInv, PcInv
<1>8. LiveInv' /\ ReplyInv'
  BY <1>1 DEF IInv, LiveInv, ReplyInv, LeakLedger, WritesReported, Answered
<1>9. CursorInv'
  <2>1. Under' = stack /\ Under = stack
    BY <1>1, <1>3 DEF Under
  <2>2. Len(rows') <= MaxRows
    BY <1>1, <1>5, OperationsAssumption
  <2>3. work'[1].doc = rows'[Len(rows')]
    BY <1>3, <1>5
  <2> QED BY <1>1, <1>5, <2>1, <2>2, <2>3 DEF IInv, CursorInv, RowsDisplaced, Found, Answered
<1>10. /\ Len(given) <= Len(heap) /\ Len(given) \in Nat /\ DOMAIN given = 1..Len(given)
       /\ lost = 0 => \A n \in DOMAIN given : heap[n] = given[n]
  <2>1. lost = 0 => lost + nulls = 0
    BY <1>1 DEF IInv, PcInv
  <2> QED BY <1>1, <2>1, HeapIsSeq DEF IInv, GivenInv, ArgumentsKept, TypeOK
<1>11. GivenInv'
  <2>1. \A n \in DOMAIN given : n \in 1..Len(heap)
    BY <1>4, <1>10
  <2>2. lost' + nulls' = 0 => lost = 0
    BY <1>1, <1>3 DEF IInv, TypeOK
  <2>3. base'.heap = heap
    BY <1>3
  <2>4. Len(given) <= Len(heap')
    BY <1>4, <1>10
  <2> QED BY <1>1, <1>4, <1>10, <2>1, <2>2, <2>3, <2>4 DEF GivenInv, ArgumentsKept
<1>12. RowsInv'
  <2> SUFFICES ASSUME lost = 0
               PROVE  RowsInv'
    BY <1>1 DEF RowsInv
  <2>1. Before' = heap /\ Stored' = Len(rows)
    BY <1>1, <1>3, <1>5 DEF Before, Stored
  <2>2. /\ results \in DOMAIN heap /\ Len(given) < results
        /\ DOMAIN heap[results] = 1..Len(rows)
        /\ \A i \in 1..Len(rows) : Same(heap, made, heap[results][i], rows[i])
        /\ \A n \in (results + 1)..Len(heap) : made[n] \in Compounds /\ IsWhole(heap, made, n)
    BY <1>1 DEF IInv, RowsInv, Stored, Before
  <2>3. \A n \in DOMAIN heap : made'[n] = made[n]
    BY <1>4
  <2>4. \A n \in (results + 1)..Len(heap) : n \in DOMAIN heap
    BY <1>4, <2>2
  <2>5. \A n \in (results + 1)..Len(heap) : made'[n] \in Compounds /\ IsWhole(heap, made', n)
    BY <2>2, <2>3, <2>4, WholeStays
  <2>6. \A i \in 1..Len(rows) : Same(heap, made', heap[results][i], rows'[i])
    BY <1>5, <2>2, <2>3, SameStays
  <2> QED BY <1>1, <2>1, <2>2, <2>5, <2>6 DEF RowsInv
<1> QED
  BY <1>3, <1>6, <1>7, <1>8, <1>9, <1>11, <1>12 DEF IInv

(* A row that does not parse: nothing is pushed. *)
LEMMA NextRowUnparsedKeeps ==
  ASSUME IInv, NEW d \in Rows, NextRowUnparsed(d)
  PROVE  IInv'
<1>1. /\ pc = "rows" /\ Len(rows) < MaxRows /\ pc' = "unparsed"
      /\ rows' = Append(rows, d) /\ live' = live \cup {"text"}
      /\ stack' = stack /\ heap' = heap /\ work' = work /\ made' = made /\ base' = base
      /\ nulls' = nulls /\ op' = op /\ args' = args /\ given' = given
      /\ refused' = refused /\ failed' = failed
      /\ results' = results /\ lost' = lost /\ returned' = returned
  BY DEF NextRowUnparsed, jsonVars, callVars
<1>2. work = <<>>
  BY <1>1 DEF IInv, PcInv
<1>3. /\ rows' \in Seq(Rows) /\ Len(rows') = Len(rows) + 1 /\ Len(rows) \in Nat /\ rows' # <<>>
      /\ \A i \in 1..Len(rows) : rows'[i] = rows[i]
  BY <1>1, AppendSeq DEF IInv, TypeOK
<1>4. JsonTypeOK'
  BY <1>1, <1>2, EmptySeq DEF IInv, TypeOK, JsonTypeOK
<1>5. JsonInv'
  BY <1>1, <1>2, <1>4, JsonIdle
<1>6. TypeOK'
  <2>1. live' \subseteq {"query", "update", "cursor", "text"}
    BY <1>1 DEF IInv, TypeOK
  <2> QED BY <1>1, <1>3, <1>4, <2>1 DEF IInv, TypeOK
<1>7. PcInv'
  BY <1>1, <1>2 DEF IInv, PcInv
<1>8. LiveInv' /\ ReplyInv'
  BY <1>1 DEF IInv, LiveInv, ReplyInv, LeakLedger, WritesReported, Answered
<1>9. CursorInv'
  <2>1. Under' = stack /\ Under = stack
    BY <1>1 DEF Under
  <2>2. Len(rows') <= MaxRows
    BY <1>1, <1>3, OperationsAssumption
  <2> QED BY <1>1, <1>3, <2>1, <2>2 DEF IInv, CursorInv, RowsDisplaced, Found, Answered
<1>10. GivenInv'
  BY <1>1, <1>2 DEF IInv, GivenInv, ArgumentsKept
<1>11. RowsInv'
  <2> SUFFICES ASSUME lost = 0
               PROVE  RowsInv'
    BY <1>1 DEF RowsInv
  <2>1. /\ Before' = heap /\ Stored' = Len(rows) /\ Before = heap /\ Stored = Len(rows)
    BY <1>1, <1>3 DEF Before, Stored
  <2> QED BY <1>1, <1>3, <2>1 DEF IInv, RowsInv
<1> QED
  BY <1>5, <1>6, <1>7, <1>8, <1>9, <1>10, <1>11 DEF IInv

(* What is then stored and popped is the slot the row would have covered. *)
LEMMA StoreNoRowKeeps ==
  ASSUME IInv, StoreNoRow
  PROVE  IInv'
<1>1. /\ pc = "unparsed" /\ Len(stack) >= 2 /\ Slot(2) \in DOMAIN heap
      /\ heap' = Put(heap, Slot(2), Len(rows), Slot(1)) /\ stack' = Popped(stack, 1)
      /\ work' = work /\ lost' = lost + 1 /\ live' = live \ {"text"} /\ pc' = "rows"
      /\ made' = made /\ base' = base /\ nulls' = nulls /\ op' = op /\ args' = args /\ given' = given
      /\ refused' = refused /\ failed' = failed
      /\ rows' = rows /\ results' = results /\ returned' = returned
  BY DEF StoreNoRow, SetTop, Idx, Put, CanSet, callVars
<1>2. /\ JsonTypeOK /\ work = <<>> /\ IsHeap(heap) /\ stack \in Seq(Slots)
      /\ lost \in Nat /\ nulls \in Nat /\ rows \in Seq(Rows) /\ rows # <<>>
  BY <1>1 DEF IInv, TypeOK, JsonTypeOK, PcInv, CursorInv
<1>3. /\ Len(heap) \in Nat /\ DOMAIN heap = 1..Len(heap) /\ Len(stack) \in Nat
      /\ Len(rows) \in Nat \ {0} /\ lost' \in Nat \ {0}
  BY <1>1, <1>2, HeapIsSeq, LenProperties, EmptySeq
<1>4. Slot(1) \in Slots /\ Len(rows) \in Keys
  <2>1. Slot(1) \in Slots
    BY <1>1, <1>2, <1>3, ElementOfSeq DEF Slot
  <2>2. Len(rows) <= MaxRows /\ MaxRows \in Nat
    BY <1>1, OperationsAssumption DEF IInv, CursorInv
  <2>3. Len(rows) \in 1..MaxRows
    BY <1>3, <2>2
  <2> QED BY <2>1, <2>3, OperationsAssumption
<1>5. IsHeap(heap') /\ Len(heap') = Len(heap) /\ DOMAIN heap' = DOMAIN heap
  BY <1>1, <1>2, <1>4, HeapSet
<1>6. /\ stack' \in Seq(Slots) /\ Len(stack') = Len(stack) - 1 /\ DOMAIN stack' = 1..(Len(stack) - 1)
      /\ \A i \in 1..(Len(stack) - 1) : stack'[i] = stack[i]
  <2>1. Len(stack) >= 1
    BY <1>1, <1>3
  <2> QED BY <1>1, <1>2, <2>1, PopSeq, LenProperties
<1>7. JsonTypeOK'
  BY <1>1, <1>2, <1>5, <1>6 DEF JsonTypeOK
<1>8. JsonInv'
  BY <1>1, <1>2, <1>7, JsonIdle
<1>9. TypeOK'
  <2>1. lost' \in Nat /\ live' \subseteq {"query", "update", "cursor", "text"}
    BY <1>1, <1>3 DEF IInv, TypeOK
  <2> QED BY <1>1, <1>7, <2>1 DEF IInv, TypeOK
<1>10. PcInv'
  BY <1>1, <1>2, <1>3 DEF IInv, PcInv
<1>11. LiveInv' /\ ReplyInv'
  BY <1>1 DEF IInv, LiveInv, ReplyInv, LeakLedger, WritesReported, Answered
<1>12. CursorInv'
  <2>1. Under' = stack' /\ Under = stack
    BY <1>1 DEF Under
  <2>2. /\ Len(stack) + lost = Len(args) + 1 /\ Len(rows) <= MaxRows
        /\ \A i \in DOMAIN stack : stack[i] = Append(args, results)[i]
    BY <1>1, <2>1 DEF IInv, CursorInv
  <2>3. Len(stack') + lost' = Len(args) + 1 /\ Len(stack') >= 1
    <3>1. Len(args) \in Nat /\ Len(stack') = Len(stack) - 1 /\ lost' = lost + 1 /\ Len(stack) >= 2
      BY <1>1, <1>6, LenProperties DEF IInv, TypeOK
    <3> QED BY <1>2, <1>3, <2>2, <3>1
  <2>4. \A i \in DOMAIN stack' : stack'[i] = Append(args, results)[i]
    <3>1. \A i \in 1..(Len(stack) - 1) : i \in DOMAIN stack
      BY <1>2, <1>3, LenProperties
    <3> QED BY <1>6, <2>2, <3>1
  <2> QED BY <1>1, <2>1, <2>2, <2>3, <2>4 DEF CursorInv, RowsDisplaced, Found, Answered
<1>13. GivenInv' /\ RowsInv'
  <2>1. lost' # 0 /\ lost' + nulls' # 0
    BY <1>1, <1>2, <1>3
  <2>2. Len(given) <= Len(heap')
    BY <1>1, <1>5 DEF IInv, GivenInv
  <2> QED BY <1>1, <2>1, <2>2 DEF GivenInv, ArgumentsKept, RowsInv
<1> QED
  BY <1>8, <1>9, <1>10, <1>11, <1>12, <1>13 DEF IInv

LEMMA StoreRowKeeps ==
  ASSUME IInv, StoreRow
  PROVE  IInv'
<1> DEFINE bs == base.stack
<1>1. /\ pc = "row" /\ Converted /\ Len(stack) >= 2 /\ Slot(2) \in DOMAIN heap
      /\ heap' = Put(heap, Slot(2), Len(rows), Slot(1)) /\ stack' = Popped(stack, 1)
      /\ work' = <<>> /\ lost' = lost + nulls /\ live' = live \ {"text"} /\ pc' = "rows"
      /\ made' = made /\ base' = base /\ nulls' = nulls /\ op' = op /\ args' = args /\ given' = given
      /\ refused' = refused /\ failed' = failed
      /\ rows' = rows /\ results' = results /\ returned' = returned
  BY DEF StoreRow, SetTop, Idx, Put, CanSet, callVars
<1>2. /\ JsonInv /\ JsonTypeOK /\ work # <<>> /\ Len(work) = 1 /\ IsHeap(heap) /\ stack \in Seq(Slots)
      /\ nulls \in Nat /\ lost \in Nat /\ rows \in Seq(Rows) /\ rows # <<>>
  BY <1>1 DEF IInv, TypeOK, JsonTypeOK, PcInv, CursorInv, Converted
<1>3. /\ Len(heap) \in Nat /\ DOMAIN heap = 1..Len(heap) /\ Len(stack) \in Nat
      /\ Len(base.heap) \in Nat /\ DOMAIN base.heap = 1..Len(base.heap)
      /\ Len(base.heap) <= Len(heap) /\ Len(bs) \in Nat /\ DOMAIN bs = 1..Len(bs)
      /\ Len(rows) \in Nat \ {0} /\ DOMAIN work = 1..1
  BY <1>2, HeapIsSeq, LenProperties, EmptySeq DEF JsonInv, JsonTypeOK
<1>4. Slot(1) \in Slots /\ Len(rows) \in Keys
  <2>1. Slot(1) \in Slots
    BY <1>1, <1>2, <1>3, ElementOfSeq DEF Slot
  <2>2. Len(rows) <= MaxRows /\ MaxRows \in Nat
    BY <1>1, OperationsAssumption DEF IInv, CursorInv
  <2>3. Len(rows) \in 1..MaxRows
    BY <1>3, <2>2
  <2> QED BY <2>1, <2>3, OperationsAssumption
<1>5. IsHeap(heap') /\ Len(heap') = Len(heap) /\ DOMAIN heap' = DOMAIN heap
      /\ heap'[Slot(2)] = With(heap[Slot(2)], Len(rows), Slot(1))
      /\ \A n \in DOMAIN heap : n # Slot(2) => heap'[n] = heap[n]
  BY <1>1, <1>2, <1>4, HeapSet
<1>6. /\ stack' \in Seq(Slots) /\ Len(stack') = Len(stack) - 1 /\ DOMAIN stack' = 1..(Len(stack) - 1)
      /\ \A i \in 1..(Len(stack) - 1) : stack'[i] = stack[i]
  <2>1. Len(stack) >= 1
    BY <1>1, <1>3
  <2> QED BY <1>1, <1>2, <2>1, PopSeq, LenProperties
<1>7. JsonTypeOK'
  BY <1>1, <1>2, <1>5, <1>6, EmptySeq DEF JsonTypeOK
<1>8. JsonInv'
  BY <1>1, <1>7, JsonIdle
<1>9. TypeOK'
  <2>1. lost' \in Nat /\ live' \subseteq {"query", "update", "cursor", "text"}
    BY <1>1, <1>2 DEF IInv, TypeOK
  <2> QED BY <1>1, <1>7, <2>1 DEF IInv, TypeOK
<1>10. lost' = 0 => lost = 0 /\ nulls = 0
  BY <1>1, <1>2, SumZero
<1>11. PcInv'
  BY <1>1, <1>10 DEF IInv, PcInv
<1>12. LiveInv' /\ ReplyInv'
  BY <1>1 DEF IInv, LiveInv, ReplyInv, LeakLedger, WritesReported, Answered
<1> HIDE DEF bs
<1>13. /\ Len(stack) + nulls = Len(bs) + 1
       /\ \A i \in DOMAIN bs : i + nulls <= Len(bs) + 1 => stack[i] = bs[i]
  BY <1>2 DEF JsonInv, StackEffect, bs
<1>14. /\ Len(bs) + lost = Len(args) + 1
       /\ \A i \in DOMAIN bs : bs[i] = Append(args, results)[i]
       /\ Len(rows) <= MaxRows
  BY <1>1 DEF IInv, CursorInv, Under, bs
<1>15. Len(args) \in Nat
  BY LenProperties DEF IInv, TypeOK
<1>16. CursorInv'
  <2>1. Under' = stack'
    BY <1>1 DEF Under
  <2>2. Len(stack') + lost' = Len(args) + 1 /\ Len(stack') >= 1
    <3>1. Len(stack') = Len(stack) - 1 /\ lost' = lost + nulls /\ Len(stack) >= 2
      BY <1>1, <1>6
    <3> QED BY <1>2, <1>3, <1>13, <1>14, <1>15, <3>1
  <2>3. ASSUME NEW i \in DOMAIN stack'
        PROVE  stack'[i] = Append(args, results)[i]
    <3>1. i \in 1..(Len(stack) - 1)
      BY <1>6
    <3>2. i \in DOMAIN bs /\ i + nulls <= Len(bs) + 1
      BY <1>2, <1>3, <1>13, <3>1
    <3> QED BY <1>6, <1>13, <1>14, <3>1, <3>2
  <2> QED BY <1>1, <1>14, <2>1, <2>2, <2>3 DEF CursorInv, RowsDisplaced, Found, Answered
(* Without nulls the row is stored in the table of results. *)
<1>17. ASSUME lost' = 0
       PROVE  /\ Slot(1) = Filled(1) /\ Slot(2) = results /\ results \in DOMAIN base.heap
              /\ Filled(1) \in (Len(base.heap) + 1)..Len(heap) /\ made[Filled(1)] = work[1].doc
              /\ IsWhole(heap, made, Filled(1))
              /\ \A n \in (Len(base.heap) + 1)..Len(heap) : made[n] \in Compounds /\ IsWhole(heap, made, n)
              /\ \A n \in DOMAIN base.heap : heap[n] = base.heap[n]
  <2>1. lost = 0 /\ nulls = 0
    BY <1>10, <1>17
  <2>2. Slot(1) = Filled(1) /\ Slot(2) = bs[Len(args) + 1]
    <3>1. /\ Len(stack) + 1 - 1 = Len(bs) + 1 /\ Len(stack) + 1 - 2 = Len(bs)
          /\ Len(bs) = Len(args) + 1 /\ Len(bs) \in DOMAIN bs /\ Len(bs) + nulls <= Len(bs) + 1
      <4>1. /\ Len(stack) \in Nat /\ Len(bs) \in Nat /\ nulls = 0 /\ lost = 0 /\ DOMAIN bs = 1..Len(bs)
            /\ Len(stack) + nulls = Len(bs) + 1 /\ Len(bs) + lost = Len(args) + 1
        BY <1>3, <1>13, <1>14, <2>1
      <4>2. Len(stack) = Len(bs) + 1
        BY <4>1
      <4>3. Len(bs) = Len(args) + 1
        <5>1. lost = 0 /\ Len(bs) \in Nat /\ Len(bs) + lost = Len(args) + 1
          BY <4>1
        <5>2. Len(bs) + 0 = Len(args) + 1
          BY <5>1
        <5> QED BY ONLY <5>1, <5>2, <1>15
      <4> HIDE <4>1
      <4>4. Len(bs) \in Nat /\ DOMAIN bs = 1..Len(bs) /\ nulls = 0
        BY <4>1
      <4> QED BY <1>15, <4>2, <4>3, <4>4
    <3>2. Slot(1) = stack[Len(bs) + 1] /\ Slot(2) = stack[Len(bs)]
      BY <3>1 DEF Slot
    <3> QED BY <1>13, <3>1, <3>2 DEF Filled, bs
  <2>3. bs[Len(args) + 1] = results
    <3>1. Len(args) + 1 \in DOMAIN bs
      BY <1>3, <1>14, <1>15, <2>1
    <3>2. Append(args, results)[Len(args) + 1] = results
      <4>1. results \in Slots /\ args \in Seq(Slots)
        BY DEF IInv, TypeOK, Slots
      <4> QED BY <4>1, AppendSeq
    <3> QED BY <1>14, <3>1, <3>2
  <2>4. results \in DOMAIN base.heap
    BY <1>1, <2>1 DEF IInv, RowsInv, Before
  <2>5. 1 \in DOMAIN work
    BY <1>3
  <2>6. Filled(1) \in (Len(base.heap) + 1)..Len(heap) /\ made[Filled(1)] = work[1].doc
    BY <1>2, <2>1, <2>5 DEF JsonInv, FramesInv, New
  <2>7. Frame = work[1] /\ Frame.done = Len(Frame.doc.members)
    <3>1. Frame = work[1]
      BY <1>2 DEF Frame
    <3>2. /\ Frame.done \in Nat /\ Len(Frame.doc.members) \in Nat
          /\ Frame.done <= Len(Frame.doc.members)
      BY <1>2, <2>5, <3>1, MemberType
    <3> QED BY <1>1, <1>2, <3>1, <3>2 DEF Converted, HasMember
  <2>8. IsWhole(heap, made, Filled(1))
    BY <1>2, <2>1, <2>5, <2>6, <2>7 DEF JsonInv, Faithful, IsWhole
  <2>9. ASSUME NEW n \in (Len(base.heap) + 1)..Len(heap)
        PROVE  made[n] \in Compounds /\ IsWhole(heap, made, n)
    <3>1. made[n] \in Compounds /\ (IsWhole(heap, made, n) \/ \E i \in DOMAIN work : n = Filled(i))
      BY <1>2, <2>1 DEF JsonInv, FramesInv, Faithful, New
    <3>2. \A i \in DOMAIN work : i = 1
      BY <1>3
    <3> QED BY <2>8, <3>1, <3>2
  <2>10. \A n \in DOMAIN base.heap : heap[n] = base.heap[n]
    BY <1>2, <2>1 DEF JsonInv, OthersKept
  <2> QED BY <2>2, <2>3, <2>4, <2>6, <2>8, <2>9, <2>10
<1>18. Len(given) <= Len(heap) /\ Len(given) \in Nat /\ DOMAIN given = 1..Len(given)
  BY <1>1, HeapIsSeq DEF IInv, GivenInv, TypeOK
<1>19. GivenInv'
  <2>1. ASSUME lost' + nulls' = 0, NEW n \in DOMAIN given
        PROVE  heap'[n] = given[n]
    <3>1. lost' = 0 /\ lost = 0
      <4>1. lost' \in Nat /\ nulls' \in Nat /\ lost' + nulls' = 0
        BY <1>9, <2>1 DEF TypeOK, JsonTypeOK
      <4> QED BY ONLY <4>1, <1>10, SumZero
    <3>2. Len(given) <= Len(base.heap) /\ base.heap[n] = given[n] /\ Len(given) < results
      BY <1>1, <1>2, <2>1, <3>1 DEF IInv, GivenInv, RowsInv
    <3>3. n \in DOMAIN base.heap /\ n # results /\ n \in DOMAIN heap
      <4>1. results \in Nat
        BY DEF IInv, TypeOK
      <4> QED BY <1>3, <1>18, <2>1, <3>2, <4>1
    <3> QED BY <1>5, <1>17, <3>1, <3>2, <3>3
  <2> QED BY <1>1, <1>5, <1>18, <2>1 DEF GivenInv, ArgumentsKept
<1>20. RowsInv'
  <2> SUFFICES ASSUME lost' = 0
               PROVE  RowsInv'
    BY DEF RowsInv
  <2>1. lost = 0 /\ Slot(2) = results /\ results \in DOMAIN base.heap /\ results \in DOMAIN heap
    BY <1>3, <1>10, <1>17
  <2>2. /\ Len(given) < results
        /\ DOMAIN base.heap[results] = 1..(Len(rows) - 1)
        /\ \A i \in 1..(Len(rows) - 1) : Same(base.heap, made, base.heap[results][i], rows[i])
        /\ \A n \in (results + 1)..Len(base.heap) : made[n] \in Compounds /\ IsWhole(base.heap, made, n)
    BY <1>1, <2>1 DEF IInv, RowsInv, Stored, Before
  <2>3. heap[results] = base.heap[results] /\ IsTable(heap[results])
    BY <1>2, <1>3, <1>17, <2>1, HeapIsSeq
  <2>4. /\ heap'[results] = With(heap[results], Len(rows), Slot(1))
        /\ DOMAIN With(heap[results], Len(rows), Slot(1)) = DOMAIN heap[results] \cup {Len(rows)}
        /\ With(heap[results], Len(rows), Slot(1))[Len(rows)] = Slot(1)
        /\ \A x \in DOMAIN heap[results] : x # Len(rows) =>
              With(heap[results], Len(rows), Slot(1))[x] = heap[results][x]
    <3>1. heap'[results] = With(heap[results], Len(rows), Slot(1))
      BY <1>5, <2>1
    <3> QED BY <1>4, <2>3, <3>1, WithTable
  <2>5. 1..Len(rows) = 1..(Len(rows) - 1) \cup {Len(rows)} /\ Len(rows) \notin 1..(Len(rows) - 1)
    BY <1>3
  <2>6. DOMAIN heap'[results] = 1..Len(rows)
    BY <2>2, <2>3, <2>4, <2>5
  <2>7. Before' = heap' /\ Stored' = Len(rows)
    BY <1>1 DEF Before, Stored
  <2>8. \A n \in DOMAIN base.heap : n \in DOMAIN heap'
    BY <1>3, <1>5
  <2>9. ASSUME NEW i \in 1..Len(rows)
        PROVE  Same(heap', made, heap'[results][i], rows[i])
    <3>1. CASE i = Len(rows)
      <4>1. heap'[results][i] = Filled(1) /\ Filled(1) \in DOMAIN heap'
        BY <1>3, <1>5, <1>17, <2>4, <3>1
      <4>2. made[Filled(1)] = rows[i]
        BY <1>1, <1>17, <3>1 DEF IInv, CursorInv
      <4>3. rows[i] \notin Scalars
        <5>1. rows[i] \in Rows
          BY <1>2, ElementOfSeq
        <5> QED BY <5>1, OperationsAssumption DEF Compounds
      <4> QED BY <4>1, <4>2, <4>3 DEF Same
    <3>2. CASE i \in 1..(Len(rows) - 1)
      <4>1. heap'[results][i] = base.heap[results][i]
        BY <2>2, <2>3, <2>4, <2>5, <3>2
      <4> QED BY <2>2, <2>8, <3>2, <4>1 DEF Same
    <3> QED BY <2>5, <3>1, <3>2
  <2>10. ASSUME NEW n \in (results + 1)..Len(heap')
         PROVE  made[n] \in Compounds /\ IsWhole(heap', made, n)
    <3>1. results \in Nat /\ Len(heap') = Len(heap)
      BY <1>5 DEF IInv, TypeOK
    <3>2. n \in DOMAIN heap /\ n # results
      BY <1>3, <2>1, <3>1
    <3>3. heap'[n] = heap[n]
      BY <1>5, <2>1, <3>2
    <3>4. CASE n \in (Len(base.heap) + 1)..Len(heap)
      <4>1. made[n] \in Compounds /\ IsWhole(heap, made, n)
        BY <1>17, <3>4
      <4>2. DOMAIN heap \subseteq DOMAIN heap'
        BY <1>5
      <4> QED BY <3>3, <4>1, <4>2, HoldsStays DEF IsWhole
    <3>5. CASE n \in (results + 1)..Len(base.heap)
      <4>1. made[n] \in Compounds /\ IsWhole(base.heap, made, n) /\ n \in DOMAIN base.heap
        BY <1>3, <2>1, <2>2, <3>1, <3>5
      <4>2. heap'[n] = base.heap[n] /\ DOMAIN base.heap \subseteq DOMAIN heap'
        BY <1>17, <2>8, <3>3, <4>1
      <4> QED BY <4>1, <4>2, HoldsStays DEF IsWhole
    <3>6. n \in (Len(base.heap) + 1)..Len(heap) \/ n \in (results + 1)..Len(base.heap)
      BY <1>3, <2>1, <3>1
    <3> QED BY <3>4, <3>5, <3>6
  <2> QED
    BY <1>1, <1>5, <2>1, <2>2, <2>6, <2>7, <2>9, <2>10 DEF RowsInv
<1> QED
  BY <1>8, <1>9, <1>11, <1>12, <1>16, <1>19, <1>20 DEF IInv

LEMMA Singleton ==
  ASSUME NEW S, NEW s \in Seq(S), Len(s) = 1
  PROVE  s = <<s[1]>>
<1>1. s[1] \in S
  BY ElementOfSeq
<1>2. <<s[1]>> \in Seq(S) /\ Len(<<s[1]>>) = 1 /\ <<s[1]>>[1] = s[1]
  BY <1>1
<1> QED
  BY <1>2, SeqEqual

LEMMA EndOfRowsKeeps ==
  ASSUME IInv, EndOfRows
  PROVE  IInv'
<1>1. /\ pc = "rows" /\ pc' = "done" /\ failed' \in BOOLEAN /\ live' = live \ {"query", "cursor"}
      /\ returned' = Tops(1, stack)
      /\ stack' = stack /\ heap' = heap /\ work' = work /\ made' = made /\ base' = base
      /\ nulls' = nulls /\ op' = op /\ args' = args /\ given' = given
      /\ refused' = refused /\ rows' = rows /\ results' = results /\ lost' = lost
  BY DEF EndOfRows, Return, jsonVars, callVars, rowVars
<1>2. /\ work = <<>> /\ op \in {"find", "aggregate"} /\ live = {"query", "cursor"} /\ ~refused
      /\ stack \in Seq(Slots)
  BY <1>1 DEF IInv, PcInv, LiveInv, TypeOK, JsonTypeOK
<1>3. /\ Len(stack) + lost = Len(args) + 1 /\ Len(stack) >= 1
      /\ \A i \in DOMAIN stack : stack[i] = Append(args, results)[i]
  BY <1>1 DEF IInv, CursorInv, Under
<1>4. /\ Len(stack) \in Nat /\ Len(args) \in Nat /\ lost \in Nat /\ Len(stack) \in DOMAIN stack
      /\ Len(stack) = Len(args) + 1 - lost
  BY <1>2, <1>3, LenProperties DEF IInv, TypeOK
<1>5. returned' = <<stack[Len(stack)]>>
  <2> DEFINE m == Len(stack)
  <2>1. Tops(1, stack) = SubSeq(stack, m, m)
    <3>1. Len(stack) + 1 - 1 = m
      BY <1>4
    <3> QED BY <3>1 DEF Tops
  <2>2. m \in Int /\ \A i \in m..m : stack[i] \in Slots
    BY <1>2, <1>4, ElementOfSeq
  <2> HIDE DEF m
  <2>3. /\ SubSeq(stack, m, m) \in Seq(Slots) /\ Len(SubSeq(stack, m, m)) = IF m <= m THEN m - m + 1 ELSE 0
        /\ \A i \in 1..(m - m + 1) : SubSeq(stack, m, m)[i] = stack[m + i - 1]
    BY <2>2, SubSeqProperties
  <2>4. Len(SubSeq(stack, m, m)) = 1 /\ SubSeq(stack, m, m)[1] = stack[m]
    BY <2>2, <2>3
  <2>5. SubSeq(stack, m, m) = <<stack[m]>>
    BY <2>3, <2>4, Singleton
  <2> QED BY <1>1, <2>1, <2>5 DEF m
<1>6. stack[Len(stack)] \in Slots /\ returned' \in Seq(Slots)
  BY <1>2, <1>4, <1>5, ElementOfSeq, TupleSeq
<1>7. JsonTypeOK'
  BY <1>1, EmptySeq DEF IInv, TypeOK, JsonTypeOK
<1>8. JsonInv'
  BY <1>1, <1>2, <1>7, JsonIdle
<1>9. TypeOK'
  <2>1. live' \subseteq {"query", "update", "cursor", "text"}
    BY <1>1, <1>2
  <2> QED BY <1>1, <1>6, <1>7, <2>1 DEF IInv, TypeOK
<1>10. PcInv'
  BY <1>1 DEF IInv, PcInv
<1>11. LiveInv' /\ ReplyInv'
  <2>1. live' = {} /\ op' \notin Writes /\ ~refused'
    BY <1>1, <1>2 DEF Writes
  <2>2. LeakLedger' /\ WritesReported'
    BY <1>1, <1>5, <1>6, <2>1, OperationsAssumption DEF LeakLedger, WritesReported, Answered
  <2> QED BY <1>1, <2>2 DEF LiveInv, ReplyInv
<1>12. CursorInv'
  <2>1. returned' = <<Append(args, results)[Len(args) + 1 - lost]>>
    BY <1>3, <1>4, <1>5
  <2> QED BY <1>1, <2>1 DEF CursorInv, RowsDisplaced
<1>13. GivenInv' /\ RowsInv'
  BY <1>1, <1>2, TablesKept
<1> QED
  BY <1>8, <1>9, <1>10, <1>11, <1>12, <1>13 DEF IInv

-------------------------------------------------------------------------------
LEMMA ResumeKeeps ==
  ASSUME IInv, Resume
  PROVE  IInv'
<1>1. /\ pc = "done" /\ pc' = "idle" /\ op' = "none" /\ args' = <<>> /\ given' = <<>> /\ stack' = <<>>
      /\ live' = {} /\ refused' = FALSE /\ failed' = FALSE
      /\ rows' = <<>> /\ results' = 0 /\ lost' = 0 /\ returned' = <<>>
      /\ heap' = heap /\ work' = work /\ made' = made /\ base' = base /\ nulls' = nulls
  BY DEF Resume
<1>2. work = <<>>
  BY <1>1 DEF IInv, PcInv
<1>3. IsHeap(<<>>)
  <2>1. \A S : <<>> \in Seq(S) /\ Len(<<>>) = 0
    BY EmptySeq
  <2>2. DOMAIN <<>> = {}
    BY <2>1, LenProperties
  <2> QED BY <2>1, <2>2 DEF IsHeap
<1>4. JsonTypeOK'
  BY <1>1, EmptySeq DEF IInv, TypeOK, JsonTypeOK
<1>5. JsonInv'
  BY <1>1, <1>2, <1>4, JsonIdle
<1>6. TypeOK'
  BY <1>1, <1>3, <1>4, EmptySeq DEF IInv, TypeOK
<1>7. PcInv'
  BY <1>1, <1>2 DEF PcInv
<1>8. LiveInv' /\ ReplyInv' /\ CursorInv' /\ GivenInv' /\ RowsInv'
  BY <1>1, <1>2 DEF LiveInv, ReplyInv, CursorInv, GivenInv, RowsInv, LeakLedger, WritesReported,
                    RowsDisplaced, ArgumentsKept, Found, Answered
<1> QED
  BY <1>5, <1>6, <1>7, <1>8 DEF IInv

LEMMA StutterKeeps ==
  ASSUME IInv, UNCHANGED vars
  PROVE  IInv'
<1>1. /\ pc' = pc /\ returned' = returned /\ live' = live
      /\ stack' = stack /\ heap' = heap /\ work' = work /\ made' = made /\ base' = base
      /\ nulls' = nulls /\ op' = op /\ args' = args /\ given' = given
      /\ refused' = refused /\ failed' = failed /\ rows' = rows /\ results' = results /\ lost' = lost
  BY DEF vars, jsonVars, callVars, rowVars
<1>2. TypeOK' /\ JsonTypeOK'
  BY <1>1 DEF IInv, TypeOK, JsonTypeOK
<1>3. JsonInv'
  BY <1>1, <1>2 DEF IInv, JsonInv, StackEffect, OthersKept, FramesInv, Faithful, Filled, New
<1>4. PcInv' /\ LiveInv' /\ ReplyInv'
  BY <1>1 DEF IInv, PcInv, LiveInv, ReplyInv, LeakLedger, Documents, WritesReported, Answered
<1>5. CursorInv'
  BY <1>1 DEF IInv, CursorInv, RowsDisplaced, Found, Answered, Under
<1>6. GivenInv'
  BY <1>1 DEF IInv, GivenInv, ArgumentsKept
<1>7. RowsInv'
  BY <1>1 DEF IInv, RowsInv, Found, Answered, Before, Stored
<1> QED
  BY <1>2, <1>3, <1>4, <1>5, <1>6, <1>7 DEF IInv

LEMMA NextKeeps ==
  ASSUME IInv, [Next]_vars
  PROVE  IInv'
<1>1. CASE Run
  <2>1. CASE TooFewArguments \/ NotWritable \/ PagingRaises \/ ConvertRaises \/ StoreRaises
    <3>1. Raise /\ pc \notin {"idle", "rows", "done", "undefined"}
      BY <2>1 DEF TooFewArguments, NotWritable, Writing, PagingRaises, ConvertRaises, StoreRaises
    <3> QED BY <3>1, RaiseKeeps
  <2>2. CASE Prepare
    BY <2>2, PrepareKeeps
  <2>3. CASE EndPlainly
    BY <2>3, EndPlainlyKeeps
  <2>4. CASE WriteSucceeds \/ ReplyConverted \/ OpenCursor \/ ConvertRow \/ StoreRow \/ EndOfRows
    BY <2>4, WriteSucceedsKeeps, ReplyConvertedKeeps, OpenCursorKeeps, ConvertRowKeeps,
       StoreRowKeeps, EndOfRowsKeeps
  <2>5. CASE \/ \E d \in Replies : ReadReply(d)
             \/ \E d \in Rows : NextRow(d) \/ NextRowUnparsed(d)
    BY <2>5, ReadReplyKeeps, NextRowKeeps, NextRowUnparsedKeeps
  <2>6. CASE StoreNoRow
    BY <2>6, StoreNoRowKeeps
  <2>7. CASE WritingUndefined \/ StackOverflows
    <3>1. Undefined
      BY <2>7 DEF WritingUndefined, StackOverflows
    <3>2. pc \notin {"idle", "done"}
      BY <2>7 DEF WritingUndefined, Writing, StackOverflows, Pushes
    <3> QED BY <3>1, <3>2, UndefinedKeeps
  <2> QED BY <1>1, <2>1, <2>2, <2>3, <2>4, <2>5, <2>6, <2>7 DEF Run, Prepare, EndPlainly
<1>2. CASE Resume
  BY <1>2, ResumeKeeps
<1>3. CASE \E o \in Writes \cup Reads : \E s \in Arguments : Call(o, s)
  BY <1>3, CallKeeps
<1>4. CASE UNCHANGED vars
  BY <1>4, StutterKeeps
<1> QED
  BY <1>1, <1>2, <1>3, <1>4 DEF Next

THEOREM Invariance == Spec => []IInv
BY InitIInv, NextKeeps, PTL DEF Spec

-------------------------------------------------------------------------------
(* The types of what an operation works with: the stack, the tables, what   *)
(* is returned.                                                            *)
THEOREM TypeCorrect == Spec => []TypeOK
<1>1. IInv => TypeOK
  BY DEF IInv
<1> QED
  BY <1>1, Invariance, PTL

(* A conversion that the stack suffices for takes one slot for every null   *)
(* from its caller, at every step, and none without nulls.                 *)
THEOREM StackBalanced == Spec => []StackEffect
<1>1. IInv => StackEffect
  BY DEF IInv, JsonInv
<1> QED
  BY <1>1, Invariance, PTL

(* A document without nulls that parses, and whose levels the stack         *)
(* suffices for, becomes a table that holds it, member by member and level *)
(* by level; of equal names the last one counts.                           *)
THEOREM ConversionFaithful == Spec => []Faithful
<1>1. IInv => Faithful
  BY DEF IInv, JsonInv
<1> QED
  BY <1>1, Invariance, PTL

(* What was an array is written back as one, unless it was empty. *)
THEOREM ConversionKeepsKinds == Spec => []KindsKept
<1>1. IInv => KindsKept
  BY JsonInvKinds DEF IInv
<1> QED
  BY <1>1, Invariance, PTL

(* However many nulls a find or aggregate meets, and rows that do not       *)
(* parse, what the script gets is that many places below the table of rows. *)
THEOREM NullsDisplaceRows == Spec => []RowsDisplaced
<1>1. IInv => RowsDisplaced
  BY DEF IInv, CursorInv
<1> QED
  BY <1>1, Invariance, PTL

(* When every row parses and none holds a null, find and aggregate return a *)
(* table of all the rows the cursor delivered, in order and whole.         *)
THEOREM AllDocumentsFound == Spec => []DocumentsFound
<1>1. IInv => DocumentsFound
  <2> SUFFICES ASSUME IInv, Found, lost = 0
               PROVE  /\ returned = <<results>>
                      /\ DOMAIN heap[results] = 1..Len(rows)
                      /\ \A i \in 1..Len(rows) : Same(heap, made, heap[results][i], rows[i])
                      /\ \A n \in (results + 1)..Len(heap) : IsWhole(heap, made, n)
    BY DEF DocumentsFound
  <2>1. pc \notin {"row", "unparsed"}
    BY DEF Found, Answered
  <2>2. /\ DOMAIN heap[results] = 1..Len(rows)
        /\ \A i \in 1..Len(rows) : Same(heap, made, heap[results][i], rows[i])
        /\ \A n \in (results + 1)..Len(heap) : IsWhole(heap, made, n)
    BY <2>1 DEF IInv, RowsInv, Before, Stored
  <2>3. returned = <<Append(args, results)[Len(args) + 1 - lost]>>
    BY DEF IInv, CursorInv, RowsDisplaced
  <2>4. args \in Seq(Slots) /\ results \in Slots
    BY DEF IInv, TypeOK, Slots
  <2>5. Append(args, results)[Len(args) + 1] = results /\ Len(args) \in Nat
    BY <2>4, AppendSeq
  <2>6. Len(args) + 1 - lost = Len(args) + 1
    BY <2>5
  <2> QED BY <2>2, <2>3, <2>5, <2>6
<1> QED
  BY <1>1, Invariance, PTL

(* No operation changes a table of its caller, unless it meets a null or a  *)
(* row that does not parse.                                                *)
THEOREM CallersTablesKept == Spec => []ArgumentsKept
<1>1. IInv => ArgumentsKept
  BY DEF IInv, GivenInv
<1> QED
  BY <1>1, Invariance, PTL

(* true is returned for the writes the database did, false for those it     *)
(* refused.                                                                *)
THEOREM WritesToldTruly == Spec => []WritesReported
<1>1. IInv => WritesReported
  BY DEF IInv, ReplyInv
<1> QED
  BY <1>1, Invariance, PTL

(* What each way out of an operation frees and what it leaks, refused        *)
(* documents, failed writes and rows that raise an error included.          *)
THEOREM LeaksCounted == Spec => []LeakLedger
<1>1. IInv => LeakLedger
  BY DEF IInv, LiveInv
<1> QED
  BY <1>1, Invariance, PTL

===============================================================================
