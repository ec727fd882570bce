---------------------------- MODULE MongoOperations ----------------------------
(***************************************************************************)
(* The operations of a collection: insert, find, count, aggregate, delete  *)
(* and update.  Each checks its arguments, turns Lua tables into BSON      *)
(* documents, asks the database, and pushes what it returns to the script; *)
(* rows and replies become tables the way LuaJson says, unless their text   *)
(* does not parse: rapidjson rejects the nan and inf that bson_as_json      *)
(* prints, and no caller asks.  One call runs at a time: a Lua state        *)
(* belongs to one thread.                                                   *)
(*                                                                         *)
(* libbson and libmongoc are external: a document is accepted or refused,  *)
(* the database succeeds or fails, and a cursor delivers rows until it has *)
(* no more or fails, which mongoc_cursor_next does not tell apart.         *)
(***************************************************************************)
EXTENDS LuaJson

CONSTANTS
  Rows,        (* the documents the database holds                         *)
  Unparsed,    (* the rows with a double whose text does not parse         *)
  Replies,     (* the documents it answers an insert or update with        *)
  ReplyJson,   (* the values in these, none of them null; replies parse    *)
  Coll, True, False, Nil, Message, Number, MinusOne, Text,
               (* scalars: the collection, booleans, nil, an error         *)
               (* message, integers, and a string                          *)
  Raised,      (* in place of values: the call raised an error             *)
  ScriptTables,(* the tables a script has at first                         *)
  MaxRows,     (* bound: rows that match                                   *)
  MaxTables    (* bound: no call is made with more tables than that        *)

ASSUME OperationsAssumption ==
  /\ Rows \cup Replies \subseteq Compounds /\ Unparsed \subseteq Rows
  /\ Replies \subseteq ReplyJson /\ ReplyJson \subseteq Json \ {Null}
  /\ \A v \in ReplyJson \cap Compounds : \A i \in DOMAIN v.members : v.members[i][2] \in ReplyJson
  /\ {Coll, True, False, Nil, Message, Number, MinusOne, Text} \subseteq Scalars
  /\ Raised \notin Seq(Slots) /\ IsHeap(ScriptTables)
  /\ MaxRows \in Nat /\ 1..MaxRows \subseteq Keys
  /\ MaxTables \in Nat /\ MinStack >= 2

VARIABLES
  pc,          (* where the call is                                        *)
  op, args,    (* the operation and its arguments, the collection first    *)
  given,       (* auxiliary: the tables when the script made the call      *)
  live,        (* what the call has allocated and not freed                *)
  refused,     (* bson_new_from_json returned NULL for a document          *)
  failed,      (* the database reported an error                           *)
  rows,        (* the rows the cursor delivered                            *)
  results,     (* the table they are stored in                             *)
  lost,        (* auxiliary: the slots lost to the rows stored, one for    *)
               (* every null in them and one for each that did not parse   *)
  returned     (* the values the script gets                               *)

callVars == <<op, args, given>>
rowVars == <<rows, results, lost>>
vars == <<jsonVars, pc, callVars, live, refused, failed, rowVars, returned>>

Writes == {"insert", "delete", "update"}
Reads == {"find", "count", "aggregate"}

Init ==
  /\ pc = "idle" /\ op = "none" /\ args = <<>> /\ given = <<>> /\ stack = <<>>
  /\ live = {} /\ refused = FALSE /\ failed = FALSE
  /\ rows = <<>> /\ results = 0 /\ lost = 0 /\ returned = <<>>
  /\ heap = ScriptTables /\ work = <<>>
  /\ made = [n \in DOMAIN ScriptTables |-> Null]
  /\ base = [stack |-> <<>>, heap |-> ScriptTables] /\ nulls = 0

-------------------------------------------------------------------------------
Return(values) == returned' = values /\ pc' = "done"

(* The top n slots of s. *)
Tops(n, s) == SubSeq(s, Len(s) + 1 - n, Len(s))

Abandon ==
  /\ work' = <<>>
  /\ UNCHANGED <<stack, heap, made, base, nulls, callVars, live, refused, failed, rowVars>>

Raise == Return(Raised) /\ Abandon

(* The code does something that the Lua API gives no meaning. *)
Undefined == pc' = "undefined" /\ returned' = returned /\ Abandon

(* createBSONFromLuaTable takes the table at index -1 or 2. *)
Document == IF op \in {"insert", "aggregate", "delete"} THEN Slot(1) ELSE stack[2]

IsWritable(v) == v \in DOMAIN heap /\ IsFinite(v) /\ ~MeetsBadKeys(v)

(* What scripts pass: the collection, tables, and skip and limit. *)
Arguments ==
  LET T == DOMAIN heap
  IN  {<<Coll>>} \cup {<<Coll, d>> : d \in T}
        \cup {<<Coll, d, x>> : d \in T, x \in T \cup {Number, Text}}
        \cup {<<Coll, d, Number, Number>> : d \in T}

(* A script calls an operation. *)
Call(o, s) ==
  /\ pc = "idle" /\ Len(heap) <= MaxTables
  /\ op' = o /\ args' = s /\ stack' = s
  /\ given' = heap /\ nulls' = 0
  /\ pc' = "enter"
  /\ UNCHANGED <<heap, work, made, base, live, refused, failed, rowVars, returned>>

TooFewArguments ==
  /\ pc = "enter" /\ Len(stack) < 2
  /\ Raise

(* The table that createBSONFromLuaTable is about to write as JSON. *)
Writing ==
  CASE pc = "enter" /\ Len(stack) >= 2  -> {Document}
    [] pc = "update" /\ Len(stack) >= 3 -> {stack[3]}
    [] OTHER                            -> {}

(* lua_geti raises an error for what has no members. *)
NotWritable ==
  /\ \/ \E v \in Writing : v = Number \/ (v \in DOMAIN heap /\ MeetsBadKeys(v))
     \/ pc = "update" /\ Writing = {}
  /\ Raise

(* A string has members for lua_geti, but lua_next reads it as a table; and *)
(* a table that is too deep, or within itself, takes more slots than there  *)
(* are.                                                                     *)
WritingUndefined ==
  /\ \E v \in Writing : v = Text \/ (v \in DOMAIN heap /\ TooDeep(v))
  /\ Undefined

MakeQuery(accepted) ==
  /\ pc = "enter" /\ \E v \in Writing : IsWritable(v)
  /\ live' = IF accepted THEN {"query"} ELSE {}
  /\ refused' = ~accepted
  /\ pc' = CASE op = "update"           -> "update"
             [] op \in {"find", "count"} -> "paging"
             [] OTHER                    -> "made"
  /\ UNCHANGED <<jsonVars, callVars, failed, rowVars, returned>>

MakeUpdate(accepted) ==
  /\ pc = "update" /\ \E v \in Writing : IsWritable(v)
  /\ live' = IF accepted THEN live \cup {"update"} ELSE live
  /\ refused' = (refused \/ ~accepted)
  /\ pc' = "made"
  /\ UNCHANGED <<jsonVars, callVars, failed, rowVars, returned>>

(* skip and limit are read with luaL_checkinteger. *)
BadPaging == \E i \in 3..4 : i \in DOMAIN stack /\ stack[i] # Number

ReadPaging ==
  /\ pc = "paging" /\ ~BadPaging
  /\ pc' = "made"
  /\ UNCHANGED <<jsonVars, callVars, live, refused, failed, rowVars, returned>>

PagingRaises ==
  /\ pc = "paging" /\ BadPaging
  /\ Raise

Refuse ==
  /\ pc = "made" /\ refused
  /\ Return(<<IF op \in Writes THEN False ELSE Nil, Message>>)
  /\ UNCHANGED <<jsonVars, callVars, live, refused, failed, rowVars>>

Ready == pc = "made" /\ ~refused

-------------------------------------------------------------------------------
(* insert, delete, update *)

\* Mutant: Failure, taken for a success.
FailureIgnored == <<True>>

Failure == <<False, Message>>

WriteFails ==
  /\ Ready /\ op \in Writes
  /\ failed' = TRUE
  /\ Return(Failure)
  /\ UNCHANGED <<jsonVars, callVars, live, refused, rowVars>>

DeleteSucceeds ==
  /\ Ready /\ op = "delete"
  /\ live' = live \ {"query"}
  /\ Return(<<True>>)
  /\ UNCHANGED <<jsonVars, callVars, refused, failed, rowVars>>

\* Mutant: Destroyed, without the second bson_destroy of update.
DestroyedHalf == {"query"}

(* The documents insert and update destroy. *)
Destroyed == {"query", "update"}

(* true, and the reply as a table. *)
WriteSucceeds ==
  /\ Ready /\ op \in {"insert", "update"}
  /\ live' = (live \ Destroyed) \cup {"text"}
  /\ stack' = Append(stack, True)
  /\ pc' = "reply"
  /\ UNCHANGED <<heap, work, made, base, nulls, callVars, refused, failed, rowVars, returned>>

ReadReply(d) ==
  /\ pc = "reply"
  /\ Begin(d)
  /\ pc' = "replying"
  /\ UNCHANGED <<callVars, live, refused, failed, rowVars, returned>>

ReplyConverted ==
  /\ pc = "replying" /\ Converted
  /\ work' = <<>>
  /\ live' = live \ {"text"}
  /\ Return(Tops(2, stack))
  /\ UNCHANGED <<stack, heap, made, base, nulls, callVars, refused, failed, rowVars>>

-------------------------------------------------------------------------------
(* count, find, aggregate *)

(* mongoc_collection_count returns -1 for an error. *)
Count ==
  /\ Ready /\ op = "count"
  /\ failed' \in BOOLEAN
  /\ Return(<<IF failed' THEN MinusOne ELSE Number>>)
  /\ live' = live \ {"query"}
  /\ UNCHANGED <<jsonVars, callVars, refused, rowVars>>

\* Mutant: PushResults, without lua_newtable.
PushNoResults == UNCHANGED <<stack, heap, made>>

PushResults == PushTable(Null)

OpenCursor ==
  /\ Ready /\ op \in {"find", "aggregate"}
  /\ PushResults
  /\ results' = Len(heap) + 1
  /\ live' = live \cup {"cursor"}
  /\ pc' = "rows"
  /\ UNCHANGED <<work, base, nulls, callVars, refused, failed, rows, lost, returned>>

NextRow(d) ==
  /\ pc = "rows" /\ Len(rows) < MaxRows /\ d \notin Unparsed
  /\ Begin(d)
  /\ rows' = Append(rows, d)
  /\ live' = live \cup {"text"}
  /\ pc' = "row"
  /\ UNCHANGED <<callVars, refused, failed, results, lost, returned>>

(* jsonToLuaTable returns false and pushes nothing. *)
NextRowUnparsed(d) ==
  /\ pc = "rows" /\ Len(rows) < MaxRows /\ d \in Unparsed
  /\ rows' = Append(rows, d)
  /\ live' = live \cup {"text"}
  /\ pc' = "unparsed"
  /\ UNCHANGED <<jsonVars, callVars, refused, failed, results, lost, returned>>

(* Every level of a row takes a slot, and so does the value that is stored  *)
(* next.  Beyond the slots there are, the push may still go well.           *)
Pushes ==
  \/ pc \in {"reply", "rows"}
  \/ pc \in {"row", "replying"} /\ HasMember /\ Value # Null

StackOverflows ==
  /\ Pushes /\ Len(stack) >= Len(args) + MinStack
  /\ Undefined

ConvertRow ==
  /\ pc \in {"row", "replying"}
  /\ Convert
  /\ UNCHANGED <<pc, callVars, live, refused, failed, rowVars, returned>>

ConvertRaises ==
  /\ pc \in {"row", "replying"} /\ ConversionRaises
  /\ Raise

\* Mutant: Idx, without idx++.
IdxStays == 1

Idx == Len(rows)

(* lua_seti(L, -2, idx++) *)
StoreRow ==
  /\ pc = "row" /\ Converted /\ CanSet
  /\ SetTop(Idx)
  /\ work' = <<>>
  /\ lost' = lost + nulls
  /\ live' = live \ {"text"}
  /\ pc' = "rows"
  /\ UNCHANGED <<made, base, nulls, callVars, refused, failed, rows, results, returned>>

(* The same lua_seti, when the row was not pushed: the table of results, or *)
(* what is on top instead, is stored in the slot below.                     *)
StoreNoRow ==
  /\ pc = "unparsed" /\ CanSet
  /\ SetTop(Idx)
  /\ lost' = lost + 1
  /\ live' = live \ {"text"}
  /\ pc' = "rows"
  /\ UNCHANGED <<work, made, base, nulls, callVars, refused, failed, rows, results, returned>>

StoreRaises ==
  /\ (pc = "row" /\ Converted) \/ pc = "unparsed"
  /\ ~CanSet
  /\ Raise

(* The cursor has no more rows, or fails: the code does not ask which. *)
EndOfRows ==
  /\ pc = "rows"
  /\ failed' \in BOOLEAN
  /\ live' = live \ {"query", "cursor"}
  /\ Return(Tops(1, stack))
  /\ UNCHANGED <<jsonVars, callVars, refused, rowVars>>

(* The script goes on; what the call left allocated stays so. *)
Resume ==
  /\ pc = "done"
  /\ pc' = "idle" /\ op' = "none" /\ args' = <<>> /\ given' = <<>> /\ stack' = <<>>
  /\ live' = {} /\ refused' = FALSE /\ failed' = FALSE
  /\ rows' = <<>> /\ results' = 0 /\ lost' = 0 /\ returned' = <<>>
  /\ UNCHANGED <<heap, work, made, base, nulls>>

Run ==
  \/ TooFewArguments \/ NotWritable \/ WritingUndefined
  \/ \E accepted \in BOOLEAN : MakeQuery(accepted) \/ MakeUpdate(accepted)
  \/ ReadPaging \/ PagingRaises \/ Refuse
  \/ WriteFails \/ DeleteSucceeds \/ WriteSucceeds
  \/ \E d \in Replies : ReadReply(d)
  \/ ReplyConverted
  \/ Count \/ OpenCursor
  \/ \E d \in Rows : NextRow(d) \/ NextRowUnparsed(d)
  \/ ConvertRow \/ ConvertRaises \/ StackOverflows
  \/ StoreRow \/ StoreNoRow \/ StoreRaises \/ EndOfRows

Next == Run \/ Resume \/ \E o \in Writes \cup Reads : \E s \in Arguments : Call(o, s)

Spec == Init /\ [][Next]_vars

(* The database answers, and the thread keeps running. *)
FairSpec == Spec /\ WF_vars(Run)

-------------------------------------------------------------------------------
TypeOK ==
  /\ JsonTypeOK
  /\ pc \in {"idle", "enter", "update", "paging", "made", "reply", "replying",
             "rows", "row", "unparsed", "done", "undefined"}
  /\ op \in Writes \cup Reads \cup {"none"}
  /\ args \in Seq(Slots) /\ IsHeap(given)
  /\ live \subseteq {"query", "update", "cursor", "text"}
  /\ refused \in BOOLEAN /\ failed \in BOOLEAN
  /\ rows \in Seq(Rows)
  /\ results \in Nat /\ lost \in Nat
  /\ returned = Raised \/ returned \in Seq(Slots)

Answered == pc = "done" /\ returned # Raised /\ ~refused

Found == Answered /\ op \in {"find", "aggregate"}

(* "Returns a lua table (indexed array starting from 1) with all documents *)
(* retrieved", README.MD: when every row parses and none holds a null, the *)
(* script gets a new table with the rows in the order of the cursor, each  *)
(* of them whole.                                                          *)
DocumentsFound ==
  Found /\ lost = 0 =>
    /\ returned = <<results>>
    /\ DOMAIN heap[results] = 1..Len(rows)
    /\ \A i \in 1..Len(rows) : Same(heap, made, heap[results][i], rows[i])
    /\ \A n \in (results + 1)..Len(heap) : IsWhole(heap, made, n)

(* Every null in a row, and every row that does not parse, shifts what find *)
(* returns: with one the script gets its own last argument back, with two   *)
(* the one before it.                                                       *)
RowsDisplaced ==
  Found => returned = <<Append(args, results)[Len(args) + 1 - lost]>>

(* A call writes to none of the tables the script had, unless it met a null *)
(* or a row that did not parse.                                             *)
ArgumentsKept ==
  pc # "idle" /\ lost + nulls = 0 =>
    \A n \in DOMAIN given : heap[n] = given[n]

(* A script that gets true for a write knows that the database did it, and *)
(* one that gets false that it did not.                                    *)
WritesReported ==
  Answered /\ op \in Writes => (returned[1] = IF failed THEN False ELSE True)

(* The documents made from the arguments. *)
Documents == IF op = "update" THEN {"query", "update"} ELSE {"query"}

(* What a call leaves allocated for good: nothing when the database did it, *)
(* found less than all or failed to count; its documents when a write       *)
(* failed; the one of update that was accepted when the other was refused;  *)
(* all that a find or aggregate holds when a row raises an error.           *)
LeakLedger ==
  pc = "done" =>
    /\ Answered => live = IF failed /\ op \in Writes THEN Documents ELSE {}
    /\ refused /\ returned # Raised => live \subseteq Documents /\ live # Documents
    /\ returned = Raised /\ rows # <<>> => live = {"query", "cursor", "text"}

(* Every call ends, with values for the script or an error, or in what is   *)
(* undefined.                                                               *)
CallsReturn == pc = "enter" ~> pc \in {"done", "undefined"}

-------------------------------------------------------------------------------
(* The inductive invariant. *)

PcInv ==
  /\ work # <<>> <=> pc \in {"row", "replying"}
  /\ pc # "idle" => args # <<>> /\ op # "none"
  /\ pc \in {"idle", "enter", "update", "paging", "made", "reply", "replying"} =>
       ~failed /\ lost = 0 /\ rows = <<>>
  /\ pc \in {"enter", "update", "paging", "made"} => stack = args
  /\ pc \in {"reply", "replying"} => op \in {"insert", "update"}
  /\ pc \in {"rows", "row", "unparsed"} => op \in {"find", "aggregate"}
  /\ pc \in {"paging"} => op \in {"find", "count"}
  /\ pc = "update" => op = "update"
  /\ pc \notin {"idle", "row", "replying", "done", "undefined"} /\ lost = 0 => nulls = 0

(* What is allocated, by where the call is. *)
LiveInv ==
  /\ pc \in {"idle", "enter"} => live = {} /\ ~refused
  /\ pc \in {"update", "paging"} => live = IF refused THEN {} ELSE {"query"}
  /\ pc = "made" => live \subseteq Documents /\ (refused <=> live # Documents)
  /\ pc \in {"reply", "replying"} => live = {"text"} /\ ~refused
  /\ pc = "rows" => live = {"query", "cursor"} /\ ~refused
  /\ pc \in {"row", "unparsed"} => live = {"query", "cursor", "text"} /\ ~refused
  /\ LeakLedger

ReplyInv ==
  /\ pc = "reply" => stack = Append(args, True)
  /\ pc = "replying" =>
       /\ nulls = 0 /\ base.stack = Append(args, True)
       /\ \A i \in DOMAIN work : work[i].doc \in ReplyJson
  /\ WritesReported

(* Below the row that is converted lie the arguments and the table of rows, *)
(* less the slots lost.                                                     *)
Under == IF pc = "row" THEN base.stack ELSE stack

CursorInv ==
  /\ pc \in {"rows", "row", "unparsed"} =>
       /\ Len(Under) + lost = Len(args) + 1 /\ Len(Under) >= 1
       /\ \A i \in DOMAIN Under : Under[i] = Append(args, results)[i]
       /\ Len(rows) <= MaxRows
  /\ pc \in {"row", "unparsed"} => rows # <<>>
  /\ pc = "row" => work[1].doc = rows[Len(rows)]
  /\ RowsDisplaced

GivenInv ==
  /\ pc # "idle" => Len(given) <= Len(heap)
  /\ pc # "idle" /\ lost = 0 /\ work # <<>> =>
       /\ Len(given) <= Len(base.heap)
       /\ \A n \in DOMAIN given : base.heap[n] = given[n]
  /\ ArgumentsKept

(* The rows stored so far. *)
Stored == IF pc \in {"row", "unparsed"} THEN Len(rows) - 1 ELSE Len(rows)
Before == IF pc = "row" THEN base.heap ELSE heap

RowsInv ==
  (pc \in {"rows", "row", "unparsed"} \/ Found) /\ lost = 0 =>
    /\ results \in DOMAIN Before /\ Len(given) < results
    /\ DOMAIN Before[results] = 1..Stored
    /\ \A i \in 1..Stored : Same(Before, made, Before[results][i], rows[i])
    /\ \A n \in (results + 1)..Len(Before) : made[n] \in Compounds /\ IsWhole(Before, made, n)

IInv ==
  /\ TypeOK
  /\ JsonInv
  /\ PcInv
  /\ LiveInv
  /\ ReplyInv
  /\ CursorInv
  /\ GivenInv
  /\ RowsInv

-------------------------------------------------------------------------------
(* What README.MD says of the operations, and the code does not do.        *)

(* "Returns a lua table (indexed array starting from 1) with all documents *)
(* retrieved in case of success or nil and a string on error", said of      *)
(* find: also when the cursor fails after some rows.                        *)
ErrorsReported ==
  Answered /\ failed /\ rows # <<>> => returned = <<Nil, Message>>

===============================================================================
