-------------------------------- MODULE LuaJson --------------------------------
(***************************************************************************)
(* json_utils: how a JSON document becomes a Lua table.  The conversion    *)
(* works on the Lua stack of its caller: lua_newtable pushes a table,      *)
(* every value is pushed on top of the table it belongs to, and            *)
(* lua_setfield or lua_seti stores the top slot in the table below it and  *)
(* pops it.  pushJsonValue pushes nothing for a null, and the store that   *)
(* follows takes whatever is there.  http_helpers does the same.  A text    *)
(* that does not parse pushes nothing at all: its callers see to that.     *)
(*                                                                         *)
(* A slot of the stack is a scalar or the number of a table; heap[n] is    *)
(* table n, a function on its keys.  The Lua API is external: a store into *)
(* a slot that is no table raises an error.                                *)
(***************************************************************************)
EXTENDS Naturals, Sequences

CONSTANTS
  Keys,        (* keys of tables: names, and the numbers of array members  *)
  Scalars,     (* Lua values that are not tables                           *)
  Null,        (* a null in a document, or another value for which         *)
               (* pushJsonValue has no branch: an unsigned number above    *)
               (* the largest lua_Integer                                  *)
  Json,        (* the values of documents, and all values in them          *)
  MinStack     (* LUA_MINSTACK: the slots a C function has above its       *)
               (* arguments, unless it asks for more, which nothing does   *)

Compounds == Json \ (Scalars \cup {Null})

(* A compound value has a kind and a sequence of members, each a key and a *)
(* value; names may be given twice.                                        *)
ASSUME JsonAssumption ==
  /\ Null \notin Scalars /\ Scalars \cap Nat = {} /\ MinStack \in Nat
  /\ \A v \in Compounds :
       /\ v.members \in Seq(Keys \X Json)
       /\ \/ /\ v.kind = "object"
             /\ \A i \in DOMAIN v.members : v.members[i][1] \notin Nat
          \/ /\ v.kind = "array"
             /\ \A i \in DOMAIN v.members : v.members[i][1] = i

VARIABLES
  stack,       (* the Lua stack of the C function that converts            *)
  heap,        (* the tables made so far                                   *)
  work,        (* the values being converted, outermost first, and how     *)
               (* many members of each are done                            *)
  made,        (* auxiliary: the value a table was made from               *)
  base,        (* auxiliary: stack and heap when the conversion started    *)
  nulls        (* auxiliary: the nulls it met since                        *)

jsonVars == <<stack, heap, work, made, base, nulls>>

-------------------------------------------------------------------------------
NewTable == [k \in {} |-> Null]

With(T, k, v) == [x \in DOMAIN T \cup {k} |-> IF x = k THEN v ELSE T[x]]

Popped(s, n) == SubSeq(s, 1, Len(s) - n)

(* The slot at index -i. *)
Slot(i) == stack[Len(stack) + 1 - i]

Frame == work[Len(work)]

HasMember == work # <<>> /\ Frame.done < Len(Frame.doc.members)

\* Mutant: Key, the first key for every member.
FirstKey == Frame.doc.members[1][1]

Key == Frame.doc.members[Frame.done + 1][1]
Value == Frame.doc.members[Frame.done + 1][2]

Stepped(w) == [w EXCEPT ![Len(w)].done = @ + 1]

CanSet == Len(stack) >= 2 /\ Slot(2) \in DOMAIN heap

\* Mutant: SetTop, leaving the value on the stack.
SetAndKeep(k) ==
  /\ heap' = [heap EXCEPT ![Slot(2)] = With(@, k, Slot(1))]
  /\ stack' = stack

(* lua_setfield(L, -2, k), lua_seti(L, -2, k) *)
SetTop(k) ==
  /\ heap' = [heap EXCEPT ![Slot(2)] = With(@, k, Slot(1))]
  /\ stack' = Popped(stack, 1)

(* lua_newtable, for value v *)
PushTable(v) ==
  /\ heap' = Append(heap, NewTable)
  /\ made' = Append(made, v)
  /\ stack' = Append(stack, Len(heap) + 1)

-------------------------------------------------------------------------------
(* jsonToLuaTable of a document that parses: deserializeObject, at the top. *)
Begin(doc) ==
  /\ work = <<>>
  /\ PushTable(doc)
  /\ work' = <<[doc |-> doc, done |-> 0]>>
  /\ base' = [stack |-> stack, heap |-> heap]
  /\ nulls' = 0

\* Mutant: PushScalar, without ++it.
PushScalarAgain ==
  /\ HasMember /\ Value \in Scalars
  /\ Slot(1) \in DOMAIN heap
  /\ heap' = [heap EXCEPT ![Slot(1)] = With(@, Key, Value)]
  /\ UNCHANGED <<stack, work, made, base, nulls>>

(* A scalar is pushed, and stored in the table below it. *)
PushScalar ==
  /\ HasMember /\ Value \in Scalars
  /\ Slot(1) \in DOMAIN heap
  /\ heap' = [heap EXCEPT ![Slot(1)] = With(@, Key, Value)]
  /\ work' = Stepped(work)
  /\ UNCHANGED <<stack, made, base, nulls>>

(* Nothing is pushed, and the table itself is stored in the slot below. *)
PushNull ==
  /\ HasMember /\ Value = Null
  /\ CanSet
  /\ SetTop(Key)
  /\ work' = Stepped(work)
  /\ nulls' = nulls + 1
  /\ UNCHANGED <<made, base>>

Open ==
  /\ HasMember /\ Value \notin Scalars \cup {Null}
  /\ PushTable(Value)
  /\ work' = Append(work, [doc |-> Value, done |-> 0])
  /\ UNCHANGED <<base, nulls>>

(* The end of an object or array within another: it is stored there. *)
Close ==
  /\ Len(work) > 1 /\ ~HasMember
  /\ CanSet
  /\ LET outer == Popped(work, 1)
         parent == outer[Len(outer)]
     IN  /\ SetTop(parent.doc.members[parent.done + 1][1])
         /\ work' = Stepped(outer)
  /\ UNCHANGED <<made, base, nulls>>

Convert == PushScalar \/ PushNull \/ Open \/ Close

Converted == Len(work) = 1 /\ ~HasMember

(* The next store raises an error. *)
ConversionRaises ==
  \/ HasMember /\ Value \in Scalars /\ Slot(1) \notin DOMAIN heap
  \/ HasMember /\ Value = Null /\ ~CanSet
  \/ Len(work) > 1 /\ ~HasMember /\ ~CanSet

-------------------------------------------------------------------------------
(* luaTableToJson *)

\* Mutant: IsTableArray, taking an empty table for an array as the function
\* of http_helpers does.
IsTableArrayOrEmpty(T) == 1 \in DOMAIN T \/ DOMAIN T = {}

IsTableArray(T) == 1 \in DOMAIN T

(* serializeTable raises an error for a key that is no string, outside      *)
(* arrays: luaL_checkstring refuses it, or turns a number into a string in *)
(* place, and then lua_next does not find it.                              *)
BadKeys(n) == ~IsTableArray(heap[n]) /\ DOMAIN heap[n] \cap Nat # {}

TablesIn(n) == {heap[n][k] : k \in DOMAIN heap[n]} \cap DOMAIN heap

(* The tables i levels below table v.  A table can be below itself: a null *)
(* can store a table of the script in itself.                              *)
Below(v) ==
  LET level[i \in Nat] == IF i = 0 THEN {v} ELSE UNION {TablesIn(n) : n \in level[i - 1]}
  IN  level

MeetsBadKeys(v) == \E i \in 0..Len(heap) : \E n \in Below(v)[i] : BadKeys(n)

(* The walk through v ends. *)
IsFinite(v) == Below(v)[Len(heap)] = {}

(* serializeTable keeps two slots for every level it is in. *)
TooDeep(v) == Below(v)[MinStack \div 2] # {}

-------------------------------------------------------------------------------
Slots == Scalars \cup Nat

IsHeap(h) ==
  /\ h \in Seq({h[n] : n \in DOMAIN h})
  /\ \A n \in DOMAIN h : DOMAIN h[n] \subseteq Keys /\ h[n] \in [DOMAIN h[n] -> Slots]

FrameType == [doc : Compounds, done : Nat]

JsonTypeOK ==
  /\ stack \in Seq(Slots)
  /\ IsHeap(heap)
  /\ made \in Seq(Json \cup {Null}) /\ Len(made) = Len(heap)
  /\ work \in Seq(FrameType)
  /\ base.stack \in Seq(Slots) /\ IsHeap(base.heap)
  /\ nulls \in Nat
  /\ \A i \in DOMAIN work : work[i].done <= Len(work[i].doc.members)

(* What a conversion does to the stack below it: one slot is lost for every *)
(* null, from the top, the converted table first; the slots below these are *)
(* as they were.                                                            *)
StackEffect ==
  work # <<>> =>
    /\ Len(stack) + nulls = Len(base.stack) + Len(work)
    /\ \A i \in DOMAIN base.stack :
         i + nulls <= Len(base.stack) + 1 => stack[i] = base.stack[i]

(* Without nulls it writes to no table but its own. *)
OthersKept ==
  work # <<>> /\ nulls = 0 =>
    \A n \in DOMAIN base.heap : heap[n] = base.heap[n]

(* Table n of h holds the first m members of the value it was made from; *)
(* of members with equal keys, the last.                                  *)
Same(h, md, x, v) == IF v \in Scalars THEN x = v ELSE x \in DOMAIN h /\ md[x] = v

Last(ms, m, i) == \A j \in (i+1)..m : ms[j][1] # ms[i][1]

Holds(h, md, n, m) ==
  LET ms == md[n].members
  IN  /\ DOMAIN h[n] = {ms[i][1] : i \in 1..m}
      /\ \A i \in 1..m : Last(ms, m, i) => Same(h, md, h[n][ms[i][1]], ms[i][2])

IsWhole(h, md, n) == Holds(h, md, n, Len(md[n].members))

(* The table that frame i fills. *)
Filled(i) == stack[Len(base.stack) + i]

New == (Len(base.heap) + 1)..Len(heap)

(* Without nulls, every table being filled holds the members done, and     *)
(* every other table made is the whole of its value, however deep it lies. *)
Faithful ==
  work # <<>> /\ nulls = 0 =>
    /\ \A i \in DOMAIN work : Holds(heap, made, Filled(i), work[i].done)
    /\ \A n \in New : IsWhole(heap, made, n) \/ \E i \in DOMAIN work : n = Filled(i)

(* A table written back as JSON is of the kind it was read as, but for     *)
(* empty arrays, which come back as objects.                               *)
KindsKept ==
  Converted /\ nulls = 0 =>
    \A n \in New :
      IsTableArray(heap[n]) <=> made[n].kind = "array" /\ made[n].members # <<>>

(* The value of a frame is the next member of the frame below it; without *)
(* nulls the tables being filled are on the stack, in that order.         *)
FramesInv ==
  /\ \A i \in 1..(Len(work) - 1) :
       /\ work[i].done < Len(work[i].doc.members)
       /\ work[i].doc.members[work[i].done + 1][2] = work[i+1].doc
  /\ work # <<>> /\ nulls = 0 =>
       /\ \A i \in DOMAIN work : Filled(i) \in New /\ made[Filled(i)] = work[i].doc
       /\ \A n \in New : made[n] \in Compounds
       /\ \A i, j \in DOMAIN work : i # j => Filled(i) # Filled(j)

(* The inductive invariant of a conversion. *)
JsonInv ==
  /\ JsonTypeOK
  /\ work # <<>> => Len(base.heap) <= Len(heap)
  /\ StackEffect
  /\ OthersKept
  /\ FramesInv
  /\ Faithful

===============================================================================
