--------------------------- MODULE MCMongoOperations ---------------------------
(***************************************************************************)
(* Instances of MongoOperations for TLC.                                   *)
(***************************************************************************)
EXTENDS MongoOperations, TLC

CONSTANTS a, b, s

Object(ms) == [kind |-> "object", members |-> ms]
Array(vs) == [kind |-> "array", members |-> [i \in 1..Len(vs) |-> <<i, vs[i]>>]]

MCKeys == {a, b} \cup 1..2
MCScalars == {s, Coll, True, False, Nil, Message, Number, MinusOne, Text}

(* Rows with a nested and with an empty array, with an empty object and a   *)
(* name given twice, one that is too deep for MinStack = 4, and with nulls  *)
(* at the end, before the end, nested, and twice.                           *)
NullRows ==
  {Object(<<<<a, s>>, <<b, Null>>>>),
   Object(<<<<a, Object(<<<<b, Null>>>>)>>, <<b, s>>>>),
   Object(<<<<a, Null>>, <<b, Array(<<Null>>)>>>>)}

(* The double of this row is a NaN. *)
MCUnparsed == {Object(<<<<b, Number>>>>)}

MCRows ==
  NullRows \cup MCUnparsed \cup
  {Object(<<<<a, Array(<<s, Text>>)>>, <<b, Array(<<>>)>>>>),
   Object(<<<<a, Object(<<>>)>>, <<b, s>>, <<b, Text>>>>),
   Object(<<<<a, Object(<<<<a, Object(<<<<a, s>>>>)>>>>)>>>>)}

MCReplies == {Object(<<<<a, Number>>, <<b, Array(<<>>)>>>>)}

RECURSIVE Parts(_)
Parts(v) ==
  IF v \in MCScalars \cup {Null} THEN {v}
  ELSE {v} \cup UNION {Parts(v.members[i][2]) : i \in DOMAIN v.members}

MCReplyJson == UNION {Parts(v) : v \in MCReplies}
MCJson == UNION {Parts(v) : v \in MCRows \cup MCReplies}

(* A query, one with a key that is a number, and one within another. *)
MCScriptTables == <<(a :> s), (2 :> s), (a :> 1)>>

===============================================================================
