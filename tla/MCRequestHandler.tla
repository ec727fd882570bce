--------------------------- MODULE MCRequestHandler ---------------------------
(***************************************************************************)
(* Instances of RequestHandler for TLC.                                    *)
(***************************************************************************)
EXTENDS RequestHandler, TLC

CONSTANTS t1, t2

Symmetry == Permutations(Threads)

Object(n) == [json |-> "object", nulls |-> n, room |-> 1]
DeepObject == [json |-> "object", nulls |-> 0, room |-> 3]
Invalid == [json |-> "invalid", nulls |-> 0, room |-> 0]
Other == [json |-> "other", nulls |-> 0, room |-> 0]

(* A table that is answered has no tables in it. *)
Does(ends, code, arg) ==
  [ends |-> ends, code |-> code, arg |-> arg,
   room |-> IF arg \in {"table", "badKeys"} THEN 2 ELSE 0]

DeepAnswer == [Does("success", 200, "table") EXCEPT !.room = 6]

(* Bodies and scripts that keep to the documentation.  With Slots = 6 the  *)
(* deep body never fits; a flat one fits unless two slots are lost.        *)
BenignBodies == {Object(0), DeepObject, Invalid}

BenignOutcomes ==
  {Does("success", 200, "text"), Does("success", 200, "table"),
   Does("error", 404, "table"), Does("error", 404, "none"),
   Does("value", 200, "text"), Does("raise", 200, "text")}

(* Everything else, next to some that do: nulls, documents that are not    *)
(* objects, codes without a status line, keys and error messages that are  *)
(* not strings, a string returned as it is, a table of the script's own, an *)
(* error without arguments and a deep answer.                              *)
RoughBodies == {Object(0), Object(1), Object(2), Object(3), Invalid, Other}

RoughOutcomes ==
  {Does("success", 200, "badKeys"), DeepAnswer, Does("value", 200, "text"),
   Does("table", 200, "other"), Does("error", 0, "nothing"), Does("error", 429, "text"),
   Does("raise", 200, "other")}

StaleBodies == {Object(0), Object(2), Invalid}
UnlistedText == {Does("error", 429, "text")}

===============================================================================
