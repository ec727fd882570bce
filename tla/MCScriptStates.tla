---------------------------- MODULE MCScriptStates ----------------------------
(* Small service maps for ScriptStates. *)
EXTENDS ScriptStates

(* The sample service map in small, one service with two methods and an *)
(* Origins table that has no script; and two names that are no methods  *)
(* the server knows and stand for GET: one shares the key of the GET    *)
(* entry, the other, with its own folder, only the route.               *)
SampleEntries ==
  { [service |-> <<"/a">>, name |-> "GET",     script |-> <<"x">>],
    [service |-> <<"/a">>, name |-> "PATCH",   script |-> <<"x">>],
    [service |-> <<"/a">>, name |-> "POST",    script |-> <<"x">>],
    [service |-> <<"/a">>, name |-> "TRACE",   script |-> <<"y">>],
    [service |-> <<"/a">>, name |-> "Origins", script |-> NoScript] }

(* Two services whose regex and folder, written one after the other, give *)
(* the same string.                                                       *)
CollidingEntries ==
  { [service |-> <<"/a">>,      name |-> "GET", script |-> <<"b", "c">>],
    [service |-> <<"/a", "b">>, name |-> "GET", script |-> <<"c">>] }

===============================================================================
