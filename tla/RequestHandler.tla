---------------------------- MODULE RequestHandler ----------------------------
(***************************************************************************)
(* The handler registerMethod builds for a service entry: what it pushes   *)
(* on the Lua stack, the protected call of onRequest, and the answer it    *)
(* writes.  A thread keeps its lua_State between requests (ScriptStates),  *)
(* so what a handler leaves on the stack is still there at the next one.   *)
(*                                                                         *)
(* The Lua C API is external: a stack is the sequence of the kinds of its  *)
(* slots, bottom first, and an error raised outside lua_pcall is a panic,  *)
(* which aborts the process.  Nothing calls lua_checkstack: to push more   *)
(* than the slots Lua guarantees is undefined, also if it goes well while  *)
(* the stack happens to be larger.  A null stands for every value that     *)
(* pushJsonValue pushes nothing for; that it takes exactly one slot away   *)
(* is what StackEffect of LuaJson says of the conversion in detail.        *)
(***************************************************************************)
EXTENDS Integers, Sequences, FiniteSets

CONSTANTS
  Threads,     (* server threads, each with its own state of the script    *)
  Bodies,      (* request bodies: how they parse as JSON, how many nulls   *)
               (* they hold, and the slots that converting them needs at   *)
               (* most above the table: one for a member, one for a level  *)
  Outcomes,    (* what onRequest may do: how it ends, with which           *)
               (* arguments, and the slots that luaTableToJson needs above *)
               (* the content: two for a level                             *)
  Slots,       (* the slots Lua guarantees: LUA_MINSTACK                   *)
  MaxStack     (* bound: no request is dispatched on a higher stack        *)

Media == {"TEXT_PLAIN", "JSON", "NONE"}

BodyType == [json : {"object", "other", "invalid"}, nulls : Nat, room : Nat]

(* onRequest ends in Helix.success or Helix.error, returns a table of its  *)
(* own or something else, or raises an error.  For arg = "nothing", it     *)
(* calls Helix.error without arguments.                                    *)
OutcomeType ==
  [ends : {"success", "error", "table", "value", "raise"},
   code : Nat,
   arg  : {"none", "text", "table", "badKeys", "other", "nothing"},
   room : Nat]

ASSUME InputAssumption ==
  /\ Bodies \subseteq BodyType
  /\ Outcomes \subseteq OutcomeType
  /\ MaxStack \in Nat /\ Slots \in Nat
  /\ \A b \in Bodies : b.json # "object" => b.nulls = 0 /\ b.room = 0
  /\ \A o \in Outcomes :
       /\ o.ends = "raise" => o.arg \in {"text", "other"}
       /\ o.arg = "nothing" => o.ends = "error"

\* Mutant: Described, without the status of a rejected body.
DescribedWithout422 ==
  {100, 101} \cup 200..207 \cup 300..308 \cup 400..418
    \cup {426, 449, 451} \cup 500..505 \cup {509}

(* The keys errorCodeToDescription is initialised with. *)
Described ==
  {100, 101} \cup 200..207 \cup 300..308 \cup 400..418
    \cup {422, 426, 449, 451} \cup 500..505 \cup {509}

(* What an answer has for its content: a text, the code of an error in the  *)
(* place of its text, the page of HTML, a document, or nothing.             *)
Contents == {"text", "code", "html", "json", "empty"}

EmptyLine == 0      (* a status line with no code in it *)

VARIABLES
  phase,       (* "running", "aborted", or "undefined": the code has done  *)
               (* something the Lua or rapidjson API gives no meaning      *)
  known,       (* the keys of the static errorCodeToDescription            *)
  service,     (* consumes and produces of the entry                       *)
  stack,       (* the Lua stack of each thread's state                     *)
  pc,          (* where each thread is in the handler                      *)
  request,     (* the body of the request it handles                       *)
  outcome,     (* what onRequest did, once it was called                   *)
  answer,      (* the answer chosen, and how many slots lua_pop takes then *)
  written,     (* the responses written for the request                    *)
  height       (* auxiliary: the height of the stack when it was dispatched *)

threadVars == <<stack, pc, request, outcome, answer, written, height>>
vars == <<phase, known, service, threadVars>>

NoBody == [json |-> "none", nulls |-> 0, room |-> 0]
NoOutcome == [ends |-> "none", code |-> 0, arg |-> "none", room |-> 0]
NoAnswer == [status |-> 0, content |-> "none", pop |-> 0]

Init ==
  /\ phase = "running"
  /\ known = Described
  /\ service \in [consumes : Media, produces : Media]
  /\ stack = [t \in Threads |-> <<>>]
  /\ pc = [t \in Threads |-> "idle"]
  /\ request = [t \in Threads |-> NoBody]
  /\ outcome = [t \in Threads |-> NoOutcome]
  /\ answer = [t \in Threads |-> NoAnswer]
  /\ written = [t \in Threads |-> <<>>]
  /\ height = [t \in Threads |-> 0]

-------------------------------------------------------------------------------
(* Helpers. *)

At(t, label) == phase = "running" /\ pc[t] = label

Goto(t, label) == pc' = [pc EXCEPT ![t] = label]

Leave(how) ==
  /\ phase' = how
  /\ UNCHANGED <<known, service, threadVars>>

(* lua_pop(L, n) *)
Popped(s, n) == SubSeq(s, 1, Len(s) - n)

(* What a later request can tell about a slot an earlier one left behind: *)
(* the function is the same function, everything else is stale.           *)
Stale(s) == [i \in DOMAIN s |-> IF s[i] = "onRequest" THEN s[i] ELSE "stale"]

(* Helix_success and Helix_error, as far as the answer depends on them. *)
HelixSuccess(arg) ==
  [code |-> 200, content |-> IF arg \in {"text", "table", "badKeys"} THEN arg ELSE "nil"]

\* Mutant: HelixError, with a fixed code.
HelixErrorLosesCode(code, arg) ==
  [code    |-> 500,
   content |-> IF arg = "text" THEN "code"
               ELSE IF arg \in {"table", "badKeys"} THEN arg ELSE "nil"]

(* Without arguments the content is a page of HTML. *)
HelixError(code, arg) ==
  [code    |-> IF arg = "nothing" THEN 500 ELSE code,
   content |-> CASE arg = "nothing"              -> "html"
                 [] arg = "text"                 -> "code"
                 [] arg \in {"table", "badKeys"} -> arg
                 [] OTHER                        -> "nil"]

(* The errorCode and the content of the table onRequest returned.  A table *)
(* of the script's own carries what the script put there.                  *)
Result(o) ==
  CASE o.ends = "success" -> HelixSuccess(o.arg)
    [] o.ends = "error"   -> HelixError(o.code, o.arg)
    [] o.ends = "table"   -> [code    |-> o.code,
                              content |-> IF o.arg = "none" THEN "nil" ELSE o.arg]

IsString(content) == content \in {"text", "code", "html"}
IsTable(content) == content \in {"table", "badKeys"}

Answer(t, status, content, pop) ==
  /\ answer' = [answer EXCEPT ![t] = [status |-> status, content |-> content, pop |-> pop]]
  /\ Goto(t, "answer")

GenericError(t, pop) == Answer(t, 500, "empty", pop)

-------------------------------------------------------------------------------
(* Building the call. *)

\* Mutant: Dispatch, without the regex matches.
DispatchWithoutMatches(t, b) ==
  /\ At(t, "idle")
  /\ Len(stack[t]) <= MaxStack
  /\ request' = [request EXCEPT ![t] = b]
  /\ height' = [height EXCEPT ![t] = Len(stack[t])]
  /\ stack' = [stack EXCEPT ![t] = @ \o <<"onRequest", "headers">>]
  /\ Goto(t, "body")
  /\ UNCHANGED <<phase, known, service, outcome, answer, written>>

(* onRequest, the headers and the regex matches go on the stack. *)
Dispatch(t, b) ==
  /\ At(t, "idle")
  /\ Len(stack[t]) <= MaxStack
  /\ request' = [request EXCEPT ![t] = b]
  /\ height' = [height EXCEPT ![t] = Len(stack[t])]
  /\ stack' = [stack EXCEPT ![t] = @ \o <<"onRequest", "headers", "matches">>]
  /\ Goto(t, "body")
  /\ UNCHANGED <<phase, known, service, outcome, answer, written>>

PushPlain(t) ==
  /\ At(t, "body")
  /\ service.consumes # "JSON"
  /\ stack' = [stack EXCEPT ![t] =
                 Append(@, IF service.consumes = "TEXT_PLAIN" THEN "text" ELSE "nil")]
  /\ Goto(t, "call")
  /\ UNCHANGED <<phase, known, service, request, outcome, answer, written, height>>

(* jsonToLuaTable of an object.  lua_setfield pops one slot for every       *)
(* member, also when pushJsonValue pushed nothing for it: then it stores    *)
(* the table on top into the table below and pops that.  The first null     *)
(* costs the body, the second the matches.                                  *)
PushJson(t) ==
  /\ At(t, "body")
  /\ service.consumes = "JSON" /\ request[t].json = "object"
  /\ request[t].nulls <= 2
  /\ stack' = [stack EXCEPT ![t] = Popped(Append(@, "body"), request[t].nulls)]
  /\ Goto(t, "call")
  /\ UNCHANGED <<phase, known, service, request, outcome, answer, written, height>>

(* The third null stores a field into the function onRequest, an error     *)
(* that nothing catches.                                                   *)
PushJsonPanics(t) ==
  /\ At(t, "body")
  /\ service.consumes = "JSON" /\ request[t].json = "object"
  /\ request[t].nulls > 2
  /\ Leave("aborted")

(* What the handler pushes next, beyond the slots it has: in "body" also    *)
(* the value of a header or a match, in "call" the message handler, in      *)
(* "returned" a field, and what luaTableToJson walks the content with.      *)
Needs(t) ==
  1 + CASE pc[t] = "body" /\ service.consumes = "JSON"     -> request[t].room
        [] pc[t] = "returned" /\ service.produces = "JSON" -> outcome[t].room
        [] OTHER                                           -> 0

(* No step asks for room.  Beyond the slots Lua guarantees the handler may  *)
(* still get on with the step, or write past the stack.                     *)
Overflow(t) ==
  /\ phase = "running" /\ pc[t] \in {"body", "call", "returned"}
  /\ Len(stack[t]) + Needs(t) > Slots
  /\ Leave("undefined")

(* The document is an array or a scalar; its members are read all the same. *)
PushJsonUndefined(t) ==
  /\ At(t, "body")
  /\ service.consumes = "JSON" /\ request[t].json = "other"
  /\ Leave("undefined")

\* Mutant: RejectBody, without the early return.
RejectAndCall(t) ==
  /\ At(t, "body")
  /\ service.consumes = "JSON" /\ request[t].json = "invalid"
  /\ written' = [written EXCEPT ![t] = Append(@, [status |-> 422, content |-> "text"])]
  /\ Goto(t, "call")
  /\ UNCHANGED <<phase, known, service, stack, request, outcome, answer, height>>

\* Mutant: RejectBody, without its lua_pop.
RejectWithoutPop(t) ==
  /\ At(t, "body")
  /\ service.consumes = "JSON" /\ request[t].json = "invalid"
  /\ Answer(t, 422, "text", 0)
  /\ UNCHANGED <<phase, known, service, stack, request, outcome, written, height>>

(* The body does not parse: 422, and one of the three slots is popped. *)
RejectBody(t) ==
  /\ At(t, "body")
  /\ service.consumes = "JSON" /\ request[t].json = "invalid"
  /\ Answer(t, 422, "text", 1)
  /\ UNCHANGED <<phase, known, service, stack, request, outcome, written, height>>

-------------------------------------------------------------------------------
(* lua_mypcall(L, 3, 1): the function is the fourth slot from the top. *)

Callee(t) == Len(stack[t]) - 3

CallReturns(t, o) ==
  /\ At(t, "call") /\ Callee(t) >= 1
  /\ stack[t][Callee(t)] = "onRequest"
  /\ o.ends # "raise"
  /\ stack' = [stack EXCEPT ![t] = Append(Popped(@, 4), "result")]
  /\ outcome' = [outcome EXCEPT ![t] = o]
  /\ Goto(t, "returned")
  /\ UNCHANGED <<phase, known, service, request, answer, written, height>>

(* traceback keeps an error message that is not a string as it is. *)
CallRaises(t, o) ==
  /\ At(t, "call") /\ Callee(t) >= 1
  /\ stack[t][Callee(t)] = "onRequest"
  /\ o.ends = "raise"
  /\ stack' = [stack EXCEPT ![t] = Append(Popped(@, 4), "message")]
  /\ outcome' = [outcome EXCEPT ![t] = o]
  /\ GenericError(t, 1)
  /\ UNCHANGED <<phase, known, service, request, written, height>>

(* A slot left by an earlier request is called, and it is not a function. *)
CallNoFunction(t) ==
  /\ At(t, "call") /\ Callee(t) >= 1
  /\ stack[t][Callee(t)] # "onRequest"
  /\ stack' = [stack EXCEPT ![t] = Append(Popped(@, 4), "message")]
  /\ outcome' = [outcome EXCEPT ![t] = [ends |-> "raise", code |-> 0, arg |-> "text",
                                           room |-> 0]]
  /\ GenericError(t, 1)
  /\ UNCHANGED <<phase, known, service, request, written, height>>

(* hpos is not the index of a slot. *)
CallUndefined(t) ==
  /\ At(t, "call") /\ Callee(t) < 1
  /\ Leave("undefined")

-------------------------------------------------------------------------------
(* Choosing the answer to the value onRequest returned. *)

Returned(t) == At(t, "returned")

Field(t) == Result(outcome[t])

\* Mutant: RefuseValue, without an answer.
RefuseSilently(t) ==
  /\ Returned(t) /\ outcome[t].ends = "value"
  /\ Goto(t, "finish")
  /\ UNCHANGED <<phase, known, service, stack, request, outcome, answer, written, height>>

RefuseValue(t) ==
  /\ Returned(t) /\ outcome[t].ends = "value"
  /\ GenericError(t, 1)
  /\ UNCHANGED <<phase, known, service, stack, request, outcome, written, height>>

\* Mutant: SendText, popping the content again at the end.
SendTextPopsTwice(t) ==
  /\ Returned(t) /\ outcome[t].ends # "value"
  /\ IsString(Field(t).content) /\ service.produces = "TEXT_PLAIN"
  /\ Answer(t, Field(t).code, Field(t).content, 2)
  /\ UNCHANGED <<phase, known, service, stack, request, outcome, written, height>>

(* The only branch that pops the content before it answers. *)
SendText(t) ==
  /\ Returned(t) /\ outcome[t].ends # "value"
  /\ IsString(Field(t).content) /\ service.produces = "TEXT_PLAIN"
  /\ Answer(t, Field(t).code, Field(t).content, 1)
  /\ UNCHANGED <<phase, known, service, stack, request, outcome, written, height>>

(* luaTableToJson raises an error nothing catches for a key that is not a  *)
(* string, outside arrays: luaL_checkstring refuses it, or turns a number  *)
(* into a string in place, which lua_next then does not find.              *)
SendJson(t) ==
  /\ Returned(t) /\ outcome[t].ends # "value"
  /\ IsTable(Field(t).content) /\ service.produces = "JSON"
  /\ IF Field(t).content = "badKeys"
     THEN Leave("aborted")
     ELSE /\ stack' = [stack EXCEPT ![t] = Append(@, "content")]
          /\ Answer(t, Field(t).code, "json", 1)
          /\ UNCHANGED <<phase, known, service, request, outcome, written, height>>

SendEmpty(t) ==
  /\ Returned(t) /\ outcome[t].ends # "value"
  /\ Field(t).content = "nil"
  /\ stack' = [stack EXCEPT ![t] = Append(@, "nil")]
  /\ Answer(t, Field(t).code, "empty", 1)
  /\ UNCHANGED <<phase, known, service, request, outcome, written, height>>

RefuseContent(t) ==
  /\ Returned(t) /\ outcome[t].ends # "value"
  /\ LET c == Field(t).content
     IN  /\ c # "nil"
         /\ ~(IsString(c) /\ service.produces = "TEXT_PLAIN")
         /\ ~(IsTable(c) /\ service.produces = "JSON")
  /\ stack' = [stack EXCEPT ![t] = Append(@, "content")]
  /\ GenericError(t, 1)
  /\ UNCHANGED <<phase, known, service, request, outcome, written, height>>

-------------------------------------------------------------------------------
(* Writing the answer.  errorCodeToDescription[code] is not atomic and no  *)
(* mutex protects it; it inserts an empty description for a missing code.  *)

StatusLine(code) == IF code \in Described THEN code ELSE EmptyLine

LookupStatus(t) ==
  /\ At(t, "answer")
  /\ Goto(t, "status")
  /\ UNCHANGED <<phase, known, service, stack, request, outcome, answer, written, height>>

WriteAnswer(t) ==
  /\ At(t, "status")
  /\ LET a == answer[t]
     IN  /\ known' = known \cup {a.status}
         /\ written' = [written EXCEPT ![t] =
                          Append(@, [status |-> StatusLine(a.status), content |-> a.content])]
  /\ Goto(t, "finish")
  /\ UNCHANGED <<phase, service, stack, request, outcome, answer, height>>

(* The error is printed with luaL_checkstring, outside any protected call. *)
ReportPanics(t) ==
  /\ At(t, "finish")
  /\ outcome[t].ends = "raise" /\ outcome[t].arg = "other"
  /\ Leave("aborted")

(* Two threads are in the lookup and one of them inserts: a data race. *)
LookupRace(t) ==
  /\ At(t, "status") /\ answer[t].status \notin known
  /\ \E u \in Threads \ {t} : pc[u] = "status"
  /\ Leave("undefined")

(* The last lua_pop; the locals of the handler go out of scope, and so does *)
(* the response object, which sends what was written to it.                 *)
Finish(t) ==
  /\ At(t, "finish")
  /\ ~(outcome[t].ends = "raise" /\ outcome[t].arg = "other")
  /\ stack' = [stack EXCEPT ![t] = Stale(Popped(@, answer[t].pop))]
  /\ request' = [request EXCEPT ![t] = NoBody]
  /\ outcome' = [outcome EXCEPT ![t] = NoOutcome]
  /\ answer' = [answer EXCEPT ![t] = NoAnswer]
  /\ written' = [written EXCEPT ![t] = <<>>]
  /\ height' = [height EXCEPT ![t] = 0]
  /\ Goto(t, "idle")
  /\ UNCHANGED <<phase, known, service>>

-------------------------------------------------------------------------------
Handler(t) ==
  \/ PushPlain(t) \/ PushJson(t) \/ PushJsonPanics(t) \/ PushJsonUndefined(t)
  \/ RejectBody(t) \/ Overflow(t)
  \/ \E o \in Outcomes : CallReturns(t, o) \/ CallRaises(t, o)
  \/ CallNoFunction(t) \/ CallUndefined(t)
  \/ RefuseValue(t) \/ SendText(t) \/ SendJson(t) \/ SendEmpty(t) \/ RefuseContent(t)
  \/ LookupStatus(t) \/ WriteAnswer(t) \/ LookupRace(t) \/ ReportPanics(t) \/ Finish(t)

Next == \E t \in Threads : Handler(t) \/ \E b \in Bodies : Dispatch(t, b)

Spec == Init /\ [][Next]_vars

(* A server thread keeps running, and a script is assumed to return. *)
FairSpec == Spec /\ \A t \in Threads : WF_vars(Handler(t))

-------------------------------------------------------------------------------
Kinds == {"onRequest", "headers", "matches", "body", "text", "nil",
          "result", "content", "message", "stale"}

TypeOK ==
  /\ phase \in {"running", "aborted", "undefined"}
  /\ Described \subseteq known /\ known \subseteq Nat
  /\ service \in [consumes : Media, produces : Media]
  /\ stack \in [Threads -> Seq(Kinds)]
  /\ pc \in [Threads -> {"idle", "body", "call", "returned", "answer", "status", "finish"}]
  /\ request \in [Threads -> BodyType \cup {NoBody}]
  /\ outcome \in [Threads -> OutcomeType \cup {NoOutcome}]
  /\ answer \in [Threads -> [status : Nat, content : Contents \cup {"none"},
                             pop : {0, 1}]]
  /\ written \in [Threads -> Seq([status : Nat, content : Contents])]
  /\ height \in [Threads -> Nat]

(* Every branch of the handler writes exactly one response, and none goes  *)
(* on after it has written: two would run together in one stream buffer.   *)
OneResponse ==
  \A t \in Threads :
    /\ pc[t] \in {"body", "call", "returned", "answer", "status"} => written[t] = <<>>
    /\ pc[t] = "finish" => Len(written[t]) = 1

(* What the handler means to push, and the slots the nulls of the body     *)
(* take away from it.                                                      *)
Pushed ==
  <<"onRequest", "headers", "matches",
    CASE service.consumes = "JSON"       -> "body"
      [] service.consumes = "TEXT_PLAIN" -> "text"
      [] service.consumes = "NONE"       -> "nil">>

Lost(t) == IF service.consumes = "JSON" THEN request[t].nulls ELSE 0

(* Whatever earlier requests left on the stack, lua_mypcall finds onRequest *)
(* and the three arguments of this request, unless the body holds a null.   *)
CallsOnRequest ==
  \A t \in Threads :
    pc[t] = "call" /\ Lost(t) = 0 =>
      /\ Callee(t) >= 1
      /\ \A i \in 1..4 : stack[t][Callee(t) + i - 1] = Pushed[i]

(* Slots the handler never pops, by the way it answered. *)
Left(t) ==
  LET o == outcome[t]
      balanced == \/ o.ends \in {"raise", "value"}
                  \/ IsString(Result(o).content) /\ service.produces = "TEXT_PLAIN"
  IN  IF o = NoOutcome THEN 2 ELSE IF balanced THEN 0 ELSE 1

(* The stack is only balanced for text and for errors: a rejected body     *)
(* leaves two slots for good, every other answer one, and every null of a  *)
(* body takes one away.                                                    *)
StackLedger ==
  \A t \in Threads :
    pc[t] = "finish" =>
      Len(stack[t]) - answer[t].pop = height[t] + Left(t) - Lost(t)

(* The request t handles is one the code has no answer for: a null or a     *)
(* document that is no object where JSON is consumed, a key or an error     *)
(* message that is not a string, or a code without a status line.           *)
BreaksContract(t) ==
  LET o == outcome[t]
  IN  \/ Lost(t) > 0
      \/ service.consumes = "JSON" /\ request[t].json = "other"
      \/ o.arg = "badKeys"
      \/ o.ends = "raise" /\ o.arg = "other"
      \/ o.ends \in {"error", "table"} /\ Result(o).code \notin Described

(* The request t handles needs more slots than Lua guarantees: four for the *)
(* call and one for the message handler, those of its body, and those of    *)
(* its answer, on top of what earlier requests left.                        *)
Outgrows(t) ==
  /\ request[t] # NoBody
  /\ \/ height[t] + 5 > Slots
     \/ service.consumes = "JSON" /\ height[t] + 4 + request[t].room > Slots
     \/ service.produces = "JSON" /\ height[t] + 2 + outcome[t].room > Slots

Risky(t) == BreaksContract(t) \/ Outgrows(t)

(* When the process aborts or its behaviour is undefined, a request in      *)
(* flight breaks the contract or does not find the room it needs.  Requests *)
(* that are over harm one that keeps the contract in no other way than by   *)
(* the slots they left: StackLedger says how many.                          *)
ServerSurvives ==
  phase # "running" => \E t \in Threads : Risky(t)

(* onRequest answered with Helix.success or Helix.error, a listed code and *)
(* the content the produces setting asks for.  The text of an error is     *)
(* left out: see ErrorArrives.                                             *)
Promised(o) == [status  |-> IF o.ends = "success" THEN 200 ELSE o.code,
                content |-> IF o.arg = "table" THEN "json"
                           ELSE IF o.arg = "text" THEN "text" ELSE "empty"]

KeepsContract(o) ==
  /\ o.ends \in {"success", "error"} /\ Promised(o).status \in Described
  /\ \/ o.arg = "table" /\ service.produces = "JSON"
     \/ o.arg = "text" /\ service.produces = "TEXT_PLAIN" /\ o.ends = "success"
     \/ o.arg = "none"

(* Such an answer goes out as it is, with its own status line, whatever    *)
(* the requests before it and on the other threads did.                    *)
ContractKept ==
  \A t \in Threads :
    pc[t] = "finish" /\ KeepsContract(outcome[t]) => written[t][1] = Promised(outcome[t])

(* Every request dispatched is answered, unless the process is gone. *)
Answered ==
  \A t \in Threads :
    pc[t] = "body" ~> written[t] # <<>> \/ phase # "running"

-------------------------------------------------------------------------------
(* The abstract service: what is due depends on the service entry, on the  *)
(* request and on what onRequest did with it, and on nothing else.         *)

Rejected(t) == service.consumes = "JSON" /\ request[t].json = "invalid"

Due(t) ==
  LET r == Result(outcome[t])
      Sends(content) == [status |-> StatusLine(r.code), content |-> content]
  IN  CASE Rejected(t) -> [status |-> 422, content |-> "text"]
        [] ~Rejected(t) /\ outcome[t].ends \in {"success", "error", "table"} ->
             (CASE IsString(r.content) /\ service.produces = "TEXT_PLAIN" -> Sends(r.content)
                [] IsTable(r.content) /\ service.produces = "JSON"        -> Sends("json")
                [] r.content = "nil"                                      -> Sends("empty")
                [] OTHER -> [status |-> 500, content |-> "empty"])
        [] OTHER -> [status |-> 500, content |-> "empty"]

Answers ==
  [status : Described \cup {EmptyLine}, content : Contents]

NoReply == [status |-> EmptyLine, content |-> "none"]

openBar == {t \in Threads : request[t] # NoBody}
riskyBar == {t \in Threads : Risky(t)}
dueBar ==
  [t \in Threads |->
     IF Rejected(t) \/ outcome[t] # NoOutcome THEN Due(t) ELSE NoReply]

SR == INSTANCE ServiceReplies
        WITH None <- NoReply, up <- phase = "running", open <- openBar,
             risky <- riskyBar, due <- dueBar, sent <- written

(* Every request gets one answer, which depends on nothing but the request *)
(* itself and what onRequest did with it, whatever earlier requests left   *)
(* on the stack and other threads do to the map of status lines; and the   *)
(* process stops only with a request in flight that breaks the contract or *)
(* needs more slots than are left.                                         *)
SRSpec == SR!Spec

-------------------------------------------------------------------------------
(* The inductive invariant: what holds of a thread at each label. *)

IdleInv(t) ==
  pc[t] = "idle" =>
    /\ request[t] = NoBody /\ outcome[t] = NoOutcome
    /\ answer[t] = NoAnswer /\ written[t] = <<>>

BuildInv(t) ==
  pc[t] \in {"body", "call"} =>
    /\ request[t] \in Bodies /\ outcome[t] = NoOutcome /\ written[t] = <<>>
    /\ LET n == IF pc[t] = "body" THEN 3 ELSE 4
           lost == IF pc[t] = "body" THEN 0 ELSE Lost(t)
       IN  /\ Len(stack[t]) = height[t] + n - lost /\ lost <= 2
           /\ lost = 0 => \A i \in 1..n : stack[t][height[t] + i] = Pushed[i]

ReturnedInv(t) ==
  pc[t] = "returned" =>
    /\ request[t] \in Bodies /\ written[t] = <<>>
    /\ outcome[t] \in Outcomes /\ outcome[t].ends # "raise"
    /\ Len(stack[t]) = height[t] + 1 - Lost(t) /\ Len(stack[t]) >= 1

AnswerInv(t) ==
  pc[t] \in {"answer", "status", "finish"} =>
    /\ Len(stack[t]) - answer[t].pop = height[t] + Left(t) - Lost(t)
    /\ Len(stack[t]) >= answer[t].pop
    /\ answer[t].content # "none"
    /\ answer[t].status \notin Described => BreaksContract(t)
    /\ KeepsContract(outcome[t]) =>
         answer[t].status = Promised(outcome[t]).status
           /\ answer[t].content = Promised(outcome[t]).content

WrittenInv(t) ==
  /\ pc[t] \in {"answer", "status"} => written[t] = <<>>
  /\ pc[t] = "finish" =>
       /\ Len(written[t]) = 1
       /\ answer[t].status \in Described =>
            written[t][1] = [status |-> answer[t].status, content |-> answer[t].content]

FlowInv(t) ==
  IdleInv(t) /\ BuildInv(t) /\ ReturnedInv(t) /\ AnswerInv(t) /\ WrittenInv(t)

(* What earlier requests left behind is below height[t] and is not used;   *)
(* the labels say what lies above it and what the answer will be.          *)
IInv == TypeOK /\ (\A t \in Threads : FlowInv(t)) /\ ServerSurvives

(* Where the answer that is due is known, and that it is the one chosen. *)
DueInv(t) ==
  /\ pc[t] # "idle" => request[t] \in Bodies
  /\ pc[t] \in {"call", "returned"} => ~Rejected(t)
  /\ pc[t] \in {"answer", "status", "finish"} =>
       /\ outcome[t] = NoOutcome => Rejected(t)
       /\ Due(t) = [status |-> StatusLine(answer[t].status), content |-> answer[t].content]
  /\ pc[t] = "finish" => written[t] = <<Due(t)>>

JInv == IInv /\ \A t \in Threads : DueInv(t)

-------------------------------------------------------------------------------
(* What README.MD says of the service functions, and the code does not do. *)

(* "A lua table containing all the request headers": onRequest is called   *)
(* with the headers of its own request.                                    *)
HeadersArrive ==
  \A t \in Threads :
    pc[t] = "call" /\ Callee(t) >= 1 =>
      (stack[t][Callee(t)] = "onRequest" => stack[t][Callee(t) + 1] = "headers")

(* Of Helix.error: "The errorCode parameter is the HTTP error code to      *)
(* return.", "The content parameter can be a string in case a service produces        *)
(* text/plain content": that code and that text are what the client gets.  *)
ErrorArrives ==
  \A t \in Threads :
    LET o == outcome[t]
    IN  pc[t] = "finish" /\ o.ends = "error" /\ o.arg = "text" /\ service.produces = "TEXT_PLAIN" =>
          written[t][1] = [status |-> o.code, content |-> "text"]

===============================================================================
