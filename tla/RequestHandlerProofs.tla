-------------------------- MODULE RequestHandlerProofs --------------------------
(***************************************************************************)
(* RequestHandler keeps IInv, for any threads, bodies, results of          *)
(* onRequest and bound on the stack.  A step moves one thread, so what     *)
(* FlowInv says of the others is untouched (OneThread); what it says of    *)
(* the thread that moves is arithmetic on the height of its stack.         *)
(* With it, the handler implements ServiceReplies.                         *)
(***************************************************************************)
EXTENDS RequestHandler, FiniteSetTheorems, SequenceTheorems, TLAPS

USE DEF Contents

ResultContents == {"text", "code", "html", "table", "badKeys", "nil", "other", "nothing"}

LEMMA AppendSlot ==
  ASSUME NEW S, NEW s \in Seq(S), NEW e \in S
  PROVE  /\ Append(s, e) \in Seq(S) /\ Len(Append(s, e)) = Len(s) + 1 /\ Len(s) \in Nat
         /\ Append(s, e)[Len(s) + 1] = e
         /\ \A i \in 1..Len(s) : Append(s, e)[i] = s[i]
<1>1. /\ Append(s, e) \in Seq(S) /\ Len(Append(s, e)) = Len(s) + 1
      /\ \A i \in 1..Len(Append(s, e)) : Append(s, e)[i] = IF i = Len(Append(s, e)) THEN e ELSE s[i]
  BY AppendProperties
<1>2. Len(s) \in Nat
  BY LenProperties
<1> QED BY <1>1, <1>2

LEMMA PopSlots ==
  ASSUME NEW S, NEW s \in Seq(S), NEW n \in 0..Len(s)
  PROVE  /\ Popped(s, n) \in Seq(S) /\ Len(Popped(s, n)) = Len(s) - n
         /\ \A i \in 1..(Len(s) - n) : Popped(s, n)[i] = s[i]
<1>1. Len(s) \in Nat
  BY LenProperties
<1> DEFINE m == Len(s) - n
<1>2. m \in Nat /\ m <= Len(s)
  BY <1>1
<1>3. \A i \in 1..Len(s) : s[i] \in S
  BY ElementOfSeq
<1>4. \A i \in 1..m : s[i] \in S
  BY <1>1, <1>2, <1>3
<1>5. /\ SubSeq(s, 1, m) \in Seq(S)
      /\ Len(SubSeq(s, 1, m)) = IF 1 <= m THEN m - 1 + 1 ELSE 0
      /\ \A i \in 1..(m - 1 + 1) : SubSeq(s, 1, m)[i] = s[1 + i - 1]
  BY <1>2, <1>4, SubSeqProperties
<1> QED BY <1>2, <1>5 DEF Popped

LEMMA ResultType ==
  ASSUME NEW o \in OutcomeType, o.ends \in {"success", "error", "table"}
  PROVE  /\ Result(o).code \in Nat
         /\ Result(o).content \in ResultContents
BY DEF OutcomeType, Result, HelixSuccess, HelixError, ResultContents

-------------------------------------------------------------------------------
(* The threads that do not move. *)

Still(u) ==
  /\ stack'[u] = stack[u] /\ pc'[u] = pc[u] /\ request'[u] = request[u]
  /\ outcome'[u] = outcome[u] /\ answer'[u] = answer[u] /\ written'[u] = written[u]
  /\ height'[u] = height[u]

LEMMA StillKeepsFlow ==
  ASSUME NEW u \in Threads, service' = service, Still(u), FlowInv(u)
  PROVE  FlowInv(u)' /\ (Risky(u) => Risky(u)')
<1>1. /\ Lost(u)' = Lost(u) /\ Left(u)' = Left(u) /\ Pushed' = Pushed
      /\ BreaksContract(u)' = BreaksContract(u)
      /\ KeepsContract(outcome[u])' = KeepsContract(outcome[u])
      /\ Promised(outcome[u])' = Promised(outcome[u])
  BY DEF Still, Lost, Left, Pushed, BreaksContract, KeepsContract, Promised
<1>4. Risky(u)' = Risky(u)
  BY <1>1 DEF Still, Risky, Outgrows
<1>2. IdleInv(u)' /\ ReturnedInv(u)' /\ AnswerInv(u)' /\ WrittenInv(u)'
  BY <1>1 DEF Still, FlowInv, IdleInv, ReturnedInv, AnswerInv, WrittenInv
<1>3. BuildInv(u)'
  BY <1>1 DEF Still, FlowInv, BuildInv
<1> QED BY <1>2, <1>3, <1>4 DEF FlowInv

LEMMA OneThread ==
  ASSUME IInv, NEW t \in Threads, phase' = "running", service' = service,
         \A u \in Threads \ {t} : Still(u), TypeOK', FlowInv(t)'
  PROVE  IInv'
<1>1. \A u \in Threads : FlowInv(u)'
  BY StillKeepsFlow DEF IInv
<1>2. ServerSurvives'
  BY DEF ServerSurvives
<1> QED BY <1>1, <1>2 DEF IInv

(* A step after which the process does nothing more. *)
LEMMA Gone ==
  ASSUME IInv, NEW how \in {"aborted", "undefined"}, Leave(how),
         NEW t \in Threads, Risky(t)
  PROVE  IInv'
<1>1. \A u \in Threads : Still(u)
  BY DEF Leave, threadVars, Still
<1>2. service' = service
  BY DEF Leave
<1>3. TypeOK'
  BY DEF Leave, threadVars, IInv, TypeOK
<1>4. (\A u \in Threads : FlowInv(u)') /\ Risky(t)'
  BY <1>1, <1>2, StillKeepsFlow DEF IInv
<1> QED BY <1>3, <1>4 DEF IInv, ServerSurvives

LEMMA InitIInv == Init => IInv
<1> SUFFICES ASSUME Init PROVE IInv
  OBVIOUS
<1>1. Described \subseteq Nat
  BY DEF Described
<1>2. TypeOK
  BY <1>1, EmptySeq DEF Init, TypeOK, NoBody, NoOutcome, NoAnswer, Media
<1>3. \A t \in Threads : FlowInv(t)
  BY DEF Init, FlowInv, IdleInv, BuildInv, ReturnedInv, AnswerInv, WrittenInv
<1>4. ServerSurvives
  BY DEF Init, ServerSurvives
<1> QED BY <1>2, <1>3, <1>4 DEF IInv

-------------------------------------------------------------------------------
(* Building the call. *)

LEMMA DispatchStep ==
  ASSUME IInv, NEW t \in Threads, NEW b \in Bodies, Dispatch(t, b)
  PROVE  IInv'
<1> DEFINE s == stack[t]  args == <<"onRequest", "headers", "matches">>
<1>1. TypeOK /\ FlowInv(t) /\ pc[t] = "idle" /\ s \in Seq(Kinds) /\ Len(s) \in Nat
  BY LenProperties DEF IInv, Dispatch, At, TypeOK
<1>2. args \in Seq(Kinds) /\ Len(args) = 3 /\ args[1] = "onRequest" /\ args[2] = "headers" /\ args[3] = "matches"
  BY DEF Kinds
<1>3. s \o args \in Seq(Kinds) /\ Len(s \o args) = Len(s) + 3
      /\ \A i \in 1..3 : (s \o args)[Len(s) + i] = args[i]
  BY <1>1, <1>2, ConcatProperties
<1>4. /\ stack' = [stack EXCEPT ![t] = s \o args] /\ height' = [height EXCEPT ![t] = Len(s)]
      /\ request' = [request EXCEPT ![t] = b] /\ pc' = [pc EXCEPT ![t] = "body"]
      /\ phase' = "running" /\ known' = known /\ service' = service
      /\ outcome' = outcome /\ answer' = answer /\ written' = written
  BY DEF Dispatch, Goto, At
<1> HIDE DEF s, args
<1>5. TypeOK'
  BY <1>1, <1>3, <1>4, InputAssumption DEF TypeOK
<1>6. FlowInv(t)'
  <2>1. /\ stack'[t] = s \o args /\ height'[t] = Len(s) /\ request'[t] = b /\ pc'[t] = "body"
        /\ outcome'[t] = NoOutcome /\ written'[t] = <<>>
    BY <1>1, <1>4 DEF TypeOK, FlowInv, IdleInv
  <2>2. \A i \in 1..3 : args[i] = Pushed'[i]
    BY <1>2 DEF Pushed
  <2>3. BuildInv(t)'
    BY <1>1, <1>3, <2>1, <2>2 DEF BuildInv
  <2> QED BY <2>1, <2>3 DEF FlowInv, IdleInv, ReturnedInv, AnswerInv, WrittenInv
<1>7. \A u \in Threads \ {t} : Still(u)
  BY <1>1, <1>4 DEF Still, TypeOK
<1> QED BY <1>4, <1>5, <1>6, <1>7, OneThread

(* The fourth slot, for what is not JSON. *)
LEMMA PushPlainStep ==
  ASSUME IInv, NEW t \in Threads, PushPlain(t)
  PROVE  IInv'
<1> DEFINE s == stack[t]
           e == IF service.consumes = "TEXT_PLAIN" THEN "text" ELSE "nil"
<1>1. TypeOK /\ FlowInv(t) /\ pc[t] = "body" /\ s \in Seq(Kinds) /\ e \in Kinds
      /\ service.consumes \in {"TEXT_PLAIN", "NONE"} /\ height[t] \in Nat
  BY DEF IInv, PushPlain, At, TypeOK, Kinds, Media
<1>2. /\ Append(s, e) \in Seq(Kinds) /\ Len(Append(s, e)) = Len(s) + 1 /\ Len(s) \in Nat
      /\ Append(s, e)[Len(s) + 1] = e /\ \A i \in 1..Len(s) : Append(s, e)[i] = s[i]
  BY <1>1, AppendSlot
<1>3. /\ stack' = [stack EXCEPT ![t] = Append(s, e)] /\ pc' = [pc EXCEPT ![t] = "call"]
      /\ phase' = "running" /\ known' = known /\ service' = service /\ request' = request
      /\ outcome' = outcome /\ answer' = answer /\ written' = written /\ height' = height
  BY DEF PushPlain, Goto, At
<1>4. Pushed[4] = e
  BY <1>1 DEF Pushed
<1>5. /\ request[t] \in Bodies /\ outcome[t] = NoOutcome /\ written[t] = <<>>
      /\ Len(s) = height[t] + 3 /\ \A i \in 1..3 : s[height[t] + i] = Pushed[i]
  BY <1>1 DEF FlowInv, BuildInv
<1>6. Lost(t) = 0
  BY <1>1 DEF Lost
<1> HIDE DEF s, e
<1>7. TypeOK'
  BY <1>1, <1>2, <1>3 DEF TypeOK
<1>8. FlowInv(t)'
  <2>1. /\ stack'[t] = Append(s, e) /\ pc'[t] = "call" /\ Pushed' = Pushed /\ Lost(t)' = 0
        /\ request'[t] = request[t] /\ outcome'[t] = outcome[t] /\ written'[t] = written[t]
        /\ height'[t] = height[t]
    BY <1>1, <1>3, <1>6 DEF TypeOK, Pushed, Lost
  <2>2. \A i \in 1..4 : i = 4 \/ i \in 1..3
    OBVIOUS
  <2>3. \A i \in 1..3 : height[t] + i \in 1..Len(s)
    BY <1>1, <1>5
  <2>4. \A i \in 1..4 : Append(s, e)[height[t] + i] = Pushed[i]
    <3>1. Append(s, e)[height[t] + 4] = Pushed[4]
      <4>1. height[t] + 4 = Len(s) + 1
        BY <1>1, <1>5
      <4> QED BY <1>2, <1>4, <4>1
    <3>2. \A i \in 1..3 : Append(s, e)[height[t] + i] = Pushed[i]
      BY <1>2, <1>5, <2>3
    <3> QED BY <2>2, <3>1, <3>2
  <2>5. BuildInv(t)'
    BY <1>1, <1>2, <1>5, <2>1, <2>4 DEF BuildInv
  <2> QED BY <2>1, <2>5 DEF FlowInv, IdleInv, ReturnedInv, AnswerInv, WrittenInv
<1>9. \A u \in Threads \ {t} : Still(u)
  BY <1>1, <1>3 DEF Still, TypeOK
<1> QED BY <1>3, <1>7, <1>8, <1>9, OneThread
LEMMA PushJsonStep ==
  ASSUME IInv, NEW t \in Threads, PushJson(t)
  PROVE  IInv'
<1> DEFINE s == stack[t]
           u == Append(s, "body")
           n == request[t].nulls
<1>1. TypeOK /\ FlowInv(t) /\ pc[t] = "body" /\ s \in Seq(Kinds) /\ "body" \in Kinds
      /\ service.consumes = "JSON" /\ height[t] \in Nat /\ n <= 2
  BY DEF IInv, PushJson, At, TypeOK, Kinds
<1>2. /\ u \in Seq(Kinds) /\ Len(u) = Len(s) + 1 /\ Len(s) \in Nat
      /\ u[Len(s) + 1] = "body" /\ \A i \in 1..Len(s) : u[i] = s[i]
  BY <1>1, AppendSlot
<1>3. /\ request[t] \in Bodies /\ outcome[t] = NoOutcome /\ written[t] = <<>>
      /\ Len(s) = height[t] + 3 /\ \A i \in 1..3 : s[height[t] + i] = Pushed[i]
  BY <1>1 DEF FlowInv, BuildInv
<1>4. n \in Nat /\ Lost(t) = n
  BY <1>1, <1>3, InputAssumption DEF BodyType, Lost
<1>5. /\ stack' = [stack EXCEPT ![t] = Popped(u, n)] /\ pc' = [pc EXCEPT ![t] = "call"]
      /\ phase' = "running" /\ known' = known /\ service' = service /\ request' = request
      /\ outcome' = outcome /\ answer' = answer /\ written' = written /\ height' = height
  BY DEF PushJson, Goto, At
<1>6. Pushed[4] = "body"
  BY <1>1 DEF Pushed
<1>7. n \in 0..Len(u) /\ Len(u) = height[t] + 4
  BY <1>1, <1>2, <1>3, <1>4
<1> HIDE DEF s, u, n
<1>8. /\ Popped(u, n) \in Seq(Kinds) /\ Len(Popped(u, n)) = Len(u) - n
      /\ \A i \in 1..(Len(u) - n) : Popped(u, n)[i] = u[i]
  BY <1>2, <1>7, PopSlots
<1>9. TypeOK'
  BY <1>1, <1>5, <1>8 DEF TypeOK
<1>10. FlowInv(t)'
  <2>1. /\ stack'[t] = Popped(u, n) /\ pc'[t] = "call" /\ Pushed' = Pushed /\ Lost(t)' = n
        /\ request'[t] = request[t] /\ outcome'[t] = outcome[t] /\ written'[t] = written[t]
        /\ height'[t] = height[t]
    BY <1>1, <1>4, <1>5 DEF TypeOK, Pushed, Lost
  <2>2. Len(Popped(u, n)) = height[t] + 4 - n
    BY <1>1, <1>4, <1>7, <1>8
  <2>3. ASSUME n = 0 PROVE \A i \in 1..4 : Popped(u, n)[height[t] + i] = Pushed[i]
    <3>1. \A i \in 1..4 : Popped(u, n)[height[t] + i] = u[height[t] + i]
      <4>1. \A i \in 1..4 : height[t] + i \in 1..(Len(u) - n)
        BY <1>1, <1>7, <2>3
      <4> QED BY <1>8, <4>1
    <3>2. u[height[t] + 4] = Pushed[4]
      <4>1. height[t] + 4 = Len(s) + 1
        BY <1>1, <1>3 DEF s
      <4> QED BY <1>2, <1>6, <4>1
    <3>3. \A i \in 1..3 : u[height[t] + i] = Pushed[i]
      <4>1. \A i \in 1..3 : height[t] + i \in 1..Len(s)
        BY <1>1, <1>3
      <4> QED BY <1>2, <1>3, <4>1
    <3>4. \A i \in 1..4 : i = 4 \/ i \in 1..3
      OBVIOUS
    <3> QED BY <3>1, <3>2, <3>3, <3>4
  <2>4. BuildInv(t)'
    BY <1>1, <1>3, <2>1, <2>2, <2>3 DEF BuildInv
  <2> QED BY <2>1, <2>4 DEF FlowInv, IdleInv, ReturnedInv, AnswerInv, WrittenInv
<1>11. \A v \in Threads \ {t} : Still(v)
  BY <1>1, <1>5 DEF Still, TypeOK
<1> QED BY <1>5, <1>9, <1>10, <1>11, OneThread

(* A thread chooses its answer; s is its stack and o its outcome then. *)
Chooses(t, status, content, pop, s, o) ==
  /\ status \in Nat /\ pop \in {0, 1} /\ content \in Contents
  /\ Answer(t, status, content, pop) /\ phase' = "running"
  /\ UNCHANGED <<known, service, request, written, height>>
  /\ s \in Seq(Kinds) /\ stack' = [stack EXCEPT ![t] = s]
  /\ o \in OutcomeType \cup {NoOutcome} /\ outcome' = [outcome EXCEPT ![t] = o]
  /\ pc[t] \in {"body", "call", "returned"}
  /\ Len(s) >= pop /\ Len(s) - pop = height[t] + Left(t)' - Lost(t)'
  /\ status \notin Described => BreaksContract(t)'
  /\ KeepsContract(o) => status = Promised(o).status /\ content = Promised(o).content

LEMMA Answering ==
  ASSUME IInv, NEW t \in Threads, NEW status, NEW content, NEW pop, NEW s, NEW o,
         Chooses(t, status, content, pop, s, o)
  PROVE  IInv'
<1> USE DEF Chooses
<1>1. /\ answer' = [answer EXCEPT ![t] = [status |-> status, content |-> content, pop |-> pop]]
      /\ pc' = [pc EXCEPT ![t] = "answer"] /\ known' = known /\ service' = service
      /\ request' = request /\ written' = written /\ height' = height
  BY DEF Answer, Goto
<1>2. TypeOK /\ FlowInv(t)
  BY DEF IInv
<1>3. [status |-> status, content |-> content, pop |-> pop] \in
        [status : Nat, content : Contents \cup {"none"}, pop : {0, 1}]
  OBVIOUS
<1>4. TypeOK'
  BY <1>1, <1>2, <1>3 DEF TypeOK
<1>5. FlowInv(t)'
  <2>1. /\ stack'[t] = s /\ pc'[t] = "answer" /\ outcome'[t] = o /\ written'[t] = written[t]
        /\ height'[t] = height[t]
        /\ answer'[t] = [status |-> status, content |-> content, pop |-> pop]
    BY <1>1, <1>2 DEF TypeOK
  <2>2. written[t] = <<>>
    BY <1>2 DEF FlowInv, BuildInv, ReturnedInv
  <2>3. KeepsContract(outcome[t])' => KeepsContract(o) /\ Promised(outcome[t])' = Promised(o)
    BY <1>1, <2>1 DEF KeepsContract, Promised
  <2>4. AnswerInv(t)'
    BY <2>1, <2>3 DEF AnswerInv
  <2> QED BY <2>1, <2>2, <2>4 DEF FlowInv, IdleInv, BuildInv, ReturnedInv, WrittenInv
<1>6. \A u \in Threads \ {t} : Still(u)
  BY <1>1, <1>2 DEF Still, TypeOK
<1> QED BY <1>1, <1>4, <1>5, <1>6, OneThread

LEMMA RejectBodyStep ==
  ASSUME IInv, NEW t \in Threads, RejectBody(t)
  PROVE  IInv'
<1> DEFINE s == stack[t]  o == NoOutcome
<1>1. TypeOK /\ FlowInv(t) /\ pc[t] = "body" /\ s \in Seq(Kinds)
      /\ request[t].json = "invalid" /\ height[t] \in Nat
  BY DEF IInv, RejectBody, At, TypeOK
<1>2. request[t] \in Bodies /\ outcome[t] = o /\ Len(s) = height[t] + 3
  BY <1>1 DEF FlowInv, BuildInv
<1>3. /\ Answer(t, 422, "text", 1) /\ phase' = "running"
      /\ UNCHANGED <<known, service, stack, request, outcome, written, height>>
  BY DEF RejectBody, At
<1>4. Left(t)' = 2 /\ Lost(t)' = 0
  <2>1. outcome'[t] = NoOutcome /\ request'[t] = request[t] /\ request[t].nulls = 0
    BY <1>1, <1>2, <1>3, InputAssumption
  <2> QED BY <1>3, <2>1 DEF Left, Lost
<1>5. 422 \in Described /\ 422 \in Nat /\ ~KeepsContract(o)
  BY DEF Described, KeepsContract, NoOutcome
<1>6. stack' = [stack EXCEPT ![t] = s] /\ outcome' = [outcome EXCEPT ![t] = o]
  BY <1>1, <1>2, <1>3 DEF TypeOK
<1>7. Len(s) >= 1 /\ Len(s) - 1 = height[t] + Left(t)' - Lost(t)'
  BY <1>1, <1>2, <1>4
<1>8. o \in OutcomeType \cup {NoOutcome}
  OBVIOUS
<1> HIDE DEF s, o
<1>9. Chooses(t, 422, "text", 1, s, o)
  <2>1. /\ 422 \in Nat /\ 1 \in {0, 1} /\ "text" \in Contents
        /\ UNCHANGED <<known, service, request, written, height>>
    BY <1>3
  <2>2. pc[t] \in {"body", "call", "returned"}
    BY <1>1
  <2>3. /\ s \in Seq(Kinds) /\ stack' = [stack EXCEPT ![t] = s]
        /\ o \in OutcomeType \cup {NoOutcome} /\ outcome' = [outcome EXCEPT ![t] = o]
        /\ Answer(t, 422, "text", 1) /\ phase' = "running"
    BY <1>1, <1>3, <1>6, <1>8
  <2> QED BY <1>5, <1>7, <2>1, <2>2, <2>3 DEF Chooses
<1> QED BY <1>9, Answering

LEMMA PushJsonGoneStep ==
  ASSUME IInv, NEW t \in Threads, PushJsonPanics(t) \/ PushJsonUndefined(t)
  PROVE  IInv'
<1>1. CASE PushJsonPanics(t)
  <2>1. Leave("aborted") /\ service.consumes = "JSON" /\ request[t].nulls > 2
        /\ pc[t] = "body" /\ FlowInv(t)
    BY <1>1 DEF PushJsonPanics, At, IInv
  <2>2. request[t].nulls \in Nat
    BY <2>1, InputAssumption DEF FlowInv, BuildInv, BodyType
  <2>3. BreaksContract(t)
    BY <2>1, <2>2 DEF BreaksContract, Lost
  <2> QED BY <2>1, <2>3, Gone DEF Risky
<1>2. CASE PushJsonUndefined(t)
  <2>1. Leave("undefined") /\ BreaksContract(t)
    BY <1>2 DEF PushJsonUndefined, BreaksContract
  <2> QED BY <2>1, Gone DEF Risky
<1> QED BY <1>1, <1>2

-------------------------------------------------------------------------------
(* lua_mypcall. *)

LEMMA AtCall ==
  ASSUME IInv, NEW t \in Threads, At(t, "call")
  PROVE  /\ TypeOK /\ FlowInv(t) /\ stack[t] \in Seq(Kinds) /\ height[t] \in Nat
         /\ request[t] \in Bodies /\ outcome[t] = NoOutcome
         /\ Lost(t) \in 0..2 /\ Len(stack[t]) = height[t] + 4 - Lost(t)
         /\ phase = "running" /\ pc[t] = "call"
<1>1. TypeOK /\ FlowInv(t) /\ stack[t] \in Seq(Kinds) /\ height[t] \in Nat
      /\ phase = "running" /\ pc[t] = "call"
  BY DEF IInv, At, TypeOK
<1>2. /\ request[t] \in Bodies /\ outcome[t] = NoOutcome
      /\ Len(stack[t]) = height[t] + 4 - Lost(t) /\ Lost(t) <= 2
  BY <1>1 DEF FlowInv, BuildInv
<1>3. Lost(t) \in Nat
  BY <1>2, InputAssumption DEF Lost, BodyType
<1>4. Lost(t) \in 0..2
  BY <1>2, <1>3
<1> QED BY <1>1, <1>2, <1>4

(* The four slots of the call give way to one. *)
LEMMA CallSlots ==
  ASSUME IInv, NEW t \in Threads, At(t, "call"), Callee(t) >= 1, NEW e \in Kinds
  PROVE  LET s == Append(Popped(stack[t], 4), e)
         IN  s \in Seq(Kinds) /\ Len(s) = height[t] + 1 - Lost(t) /\ Len(s) >= 1
<1>1. /\ stack[t] \in Seq(Kinds) /\ height[t] \in Nat
      /\ Lost(t) \in 0..2 /\ Len(stack[t]) = height[t] + 4 - Lost(t)
  BY AtCall
<1>2. Len(stack[t]) >= 4
  BY <1>1 DEF Callee
<1>3. 4 \in 0..Len(stack[t])
  BY <1>1, <1>2
<1>4. Popped(stack[t], 4) \in Seq(Kinds) /\ Len(Popped(stack[t], 4)) = Len(stack[t]) - 4
  BY <1>1, <1>3, PopSlots
<1>5. /\ Append(Popped(stack[t], 4), e) \in Seq(Kinds)
      /\ Len(Append(Popped(stack[t], 4), e)) = Len(Popped(stack[t], 4)) + 1
  BY <1>4, AppendSlot
<1>6. Len(Append(Popped(stack[t], 4), e)) = height[t] + 1 - Lost(t)
      /\ Len(Append(Popped(stack[t], 4), e)) >= 1
  BY <1>1, <1>2, <1>4, <1>5
<1> QED BY <1>5, <1>6

LEMMA CallReturnsStep ==
  ASSUME IInv, NEW t \in Threads, NEW o \in Outcomes, CallReturns(t, o)
  PROVE  IInv'
<1> DEFINE s == Append(Popped(stack[t], 4), "result")
<1>1. At(t, "call") /\ Callee(t) >= 1 /\ o.ends # "raise"
      /\ stack' = [stack EXCEPT ![t] = s] /\ outcome' = [outcome EXCEPT ![t] = o]
      /\ pc' = [pc EXCEPT ![t] = "returned"]
      /\ phase' = "running" /\ known' = known /\ service' = service /\ request' = request
      /\ answer' = answer /\ written' = written /\ height' = height
  BY DEF CallReturns, Goto, At
<1>2. TypeOK /\ FlowInv(t) /\ pc[t] = "call" /\ request[t] \in Bodies
  BY <1>1, AtCall
<1>3. s \in Seq(Kinds) /\ Len(s) = height[t] + 1 - Lost(t) /\ Len(s) >= 1
  <2>1. "result" \in Kinds
    BY DEF Kinds
  <2> QED BY <1>1, <2>1, CallSlots
<1> HIDE DEF s
<1>4. o \in OutcomeType
  BY InputAssumption
<1>5. TypeOK'
  BY <1>1, <1>2, <1>3, <1>4 DEF TypeOK
<1>6. FlowInv(t)'
  <2>1. /\ stack'[t] = s /\ pc'[t] = "returned" /\ outcome'[t] = o /\ written'[t] = written[t]
        /\ height'[t] = height[t] /\ Lost(t)' = Lost(t)
    BY <1>1, <1>2 DEF TypeOK, Lost
  <2>2. written[t] = <<>>
    BY <1>2 DEF FlowInv, BuildInv
  <2>3. ReturnedInv(t)'
    BY <1>1, <1>2, <1>3, <2>1, <2>2 DEF ReturnedInv
  <2> QED BY <2>1, <2>3 DEF FlowInv, IdleInv, BuildInv, AnswerInv, WrittenInv
<1>7. \A u \in Threads \ {t} : Still(u)
  BY <1>1, <1>2 DEF Still, TypeOK
<1> QED BY <1>1, <1>5, <1>6, <1>7, OneThread

LEMMA Code500 == 500 \in Described /\ 500 \in Nat
BY DEF Described

(* The call failed: the message is popped after the answer. *)
LEMMA CallFails ==
  ASSUME IInv, NEW t \in Threads, At(t, "call"), Callee(t) >= 1,
         NEW o \in OutcomeType, o.ends = "raise",
         stack' = [stack EXCEPT ![t] = Append(Popped(@, 4), "message")],
         outcome' = [outcome EXCEPT ![t] = o], GenericError(t, 1),
         UNCHANGED <<phase, known, service, request, written, height>>
  PROVE  IInv'
<1> DEFINE s == Append(Popped(stack[t], 4), "message")
<1>1. /\ TypeOK /\ height[t] \in Nat /\ Lost(t) \in 0..2 /\ phase = "running" /\ pc[t] = "call"
  BY AtCall
<1>2. s \in Seq(Kinds) /\ Len(s) = height[t] + 1 - Lost(t) /\ Len(s) >= 1
  <2>1. "message" \in Kinds
    BY DEF Kinds
  <2> QED BY <2>1, CallSlots
<1>3. Left(t)' = 0 /\ Lost(t)' = Lost(t)
  BY <1>1 DEF TypeOK, Left, Lost, NoOutcome
<1>4. ~KeepsContract(o)
  BY DEF KeepsContract
<1>5. Answer(t, 500, "empty", 1) /\ stack' = [stack EXCEPT ![t] = s]
  BY DEF GenericError
<1> HIDE DEF s
<1>6. Len(s) - 1 = height[t] + Left(t)' - Lost(t)'
  BY <1>1, <1>2, <1>3
<1> QED BY <1>1, <1>2, <1>4, <1>5, <1>6, Code500, Answering DEF Chooses

LEMMA CallFailsStep ==
  ASSUME IInv, NEW t \in Threads,
         (\E o \in Outcomes : CallRaises(t, o)) \/ CallNoFunction(t)
  PROVE  IInv'
<1>1. ASSUME NEW o \in Outcomes, CallRaises(t, o) PROVE IInv'
  BY <1>1, CallFails, InputAssumption DEF CallRaises
<1>2. CASE CallNoFunction(t)
  <2> DEFINE o == [ends |-> "raise", code |-> 0, arg |-> "text", room |-> 0]
  <2>1. o \in OutcomeType /\ o.ends = "raise"
    BY DEF OutcomeType
  <2> QED BY <1>2, <2>1, CallFails DEF CallNoFunction
<1> QED BY <1>1, <1>2

LEMMA CallUndefinedStep ==
  ASSUME IInv, NEW t \in Threads, CallUndefined(t)
  PROVE  IInv'
<1>1. Leave("undefined") /\ At(t, "call") /\ Callee(t) < 1
  BY DEF CallUndefined
<1>2. Lost(t) > 0
  BY <1>1, AtCall DEF Callee
<1> QED BY <1>1, <1>2, Gone DEF BreaksContract, Risky

-------------------------------------------------------------------------------
(* Choosing the answer. *)

LEMMA AtReturned ==
  ASSUME IInv, NEW t \in Threads, Returned(t)
  PROVE  /\ TypeOK /\ outcome[t] \in OutcomeType /\ outcome[t].ends \notin {"raise", "none"}
         /\ stack[t] \in Seq(Kinds) /\ height[t] \in Nat /\ Lost(t) \in Int
         /\ Len(stack[t]) = height[t] + 1 - Lost(t) /\ Len(stack[t]) >= 1
         /\ Len(stack[t]) \in Nat /\ phase = "running" /\ pc[t] = "returned"
<1>1. /\ TypeOK /\ FlowInv(t) /\ phase = "running" /\ pc[t] = "returned"
      /\ stack[t] \in Seq(Kinds) /\ height[t] \in Nat
      /\ request[t] \in BodyType \cup {NoBody}
  BY DEF IInv, Returned, At, TypeOK
<1>2. /\ outcome[t] \in OutcomeType /\ outcome[t].ends # "raise"
      /\ Len(stack[t]) = height[t] + 1 - Lost(t) /\ Len(stack[t]) >= 1
  BY <1>1, InputAssumption DEF FlowInv, ReturnedInv
<1>3. Lost(t) \in Int
  BY <1>1 DEF Lost, BodyType, NoBody
<1>4. outcome[t].ends # "none" /\ Len(stack[t]) \in Nat
  BY <1>1, <1>2, LenProperties DEF OutcomeType
<1> QED BY <1>1, <1>2, <1>3, <1>4

(* What the table of Helix.success and Helix.error has in it. *)
LEMMA ContractResult ==
  ASSUME NEW o \in OutcomeType, KeepsContract(o)
  PROVE  /\ Result(o).code = Promised(o).status
         /\ \/ Result(o).content = "table" /\ Promised(o).content = "json" /\ service.produces = "JSON"
            \/ Result(o).content = "text" /\ Promised(o).content = "text"
                 /\ service.produces = "TEXT_PLAIN"
            \/ Result(o).content = "nil" /\ Promised(o).content = "empty"
BY DEF OutcomeType, KeepsContract, Result, HelixSuccess, HelixError, Promised

LEMMA ResultStatus ==
  ASSUME IInv, NEW t \in Threads, Returned(t), outcome[t].ends # "value"
  PROVE  /\ Result(outcome[t]).code \in Nat
         /\ Result(outcome[t]).content \in ResultContents
         /\ Result(outcome[t]).code \notin Described => BreaksContract(t)
<1>1. outcome[t] \in OutcomeType /\ outcome[t].ends \in {"success", "error", "table"}
  BY AtReturned DEF OutcomeType
<1>2. 200 \in Described
  BY DEF Described
<1>3. Result(outcome[t]).code \notin Described => BreaksContract(t)
  BY <1>1, <1>2 DEF Result, HelixSuccess, HelixError, BreaksContract
<1> QED BY <1>1, <1>3, ResultType

(* The ledger of a thread that answers what onRequest returned. *)
LEMMA ReturnedLedger ==
  ASSUME IInv, NEW t \in Threads, Returned(t), UNCHANGED <<service, request, outcome, height>>
  PROVE  /\ Lost(t)' = Lost(t) /\ (BreaksContract(t) => BreaksContract(t)')
         /\ Left(t)' = IF \/ outcome[t].ends = "value"
                          \/ IsString(Field(t).content) /\ service.produces = "TEXT_PLAIN"
                       THEN 0 ELSE 1
<1>1. outcome[t] # NoOutcome /\ outcome[t].ends # "raise"
  BY AtReturned DEF NoOutcome
<1>2. Lost(t)' = Lost(t) /\ BreaksContract(t)' = BreaksContract(t)
  BY DEF Lost, BreaksContract
<1>3. Left(t)' = Left(t)
  BY DEF Left
<1>4. Left(t) = IF \/ outcome[t].ends = "value"
                   \/ IsString(Result(outcome[t]).content) /\ service.produces = "TEXT_PLAIN"
                THEN 0 ELSE 1
  BY <1>1 DEF Left
<1> QED BY <1>2, <1>3, <1>4 DEF Field

LEMMA RefuseValueStep ==
  ASSUME IInv, NEW t \in Threads, RefuseValue(t)
  PROVE  IInv'
<1> DEFINE s == stack[t]  o == outcome[t]
<1>1. /\ Returned(t) /\ o.ends = "value" /\ Answer(t, 500, "empty", 1)
      /\ UNCHANGED <<phase, known, service, stack, request, outcome, written, height>>
  BY DEF RefuseValue, GenericError
<1>2. Left(t)' = 0 /\ Lost(t)' = Lost(t)
  BY <1>1, ReturnedLedger
<1>3. Len(s) >= 1 /\ Len(s) - 1 = height[t] + Left(t)' - Lost(t)'
  BY <1>1, <1>2, AtReturned
<1>4. /\ s \in Seq(Kinds) /\ stack' = [stack EXCEPT ![t] = s] /\ phase' = "running"
      /\ o \in OutcomeType \cup {NoOutcome} /\ outcome' = [outcome EXCEPT ![t] = o]
      /\ pc[t] \in {"body", "call", "returned"}
  BY <1>1, AtReturned DEF TypeOK
<1>5. ~KeepsContract(o)
  BY <1>1 DEF KeepsContract
<1> HIDE DEF s, o
<1>6. Chooses(t, 500, "empty", 1, s, o)
  BY <1>1, <1>3, <1>4, <1>5, Code500 DEF Chooses
<1> QED BY <1>6, Answering

LEMMA SendTextStep ==
  ASSUME IInv, NEW t \in Threads, SendText(t)
  PROVE  IInv'
<1> DEFINE s == stack[t]  o == outcome[t]  f == Result(outcome[t])
<1>1. /\ Returned(t) /\ o.ends # "value" /\ Answer(t, f.code, f.content, 1)
      /\ IsString(f.content) /\ service.produces = "TEXT_PLAIN"
      /\ UNCHANGED <<phase, known, service, stack, request, outcome, written, height>>
  BY DEF SendText, Field
<1>2. Left(t)' = 0 /\ Lost(t)' = Lost(t)
  BY <1>1, ReturnedLedger DEF Field
<1>3. Len(s) >= 1 /\ Len(s) - 1 = height[t] + Left(t)' - Lost(t)'
  <2>1. Len(s) = height[t] + 1 - Lost(t) /\ Len(s) >= 1 /\ height[t] \in Nat /\ Lost(t) \in Int
    BY <1>1, AtReturned
  <2> QED BY <1>2, <2>1
<1>4. /\ s \in Seq(Kinds) /\ stack' = [stack EXCEPT ![t] = s] /\ phase' = "running"
      /\ o \in OutcomeType \cup {NoOutcome} /\ outcome' = [outcome EXCEPT ![t] = o]
      /\ pc[t] \in {"body", "call", "returned"}
  BY <1>1, AtReturned DEF TypeOK
<1>5. f.code \in Nat /\ (f.code \notin Described => BreaksContract(t)')
  BY <1>1, ResultStatus, ReturnedLedger
<1>6. f.content \in {"text", "code", "html"}
  BY <1>1 DEF IsString
<1>7. KeepsContract(o) => f.code = Promised(o).status /\ f.content = Promised(o).content
  BY <1>1, <1>6, AtReturned, ContractResult
<1> HIDE DEF s, o, f
<1>8. Chooses(t, f.code, f.content, 1, s, o)
  BY <1>1, <1>3, <1>4, <1>5, <1>6, <1>7 DEF Chooses
<1> QED BY <1>8, Answering

(* The other answers leave the content, or its nil, on the stack. *)
LEMMA ContentStays ==
  ASSUME IInv, NEW t \in Threads, Returned(t), outcome[t].ends # "value",
         ~(IsString(Field(t).content) /\ service.produces = "TEXT_PLAIN"),
         NEW e \in Kinds, stack' = [stack EXCEPT ![t] = Append(@, e)],
         UNCHANGED <<phase, known, service, request, outcome, written, height>>,
         NEW status \in Nat, NEW content \in {"json", "empty"}, Answer(t, status, content, 1),
         status \notin Described => BreaksContract(t),
         KeepsContract(outcome[t]) =>
           status = Promised(outcome[t]).status /\ content = Promised(outcome[t]).content
  PROVE  IInv'
<1> DEFINE s == Append(stack[t], e)  o == outcome[t]
<1>1. Left(t)' = 1 /\ Lost(t)' = Lost(t) /\ (BreaksContract(t) => BreaksContract(t)')
  BY ReturnedLedger
<1>2. /\ TypeOK /\ stack[t] \in Seq(Kinds) /\ height[t] \in Nat /\ Lost(t) \in Int
      /\ Len(stack[t]) = height[t] + 1 - Lost(t) /\ Len(stack[t]) >= 1
      /\ phase = "running" /\ pc[t] = "returned" /\ o \in OutcomeType
  BY AtReturned
<1>3. s \in Seq(Kinds) /\ Len(s) = Len(stack[t]) + 1 /\ Len(stack[t]) \in Nat
  BY <1>2, AppendSlot
<1>4. stack' = [stack EXCEPT ![t] = s] /\ outcome' = [outcome EXCEPT ![t] = o]
      /\ pc[t] \in {"body", "call", "returned"}
  BY <1>2 DEF TypeOK
<1>5. KeepsContract(o) => status = Promised(o).status /\ content = Promised(o).content
  OBVIOUS
<1>6. phase' = "running" /\ content \in Contents
      /\ o \in OutcomeType \cup {NoOutcome} /\ 1 \in {0, 1}
  BY <1>2
<1> HIDE DEF s, o
<1>7. Len(s) >= 1 /\ Len(s) - 1 = height[t] + Left(t)' - Lost(t)'
  BY <1>1, <1>2, <1>3
<1>8. Chooses(t, status, content, 1, s, o)
  BY <1>1, <1>3, <1>4, <1>5, <1>6, <1>7 DEF Chooses
<1> QED BY <1>8, Answering

LEMMA SendJsonStep ==
  ASSUME IInv, NEW t \in Threads, SendJson(t)
  PROVE  IInv'
<1> DEFINE f == Result(outcome[t])
<1>1. Returned(t) /\ outcome[t].ends # "value" /\ IsTable(f.content) /\ service.produces = "JSON"
  BY DEF SendJson, Field
<1>2. CASE f.content = "badKeys"
  <2>1. Leave("aborted")
    BY <1>2 DEF SendJson, Field
  <2>2. outcome[t].arg = "badKeys"
    <3>1. outcome[t] \in OutcomeType /\ outcome[t].ends \in {"success", "error", "table"}
      BY <1>1, AtReturned DEF OutcomeType
    <3> QED BY <1>2, <3>1 DEF Result, HelixSuccess, HelixError
  <2> QED BY <2>1, <2>2, Gone DEF BreaksContract, Risky
<1>3. CASE f.content # "badKeys"
  <2>1. /\ stack' = [stack EXCEPT ![t] = Append(@, "content")] /\ "content" \in Kinds
        /\ Answer(t, f.code, "json", 1)
        /\ UNCHANGED <<phase, known, service, request, outcome, written, height>>
    BY <1>3 DEF SendJson, Field, Kinds
  <2>2. f.content = "table" /\ ~IsString(Field(t).content)
    BY <1>1, <1>3 DEF IsTable, IsString, Field
  <2>3. f.code \in Nat /\ (f.code \notin Described => BreaksContract(t))
    BY <1>1, ResultStatus
  <2>4. KeepsContract(outcome[t]) =>
          f.code = Promised(outcome[t]).status /\ "json" = Promised(outcome[t]).content
    BY <1>1, <2>2, AtReturned, ContractResult
  <2> HIDE DEF f
  <2> QED BY <1>1, <2>1, <2>2, <2>3, <2>4, ContentStays
<1> QED BY <1>2, <1>3

LEMMA SendEmptyStep ==
  ASSUME IInv, NEW t \in Threads, SendEmpty(t)
  PROVE  IInv'
<1> DEFINE f == Result(outcome[t])
<1>1. /\ Returned(t) /\ outcome[t].ends # "value" /\ f.content = "nil"
      /\ stack' = [stack EXCEPT ![t] = Append(@, "nil")] /\ "nil" \in Kinds
      /\ Answer(t, f.code, "empty", 1)
      /\ UNCHANGED <<phase, known, service, request, outcome, written, height>>
  BY DEF SendEmpty, Field, Kinds
<1>2. ~IsString(Field(t).content)
  BY <1>1 DEF IsString, Field
<1>3. f.code \in Nat /\ (f.code \notin Described => BreaksContract(t))
  BY <1>1, ResultStatus
<1>4. KeepsContract(outcome[t]) =>
        f.code = Promised(outcome[t]).status /\ "empty" = Promised(outcome[t]).content
  BY <1>1, AtReturned, ContractResult
<1> HIDE DEF f
<1> QED BY <1>1, <1>2, <1>3, <1>4, ContentStays

LEMMA RefuseContentStep ==
  ASSUME IInv, NEW t \in Threads, RefuseContent(t)
  PROVE  IInv'
<1> DEFINE f == Result(outcome[t])
<1>1. /\ Returned(t) /\ outcome[t].ends # "value" /\ f.content # "nil"
      /\ stack' = [stack EXCEPT ![t] = Append(@, "content")] /\ "content" \in Kinds
      /\ Answer(t, 500, "empty", 1)
      /\ UNCHANGED <<phase, known, service, request, outcome, written, height>>
  BY DEF RefuseContent, Field, Kinds, GenericError
<1>2. /\ ~(IsString(Field(t).content) /\ service.produces = "TEXT_PLAIN")
      /\ ~(IsTable(f.content) /\ service.produces = "JSON")
  BY DEF RefuseContent, Field
<1>3. ~KeepsContract(outcome[t])
  BY <1>1, <1>2, AtReturned, ContractResult DEF Field, IsString, IsTable
<1> HIDE DEF f
<1> QED BY <1>1, <1>2, <1>3, Code500, ContentStays

-------------------------------------------------------------------------------
(* Writing the answer. *)

LEMMA AtAnswer ==
  ASSUME IInv, NEW t \in Threads, NEW label \in {"answer", "status", "finish"}, At(t, label)
  PROVE  /\ TypeOK /\ FlowInv(t) /\ phase = "running" /\ pc[t] = label
         /\ stack[t] \in Seq(Kinds) /\ height[t] \in Nat
         /\ written[t] \in Seq([status : Nat, content : Contents])
         /\ answer[t].pop \in {0, 1} /\ answer[t].status \in Nat
         /\ answer[t].content \in Contents
         /\ Len(stack[t]) >= answer[t].pop /\ Len(stack[t]) \in Nat
<1>1. /\ TypeOK /\ FlowInv(t) /\ phase = "running" /\ pc[t] = label
      /\ stack[t] \in Seq(Kinds) /\ height[t] \in Nat
      /\ written[t] \in Seq([status : Nat, content : Contents])
      /\ answer[t] \in [status : Nat, content : Contents \cup {"none"},
                        pop : {0, 1}]
  BY DEF IInv, At, TypeOK
<1>2. answer[t].content # "none" /\ Len(stack[t]) >= answer[t].pop
  BY <1>1 DEF FlowInv, AnswerInv
<1> QED BY <1>1, <1>2, LenProperties

LEMMA LookupStatusStep ==
  ASSUME IInv, NEW t \in Threads, LookupStatus(t)
  PROVE  IInv'
<1>1. /\ TypeOK /\ FlowInv(t) /\ pc[t] = "answer"
  BY AtAnswer DEF LookupStatus
<1>2. /\ pc' = [pc EXCEPT ![t] = "status"] /\ phase' = "running" /\ known' = known
      /\ service' = service /\ stack' = stack /\ request' = request /\ outcome' = outcome
      /\ answer' = answer /\ written' = written /\ height' = height
  BY DEF LookupStatus, Goto, At
<1>3. TypeOK'
  BY <1>1, <1>2 DEF TypeOK
<1>4. FlowInv(t)'
  <2>1. pc'[t] = "status"
    BY <1>1, <1>2 DEF TypeOK
  <2>2. /\ Left(t)' = Left(t) /\ Lost(t)' = Lost(t) /\ BreaksContract(t)' = BreaksContract(t)
        /\ KeepsContract(outcome[t])' = KeepsContract(outcome[t])
        /\ Promised(outcome[t])' = Promised(outcome[t])
    BY <1>2 DEF Left, Lost, BreaksContract, KeepsContract, Promised
  <2>3. AnswerInv(t)'
    BY <1>1, <1>2, <2>2 DEF FlowInv, AnswerInv
  <2>4. WrittenInv(t)'
    BY <1>1, <1>2, <2>1 DEF FlowInv, WrittenInv
  <2> QED BY <2>1, <2>3, <2>4 DEF FlowInv, IdleInv, BuildInv, ReturnedInv
<1>5. \A u \in Threads \ {t} : Still(u)
  BY <1>1, <1>2 DEF Still, TypeOK
<1> QED BY <1>2, <1>3, <1>4, <1>5, OneThread

LEMMA WriteAnswerStep ==
  ASSUME IInv, NEW t \in Threads, WriteAnswer(t)
  PROVE  IInv'
<1> DEFINE a == answer[t]
           line == StatusLine(a.status)
           w == [status |-> line, content |-> a.content]
           Responses == [status : Nat, content : Contents]
<1>1. /\ TypeOK /\ FlowInv(t) /\ pc[t] = "status" /\ written[t] \in Seq(Responses)
      /\ a.status \in Nat /\ a.content \in Contents
  BY AtAnswer DEF WriteAnswer
<1>2. w \in Responses
  BY <1>1 DEF StatusLine, EmptyLine
<1>3. written[t] = <<>>
  BY <1>1 DEF FlowInv, WrittenInv
<1>4. /\ Append(written[t], w) \in Seq(Responses) /\ Len(Append(written[t], w)) = 1
      /\ Append(written[t], w)[1] = w
  <2>1. Len(written[t]) = 0
    BY <1>3, EmptySeq
  <2> HIDE DEF w, Responses
  <2> QED BY <1>1, <1>2, <2>1, AppendSlot
<1>5. /\ pc' = [pc EXCEPT ![t] = "finish"] /\ phase' = "running" /\ known' = known \cup {a.status}
      /\ written' = [written EXCEPT ![t] = Append(written[t], w)]
      /\ service' = service /\ stack' = stack /\ request' = request /\ outcome' = outcome
      /\ answer' = answer /\ height' = height
  BY DEF WriteAnswer, Goto, At
<1>6. TypeOK'
  <2> HIDE DEF w
  <2> QED BY <1>1, <1>4, <1>5 DEF TypeOK
<1>7. FlowInv(t)'
  <2>1. pc'[t] = "finish" /\ written'[t] = Append(written[t], w)
    BY <1>1, <1>5 DEF TypeOK
  <2>2. /\ Left(t)' = Left(t) /\ Lost(t)' = Lost(t) /\ BreaksContract(t)' = BreaksContract(t)
        /\ KeepsContract(outcome[t])' = KeepsContract(outcome[t])
        /\ Promised(outcome[t])' = Promised(outcome[t])
    BY <1>5 DEF Left, Lost, BreaksContract, KeepsContract, Promised
  <2>3. AnswerInv(t)'
    BY <1>1, <1>5, <2>2 DEF FlowInv, AnswerInv
  <2>4. a.status \in Described => w = [status |-> a.status, content |-> a.content]
    BY DEF StatusLine
  <2>5. WrittenInv(t)'
    <3> HIDE DEF w
    <3> QED BY <1>4, <1>5, <2>1, <2>4 DEF WrittenInv
  <2> QED BY <2>1, <2>3, <2>5 DEF FlowInv, IdleInv, BuildInv, ReturnedInv
<1>8. \A u \in Threads \ {t} : Still(u)
  BY <1>1, <1>5 DEF Still, TypeOK
<1> QED BY <1>5, <1>6, <1>7, <1>8, OneThread

(* Only a code without a status line makes the lookup insert. *)
LEMMA LookupRaceStep ==
  ASSUME IInv, NEW t \in Threads, LookupRace(t)
  PROVE  IInv'
<1>1. Leave("undefined") /\ At(t, "status") /\ answer[t].status \notin known
  BY DEF LookupRace
<1>2. answer[t].status \notin Described /\ FlowInv(t) /\ pc[t] = "status"
  BY <1>1, AtAnswer DEF TypeOK
<1>3. BreaksContract(t)
  BY <1>2 DEF FlowInv, AnswerInv
<1> QED BY <1>1, <1>3, Gone DEF Risky

LEMMA ReportPanicsStep ==
  ASSUME IInv, NEW t \in Threads, ReportPanics(t)
  PROVE  IInv'
<1>1. Leave("aborted") /\ BreaksContract(t)
  BY DEF ReportPanics, BreaksContract
<1> QED BY <1>1, Gone DEF Risky

LEMMA StaleSlots ==
  ASSUME NEW s \in Seq(Kinds)
  PROVE  Stale(s) \in Seq(Kinds)
<1>1. DOMAIN s = 1..Len(s) /\ Len(s) \in Nat
  BY LenProperties
<1>2. \A i \in 1..Len(s) : s[i] \in Kinds
  BY ElementOfSeq
<1>3. Stale(s) \in [1..Len(s) -> Kinds]
  BY <1>1, <1>2 DEF Stale, Kinds
<1> QED BY <1>1, <1>3, SeqDef

LEMMA FinishStep ==
  ASSUME IInv, NEW t \in Threads, Finish(t)
  PROVE  IInv'
<1> DEFINE s == Stale(Popped(stack[t], answer[t].pop))
<1>1. /\ TypeOK /\ stack[t] \in Seq(Kinds) /\ answer[t].pop \in {0, 1}
      /\ Len(stack[t]) >= answer[t].pop /\ Len(stack[t]) \in Nat
  BY AtAnswer DEF Finish
<1>2. s \in Seq(Kinds)
  <2>1. answer[t].pop \in 0..Len(stack[t])
    BY <1>1
  <2> QED BY <1>1, <2>1, PopSlots, StaleSlots
<1>3. /\ stack' = [stack EXCEPT ![t] = s] /\ pc' = [pc EXCEPT ![t] = "idle"]
      /\ request' = [request EXCEPT ![t] = NoBody] /\ outcome' = [outcome EXCEPT ![t] = NoOutcome]
      /\ answer' = [answer EXCEPT ![t] = NoAnswer] /\ written' = [written EXCEPT ![t] = <<>>]
      /\ height' = [height EXCEPT ![t] = 0]
      /\ phase' = "running" /\ known' = known /\ service' = service
  BY DEF Finish, Goto, At
<1> HIDE DEF s
<1>4. TypeOK'
  <2>1. NoAnswer \in [status : Nat, content : Contents \cup {"none"}, pop : {0, 1}]
    BY DEF NoAnswer
  <2>2. <<>> \in Seq([status : Nat, content : Contents])
    BY EmptySeq
  <2> QED BY <1>1, <1>2, <1>3, <2>1, <2>2 DEF TypeOK
<1>5. FlowInv(t)'
  BY <1>1, <1>3 DEF TypeOK, FlowInv, IdleInv, BuildInv, ReturnedInv, AnswerInv, WrittenInv
<1>6. \A u \in Threads \ {t} : Still(u)
  BY <1>1, <1>3 DEF Still, TypeOK
<1> QED BY <1>3, <1>4, <1>5, <1>6, OneThread

(* A step that needs more slots than Lua guarantees: the height the request *)
(* was dispatched at and what it has pushed since then say that it is the   *)
(* request that does not find its room.                                     *)
LEMMA OverflowStep ==
  ASSUME IInv, NEW t \in Threads, Overflow(t)
  PROVE  IInv'
<1>1. /\ TypeOK /\ FlowInv(t) /\ pc[t] \in {"body", "call", "returned"}
      /\ Len(stack[t]) + Needs(t) > Slots /\ Leave("undefined")
  BY DEF Overflow, IInv
<1>2. /\ request[t] \in Bodies /\ request[t] \in BodyType /\ request[t] # NoBody
      /\ request[t].room \in Nat
  BY <1>1, InputAssumption DEF FlowInv, BuildInv, ReturnedInv, BodyType, NoBody
<1>3. /\ Lost(t) \in Nat /\ height[t] \in Nat /\ Slots \in Nat
      /\ outcome[t].room \in Nat
  BY <1>1, <1>2, InputAssumption DEF Lost, TypeOK, BodyType, OutcomeType, NoOutcome
<1>4. CASE pc[t] = "body"
  <2>1. Len(stack[t]) = height[t] + 3 /\ Needs(t) =
          1 + IF service.consumes = "JSON" THEN request[t].room ELSE 0
    BY <1>1, <1>3, <1>4 DEF FlowInv, BuildInv, Needs
  <2>2. Outgrows(t)
    BY <1>1, <1>2, <1>3, <2>1 DEF Outgrows
  <2> QED BY <1>1, <2>2, Gone DEF Risky
<1>5. CASE pc[t] = "call"
  <2>1. Len(stack[t]) = height[t] + 4 - Lost(t) /\ Needs(t) = 1
    BY <1>1, <1>5 DEF FlowInv, BuildInv, Needs
  <2>2. Outgrows(t)
    BY <1>1, <1>2, <1>3, <2>1 DEF Outgrows
  <2> QED BY <1>1, <2>2, Gone DEF Risky
<1>6. CASE pc[t] = "returned"
  <2>1. Len(stack[t]) = height[t] + 1 - Lost(t) /\ Needs(t) =
          1 + IF service.produces = "JSON" THEN outcome[t].room ELSE 0
    BY <1>1, <1>6 DEF FlowInv, ReturnedInv, Needs
  <2>2. Outgrows(t)
    BY <1>1, <1>2, <1>3, <2>1 DEF Outgrows
  <2> QED BY <1>1, <2>2, Gone DEF Risky
<1> QED BY <1>1, <1>4, <1>5, <1>6

-------------------------------------------------------------------------------
LEMMA StepKeepsIInv == IInv /\ [Next]_vars => IInv'
<1> SUFFICES ASSUME IInv, [Next]_vars PROVE IInv'
  OBVIOUS
<1>1. CASE Next
  <2>1. PICK t \in Threads : Handler(t) \/ \E b \in Bodies : Dispatch(t, b)
    BY <1>1 DEF Next
  <2>2. CASE \E b \in Bodies : Dispatch(t, b)
    BY <2>2, DispatchStep
  <2>3. CASE Handler(t)
    <3>1. CASE PushPlain(t) \/ PushJson(t) \/ PushJsonPanics(t) \/ PushJsonUndefined(t)
               \/ RejectBody(t) \/ Overflow(t)
      BY <3>1, PushPlainStep, PushJsonStep, PushJsonGoneStep, RejectBodyStep, OverflowStep
    <3>2. CASE \/ \E o \in Outcomes : CallReturns(t, o) \/ CallRaises(t, o)
               \/ CallNoFunction(t) \/ CallUndefined(t)
      BY <3>2, CallReturnsStep, CallFailsStep, CallUndefinedStep
    <3>3. CASE RefuseValue(t) \/ SendText(t) \/ SendJson(t) \/ SendEmpty(t) \/ RefuseContent(t)
      BY <3>3, RefuseValueStep, SendTextStep, SendJsonStep, SendEmptyStep, RefuseContentStep
    <3>4. CASE LookupStatus(t) \/ WriteAnswer(t) \/ LookupRace(t) \/ ReportPanics(t) \/ Finish(t)
      BY <3>4, LookupStatusStep, WriteAnswerStep, LookupRaceStep, ReportPanicsStep, FinishStep
    <3> QED BY <2>3, <3>1, <3>2, <3>3, <3>4 DEF Handler
  <2> QED BY <2>1, <2>2, <2>3
<1>2. CASE UNCHANGED vars
  <2>1. \A u \in Threads : Still(u)
    BY <1>2 DEF vars, threadVars, Still
  <2>2. /\ phase' = phase /\ service' = service /\ known' = known /\ stack' = stack /\ pc' = pc
        /\ request' = request /\ outcome' = outcome /\ answer' = answer /\ written' = written
        /\ height' = height
    BY <1>2 DEF vars, threadVars
  <2>3. TypeOK'
    BY <2>2 DEF IInv, TypeOK
  <2>4. \A u \in Threads : FlowInv(u)' /\ (Risky(u) => Risky(u)')
    BY <2>1, <2>2, StillKeepsFlow DEF IInv
  <2> QED BY <2>2, <2>3, <2>4 DEF IInv, ServerSurvives
<1> QED BY <1>1, <1>2

(* The inductive invariant: at each label of the handler, what the thread  *)
(* has on its stack above what earlier requests left, and which answer it  *)
(* will write.                                                             *)
THEOREM Invariance == Spec => []IInv
<1>1. Init => IInv
  BY InitIInv
<1>2. IInv /\ [Next]_vars => IInv'
  BY StepKeepsIInv
<1> QED BY <1>1, <1>2, PTL DEF Spec

(* The variables of the handler keep their types; above all, lua_pop never *)
(* takes more than the one slot it is meant to.                            *)
THEOREM TypeCorrect == Spec => []TypeOK
<1>1. IInv => TypeOK
  BY DEF IInv
<1> QED BY <1>1, Invariance, PTL

(* Every branch of the handler writes its one response, and only at the    *)
(* end.                                                                    *)
THEOREM RespondsOnce == Spec => []OneResponse
<1>1. IInv => OneResponse
  BY DEF IInv, FlowInv, BuildInv, ReturnedInv, WrittenInv, OneResponse
<1> QED BY <1>1, Invariance, PTL

(* A request without a null reaches onRequest with its own arguments,      *)
(* however high the stack has grown.                                       *)
THEOREM OnRequestIsCalled == Spec => []CallsOnRequest
<1>1. ASSUME IInv PROVE CallsOnRequest
  <2> SUFFICES ASSUME NEW t \in Threads, pc[t] = "call", Lost(t) = 0
               PROVE  Callee(t) >= 1 /\ \A i \in 1..4 : stack[t][Callee(t) + i - 1] = Pushed[i]
    BY DEF CallsOnRequest
  <2>1. /\ Len(stack[t]) = height[t] + 4 /\ height[t] \in Nat
        /\ \A i \in 1..4 : stack[t][height[t] + i] = Pushed[i]
    <3>1. BuildInv(t) /\ height[t] \in Nat
      BY <1>1 DEF IInv, TypeOK, FlowInv
    <3>2. Len(stack[t]) = height[t] + 4 - 0
      BY <3>1 DEF BuildInv
    <3>3. \A i \in 1..4 : stack[t][height[t] + i] = Pushed[i]
      BY <3>1 DEF BuildInv
    <3> QED BY <3>1, <3>2, <3>3
  <2>2. Callee(t) >= 1 /\ \A i \in 1..4 : Callee(t) + i - 1 = height[t] + i
    BY <2>1 DEF Callee
  <2> QED BY <2>1, <2>2
<1> QED BY <1>1, Invariance, PTL

(* What each way of answering leaves on the stack for good. *)
THEOREM LedgerHolds == Spec => []StackLedger
<1>1. IInv => StackLedger
  BY DEF IInv, FlowInv, AnswerInv, StackLedger
<1> QED BY <1>1, Invariance, PTL

(* The process ends, or does something undefined, only with a request in   *)
(* flight that breaks the contract itself, or that does not find the slots *)
(* it needs on top of the ones that LedgerHolds says earlier requests left. *)
THEOREM SurvivesContract == Spec => []ServerSurvives
<1>1. IInv => ServerSurvives
  BY DEF IInv
<1> QED BY <1>1, Invariance, PTL

(* A script that keeps to the contract gets its own status and content to  *)
(* the client.                                                             *)
THEOREM KeepsItsWord == Spec => []ContractKept
<1>1. ASSUME IInv PROVE ContractKept
  <2> SUFFICES ASSUME NEW t \in Threads, pc[t] = "finish", KeepsContract(outcome[t])
               PROVE  written[t][1] = Promised(outcome[t])
    BY DEF ContractKept
  <2>1. /\ answer[t].status = Promised(outcome[t]).status
        /\ answer[t].content = Promised(outcome[t]).content
        /\ answer[t].status \in Described =>
             written[t][1] = [status |-> answer[t].status, content |-> answer[t].content]
    BY <1>1 DEF IInv, FlowInv, AnswerInv, WrittenInv
  <2>2. Promised(outcome[t]).status \in Described
    BY DEF KeepsContract
  <2>3. Promised(outcome[t]) = [status  |-> Promised(outcome[t]).status,
                                content |-> Promised(outcome[t]).content]
    BY DEF Promised
  <2> QED BY <2>1, <2>2, <2>3
<1> QED BY <1>1, Invariance, PTL

-------------------------------------------------------------------------------
(* The refinement: a service that answers each request on its own merits.  *)
(* Only the thread that moves has to be looked at, and of it only its      *)
(* request, its outcome and what it has written.                           *)

Step(t) == Handler(t) \/ \E b \in Bodies : Dispatch(t, b)

LEMMA OthersStill ==
  ASSUME IInv, NEW t \in Threads, Step(t)
  PROVE  /\ phase = "running" /\ service' = service
         /\ phase' # "running" =>
              UNCHANGED <<stack, pc, request, outcome, answer, written, height>>
         /\ \A u \in Threads \ {t} : Still(u)
<1>0. TypeOK
  BY DEF IInv
<1>1. ASSUME \E how \in {"aborted", "undefined"} : Leave(how), phase = "running"
      PROVE  /\ phase = "running" /\ service' = service
             /\ phase' # "running" =>
                  UNCHANGED <<stack, pc, request, outcome, answer, written, height>>
             /\ \A u \in Threads \ {t} : Still(u)
  BY <1>1 DEF Leave, threadVars, Still
<1>2. CASE \E b \in Bodies : Dispatch(t, b)
  BY <1>0, <1>2 DEF Dispatch, Goto, At, Still, TypeOK
<1>3. CASE PushPlain(t) \/ PushJson(t) \/ RejectBody(t)
  BY <1>0, <1>3 DEF PushPlain, PushJson, RejectBody, Answer, Goto, At, Still, TypeOK
<1>4. CASE PushJsonPanics(t) \/ PushJsonUndefined(t) \/ CallUndefined(t)
           \/ LookupRace(t) \/ ReportPanics(t) \/ Overflow(t)
  BY <1>1, <1>4 DEF PushJsonPanics, PushJsonUndefined, CallUndefined, LookupRace,
     ReportPanics, Overflow, At
<1>5. CASE \E o \in Outcomes : CallReturns(t, o) \/ CallRaises(t, o)
  BY <1>0, <1>5 DEF CallReturns, CallRaises, GenericError, Answer, Goto, At, Still, TypeOK
<1>6. CASE CallNoFunction(t)
  BY <1>0, <1>6 DEF CallNoFunction, GenericError, Answer, Goto, At, Still, TypeOK
<1>7. CASE RefuseValue(t) \/ SendText(t) \/ SendEmpty(t) \/ RefuseContent(t)
  BY <1>0, <1>7 DEF RefuseValue, SendText, SendEmpty, RefuseContent, GenericError, Answer,
     Goto, Returned, At, Still, TypeOK
<1>8. CASE SendJson(t)
  <2>1. CASE Field(t).content = "badKeys"
    BY <1>1, <1>8, <2>1 DEF SendJson, Returned, At
  <2>2. CASE Field(t).content # "badKeys"
    BY <1>0, <1>8, <2>2 DEF SendJson, Answer, Goto, Returned, At, Still, TypeOK
  <2> QED
    BY <2>1, <2>2
<1>9. CASE LookupStatus(t) \/ WriteAnswer(t) \/ Finish(t)
  BY <1>0, <1>9 DEF LookupStatus, WriteAnswer, Finish, Goto, At, Still, TypeOK
<1> QED
  BY <1>2, <1>3, <1>4, <1>5, <1>6, <1>7, <1>8, <1>9 DEF Step, Handler

(* What a thread that stands still knows of its answer. *)
LEMMA StillKeepsDue ==
  ASSUME NEW u \in Threads, service' = service, Still(u)
  PROVE  /\ DueInv(u) => DueInv(u)'
         /\ Risky(u)' <=> Risky(u)
         /\ Rejected(u)' <=> Rejected(u)
         /\ Due(u)' = Due(u)
<1>1. /\ Risky(u)' <=> Risky(u)
      /\ Rejected(u)' <=> Rejected(u)
  BY DEF Still, Risky, Outgrows, BreaksContract, Lost, Rejected
<1>2. Due(u)' = Due(u)
  BY <1>1 DEF Still, Due
<1>3. DueInv(u) => DueInv(u)'
  BY <1>1, <1>2 DEF Still, DueInv
<1> QED
  BY <1>1, <1>2, <1>3

(* The answer that is due, by what onRequest did. *)
LEMMA DueCases ==
  ASSUME NEW t \in Threads, outcome[t] \in OutcomeType \cup {NoOutcome}
  PROVE  LET o == outcome[t]
             r == Result(o)
             line == StatusLine(r.code)
         IN  /\ Rejected(t) => Due(t) = [status |-> 422, content |-> "text"]
             /\ ~Rejected(t) /\ o.ends \in {"raise", "value", "none"} =>
                  Due(t) = [status |-> 500, content |-> "empty"]
             /\ ~Rejected(t) /\ o.ends \notin {"raise", "value", "none"} =>
                  /\ IsString(r.content) /\ service.produces = "TEXT_PLAIN" =>
                       Due(t) = [status |-> line, content |-> r.content]
                  /\ IsTable(r.content) /\ service.produces = "JSON" =>
                       Due(t) = [status |-> line, content |-> "json"]
                  /\ r.content = "nil" => Due(t) = [status |-> line, content |-> "empty"]
                  /\ /\ ~(IsString(r.content) /\ service.produces = "TEXT_PLAIN")
                     /\ ~(IsTable(r.content) /\ service.produces = "JSON")
                     /\ r.content # "nil"
                     => Due(t) = [status |-> 500, content |-> "empty"]
<1> DEFINE o == outcome[t]
           r == Result(o)
<1>1. o.ends \in {"success", "error", "table", "value", "raise", "none"}
  BY DEF OutcomeType, NoOutcome
<1> HIDE DEF o, r
<1>2. Due(t) = (LET Sends(content) == [status |-> StatusLine(r.code), content |-> content]
                IN CASE Rejected(t) -> [status |-> 422, content |-> "text"]
                     [] ~Rejected(t) /\ o.ends \in {"success", "error", "table"} ->
                          (CASE IsString(r.content) /\ service.produces = "TEXT_PLAIN" -> Sends(r.content)
                             [] IsTable(r.content) /\ service.produces = "JSON" -> Sends("json")
                             [] r.content = "nil" -> Sends("empty")
                             [] OTHER -> [status |-> 500, content |-> "empty"])
                     [] OTHER -> [status |-> 500, content |-> "empty"])
  BY DEF Due, o, r
<1> QED
  BY <1>1, <1>2 DEF IsString, IsTable, o, r

DueTyped ==
  \A t \in Threads :
    Due(t) \in Answers /\ Due(t) # NoReply /\ dueBar[t] \in Answers \cup {NoReply}

LEMMA DueType == IInv => DueTyped
<1> SUFFICES ASSUME IInv, NEW t \in Threads
             PROVE  /\ Due(t) \in Answers /\ Due(t) # NoReply
                    /\ dueBar[t] \in Answers \cup {NoReply}
  BY DEF DueTyped
<1>1. /\ outcome[t] \in OutcomeType \cup {NoOutcome}
      /\ 422 \in Described /\ 500 \in Described
  BY DEF IInv, TypeOK, Described
<1>2. \A c \in Nat : StatusLine(c) \in Described \cup {EmptyLine}
  BY DEF StatusLine
<1>3. outcome[t].ends \notin {"raise", "value", "none"} =>
        /\ Result(outcome[t]).code \in Nat
        /\ Result(outcome[t]).content \in ResultContents
  BY <1>1, ResultType DEF OutcomeType, NoOutcome
<1>4. Due(t) \in Answers
  BY <1>1, <1>2, <1>3, DueCases DEF Answers, IsString, IsTable
<1>5. NoReply \notin Answers
  BY DEF NoReply, Answers
<1> QED
  BY <1>4, <1>5 DEF dueBar

LEMMA DueTypeNext == IInv' => DueTyped'
BY DueType, PTL

-------------------------------------------------------------------------------
(* What a step shows the client. *)

LEMMA Unseen ==
  ASSUME UNCHANGED <<phase, service, request, outcome, written, height>>
  PROVE  UNCHANGED SR!vars
<1>1. /\ \A t \in Threads : Risky(t)' <=> Risky(t)
      /\ \A t \in Threads : (Rejected(t)' <=> Rejected(t)) /\ Due(t)' = Due(t)
  BY DEF Risky, Outgrows, BreaksContract, Lost, Rejected, Due
<1>2. openBar' = openBar
  BY DEF openBar
<1>3. riskyBar' = riskyBar
  BY <1>1 DEF riskyBar
<1>4. dueBar' = dueBar
  BY <1>1 DEF dueBar
<1> QED
  BY <1>2, <1>3, <1>4 DEF SR!vars

(* The process ends: only with a risky request. *)
LEMMA LeaveStops ==
  ASSUME IInv, IInv', phase = "running", phase' # "running",
         UNCHANGED <<service, request, outcome, written, height>>
  PROVE  SR!Next
<1>1. /\ \A t \in Threads : Risky(t)' <=> Risky(t)
      /\ \A t \in Threads : (Rejected(t)' <=> Rejected(t)) /\ Due(t)' = Due(t)
  BY DEF Risky, Outgrows, BreaksContract, Lost, Rejected, Due
<1>2. openBar' = openBar
  BY DEF openBar
<1>3. riskyBar' = riskyBar /\ riskyBar # {}
  <2>1. PICK t \in Threads : Risky(t)'
    BY DEF IInv, ServerSurvives
  <2> QED
    BY <1>1, <2>1 DEF riskyBar
<1>4. dueBar' = dueBar
  BY <1>1 DEF dueBar
<1> QED
  BY <1>2, <1>3, <1>4 DEF SR!Stop, SR!Next

(* What the others get is as it was. *)
LEMMA OthersKeepDue ==
  ASSUME NEW t \in Threads, service' = service, \A u \in Threads \ {t} : Still(u)
  PROVE  /\ \A u \in Threads \ {t} : dueBar'[u] = dueBar[u]
         /\ riskyBar' = IF Risky(t)' THEN riskyBar \cup {t} ELSE riskyBar \ {t}
<1>1. \A u \in Threads \ {t} :
        /\ Risky(u)' <=> Risky(u)
        /\ Rejected(u)' <=> Rejected(u)
        /\ Due(u)' = Due(u) /\ outcome'[u] = outcome[u]
  BY StillKeepsDue DEF Still
<1>2. \A u \in Threads \ {t} : dueBar'[u] = dueBar[u]
  BY <1>1 DEF dueBar
<1>3. riskyBar' = IF Risky(t)' THEN riskyBar \cup {t} ELSE riskyBar \ {t}
  BY <1>1 DEF riskyBar
<1> QED
  BY <1>2, <1>3

LEMMA DispatchArrives ==
  ASSUME JInv, IInv', NEW t \in Threads, NEW b \in Bodies, Dispatch(t, b),
         service' = service, \A u \in Threads \ {t} : Still(u)
  PROVE  DueInv(t)' /\ SR!Next
<1>1. /\ request[t] = NoBody /\ outcome[t] = NoOutcome /\ pc[t] = "idle" /\ TypeOK
      /\ request' = [request EXCEPT ![t] = b] /\ pc' = [pc EXCEPT ![t] = "body"]
      /\ outcome' = outcome /\ written' = written /\ phase = "running" /\ phase' = phase
  BY DEF JInv, IInv, FlowInv, IdleInv, Dispatch, Goto, At
<1>2. request'[t] = b /\ pc'[t] = "body" /\ b # NoBody /\ \A u \in Threads \ {t} : request'[u] = request[u]
  <2>1. b.json # "none"
    BY InputAssumption DEF BodyType
  <2>2. b # NoBody
    BY <2>1 DEF NoBody
  <2> QED
    BY <1>1, <2>2 DEF TypeOK
<1>3. DueInv(t)'
  BY <1>2 DEF DueInv
<1>4. t \notin openBar /\ openBar' = openBar \cup {t}
  BY <1>1, <1>2 DEF openBar
<1>5. t \notin riskyBar /\ riskyBar' \in {riskyBar, riskyBar \cup {t}}
  <2>1. ~Risky(t)
    BY <1>1 DEF Risky, Outgrows, BreaksContract, Lost, NoBody, NoOutcome
  <2> QED
    BY <2>1, OthersKeepDue DEF riskyBar
<1>6. /\ dueBar' \in [Threads -> Answers \cup {NoReply}]
      /\ \A u \in Threads \ {t} : dueBar'[u] = dueBar[u]
  <2>1. \A u \in Threads : dueBar'[u] \in Answers \cup {NoReply}
    BY DueTypeNext DEF DueTyped
  <2> QED
    BY <2>1, OthersKeepDue DEF dueBar
<1>7. SR!Arrive(t)
  BY <1>1, <1>4, <1>5, <1>6 DEF SR!Arrive, SR!SettleOnly, SR!MayBeRisky
<1> QED
  BY <1>3, <1>7 DEF SR!Next

(* onRequest is done with the request, and that decides the answer. *)
LEMMA OutcomeSettles ==
  ASSUME JInv, IInv', NEW t \in Threads, pc[t] = "call",
         NEW o, o # NoOutcome, outcome' = [outcome EXCEPT ![t] = o],
         UNCHANGED <<phase, request, written, height>>, phase = "running",
         service' = service, \A u \in Threads \ {t} : Still(u)
  PROVE  SR!Next
<1>1. /\ request[t] \in Bodies /\ request[t] # NoBody /\ outcome[t] = NoOutcome /\ TypeOK
      /\ ~Rejected(t)
  BY InputAssumption DEF JInv, IInv, FlowInv, BuildInv, DueInv, BodyType, NoBody
<1>2. outcome'[t] = o
  BY <1>1 DEF TypeOK
<1>3. t \in openBar /\ openBar' = openBar
  BY <1>1 DEF openBar
<1>4. riskyBar' \in {riskyBar, riskyBar \cup {t}}
  <2>1. BreaksContract(t) => BreaksContract(t)'
    BY <1>1 DEF BreaksContract, Lost, NoOutcome
  <2>2. height[t] \in Nat /\ Slots \in Nat
    BY <1>1, InputAssumption DEF TypeOK
  <2>3. Outgrows(t) => Outgrows(t)'
    BY <1>1, <2>2 DEF Outgrows, NoOutcome
  <2> QED
    BY <2>1, <2>3, OthersKeepDue DEF riskyBar, Risky
<1>5. /\ dueBar' \in [Threads -> Answers \cup {NoReply}]
      /\ \A u \in Threads \ {t} : dueBar'[u] = dueBar[u]
  <2>1. \A u \in Threads : dueBar'[u] \in Answers \cup {NoReply}
    BY DueTypeNext DEF DueTyped
  <2> QED
    BY <2>1, OthersKeepDue DEF dueBar
<1>6. dueBar[t] = NoReply /\ dueBar'[t] # NoReply
  <2>1. Due(t)' # NoReply
    BY DueTypeNext DEF DueTyped
  <2> QED
    BY <1>1, <1>2, <2>1 DEF dueBar
<1>7. SR!Settle(t)
  BY <1>3, <1>4, <1>5, <1>6 DEF SR!Settle, SR!SettleOnly, SR!MayBeRisky
<1> QED
  BY <1>7 DEF SR!Next

(* Every branch chooses the answer that is due; the client sees nothing yet. *)
LEMMA ChoosesDue ==
  ASSUME JInv, NEW t \in Threads, pc[t] \in {"body", "call", "returned"},
         UNCHANGED <<service, request>>, NEW status \in Nat, NEW content,
         Answer(t, status, content, 1),
         Due(t)' = [status |-> StatusLine(status), content |-> content],
         outcome'[t] = NoOutcome => Rejected(t)
  PROVE  DueInv(t)'
<1>1. /\ pc'[t] = "answer" /\ request[t] \in Bodies
      /\ answer'[t].status = status /\ answer'[t].content = content
  BY DEF JInv, IInv, TypeOK, DueInv, Answer, Goto
<1>2. Rejected(t)' <=> Rejected(t)
  BY DEF Rejected
<1> QED
  BY <1>1, <1>2 DEF DueInv

LEMMA RejectBodyDue ==
  ASSUME JInv, NEW t \in Threads, RejectBody(t)
  PROVE  DueInv(t)' /\ UNCHANGED SR!vars
<1>1. /\ pc[t] = "body" /\ Rejected(t) /\ Answer(t, 422, "text", 1) /\ 422 \in Nat
      /\ UNCHANGED <<phase, service, request, outcome, written, height>>
      /\ outcome[t] \in OutcomeType \cup {NoOutcome}
  BY DEF RejectBody, Rejected, At, JInv, IInv, TypeOK
<1>2. Due(t)' = Due(t)
  BY <1>1 DEF Due, Rejected
<1>3. StatusLine(422) = 422
  BY DEF StatusLine, Described
<1>4. Due(t)' = [status |-> StatusLine(422), content |-> "text"]
  BY <1>1, <1>2, <1>3, DueCases
<1> QED
  BY <1>1, <1>4, ChoosesDue, Unseen

(* The branches that read what onRequest returned. *)
LEMMA ReturnedDue ==
  ASSUME JInv, NEW t \in Threads, Returned(t),
         UNCHANGED <<phase, service, request, outcome, written, height>>,
         NEW status \in Nat, NEW content, Answer(t, status, content, 1),
         Due(t) = [status |-> StatusLine(status), content |-> content]
  PROVE  DueInv(t)' /\ UNCHANGED SR!vars
<1>1. pc[t] = "returned" /\ outcome[t] # NoOutcome
  BY AtReturned DEF JInv, NoOutcome
<1>2. Due(t)' = Due(t)
  BY DEF Due, Rejected
<1> QED
  BY <1>1, <1>2, ChoosesDue, Unseen

LEMMA Line500 == StatusLine(500) = 500
BY DEF StatusLine, Described

AnswersReturned(t) ==
  \/ RefuseValue(t) \/ SendText(t) \/ SendEmpty(t) \/ RefuseContent(t)
  \/ SendJson(t) /\ Field(t).content # "badKeys"

LEMMA ReturnsDue ==
  ASSUME JInv, NEW t \in Threads, AnswersReturned(t)
  PROVE  DueInv(t)' /\ UNCHANGED SR!vars
<1> DEFINE r == Result(outcome[t])
<1>1. Returned(t)
  BY DEF AnswersReturned, RefuseValue, SendText, SendEmpty, RefuseContent, SendJson
<1>2. /\ ~Rejected(t) /\ outcome[t] \in OutcomeType
      /\ outcome[t].ends \notin {"raise", "none"}
  BY <1>1, AtReturned DEF JInv, DueInv
<1>3. outcome[t].ends # "value" => r.code \in Nat
  BY <1>1, ResultStatus DEF JInv
<1> HIDE DEF r
<1>4. CASE RefuseValue(t)
  <2>1. Due(t) = [status |-> StatusLine(500), content |-> "empty"]
    BY <1>2, <1>4, DueCases, Line500 DEF RefuseValue
  <2> QED
    BY <1>1, <1>4, <2>1, Code500, ReturnedDue DEF RefuseValue, GenericError
<1>5. CASE SendText(t)
  <2>1. Due(t) = [status |-> StatusLine(r.code), content |-> r.content]
    BY <1>2, <1>5, DueCases DEF SendText, Field, r
  <2> QED
    BY <1>1, <1>3, <1>5, <2>1, ReturnedDue DEF SendText, Field, r
<1>6. CASE SendEmpty(t)
  <2>1. Due(t) = [status |-> StatusLine(r.code), content |-> "empty"]
    BY <1>2, <1>6, DueCases DEF SendEmpty, Field, r
  <2> QED
    BY <1>1, <1>3, <1>6, <2>1, ReturnedDue DEF SendEmpty, Field, r
<1>7. CASE RefuseContent(t)
  <2>1. Due(t) = [status |-> StatusLine(500), content |-> "empty"]
    BY <1>2, <1>7, DueCases, Line500 DEF RefuseContent, Field
  <2> QED
    BY <1>1, <1>7, <2>1, Code500, ReturnedDue DEF RefuseContent, GenericError
<1>8. CASE SendJson(t) /\ Field(t).content # "badKeys"
  <2>1. Due(t) = [status |-> StatusLine(r.code), content |-> "json"]
    BY <1>2, <1>8, DueCases DEF SendJson, Field, r
  <2> QED
    BY <1>1, <1>3, <1>8, <2>1, ReturnedDue DEF SendJson, Field, r
<1> QED
  BY <1>4, <1>5, <1>6, <1>7, <1>8 DEF AnswersReturned

(* The three ways out of lua_mypcall. *)
LEMMA CallSettles ==
  ASSUME JInv, IInv', NEW t \in Threads,
         (\E o \in Outcomes : CallReturns(t, o) \/ CallRaises(t, o)) \/ CallNoFunction(t),
         service' = service, \A u \in Threads \ {t} : Still(u)
  PROVE  DueInv(t)' /\ SR!Next
<1> DEFINE message == [ends |-> "raise", code |-> 0, arg |-> "text", room |-> 0]
<1>1. PICK o \in OutcomeType :
        /\ outcome' = [outcome EXCEPT ![t] = o]
        /\ \/ o.ends # "raise" /\ Goto(t, "returned")
           \/ o.ends = "raise" /\ Answer(t, 500, "empty", 1)
  <2>1. message \in OutcomeType /\ message.ends = "raise"
    BY DEF OutcomeType
  <2>2. CASE CallNoFunction(t)
    <3> HIDE DEF message
    <3>1. outcome' = [outcome EXCEPT ![t] = message] /\ Answer(t, 500, "empty", 1)
      BY <2>2 DEF CallNoFunction, GenericError, message
    <3> QED
      BY <2>1, <3>1
  <2>3. CASE \E o \in Outcomes : CallReturns(t, o) \/ CallRaises(t, o)
    BY <2>3, InputAssumption DEF CallReturns, CallRaises, GenericError
  <2> QED
    BY <2>2, <2>3
<1>2. /\ phase = "running" /\ pc[t] = "call" /\ ~Rejected(t) /\ TypeOK /\ request[t] \in Bodies
      /\ UNCHANGED <<phase, request, written, height>>
  BY DEF JInv, IInv, DueInv, CallReturns, CallRaises, CallNoFunction, At
<1>3. o # NoOutcome /\ outcome'[t] = o /\ (Rejected(t)' <=> Rejected(t))
  BY <1>1, <1>2 DEF TypeOK, OutcomeType, NoOutcome, Rejected
<1>4. DueInv(t)'
  <2>1. CASE o.ends # "raise" /\ Goto(t, "returned")
    BY <1>2, <1>3, <2>1 DEF DueInv, Goto, TypeOK
  <2>2. CASE o.ends = "raise" /\ Answer(t, 500, "empty", 1)
    <3>1. Due(t)' = [status |-> 500, content |-> "empty"]
      BY <1>2, <1>3, <2>2 DEF Due
    <3> QED
      BY <1>2, <1>3, <2>2, <3>1, Line500, Code500, ChoosesDue
  <2> QED
    BY <1>1, <2>1, <2>2
<1>5. SR!Next
  BY <1>1, <1>2, <1>3, OutcomeSettles
<1> QED
  BY <1>4, <1>5

LEMMA WriteReplies ==
  ASSUME JInv, NEW t \in Threads, WriteAnswer(t)
  PROVE  DueInv(t)' /\ SR!Next
<1>1. /\ TypeOK /\ FlowInv(t) /\ DueInv(t) /\ pc[t] = "status" /\ phase = "running"
      /\ pc' = [pc EXCEPT ![t] = "finish"]
      /\ UNCHANGED <<phase, service, request, outcome, answer, height>>
  BY DEF JInv, IInv, WriteAnswer, Goto, At
<1>2. written[t] = <<>>
  BY <1>1 DEF FlowInv, WrittenInv
<1>3. /\ Due(t) = [status |-> StatusLine(answer[t].status), content |-> answer[t].content]
      /\ outcome[t] = NoOutcome => Rejected(t)
      /\ request[t] \in Bodies
  BY <1>1 DEF DueInv
<1>4. written' = [written EXCEPT ![t] = <<Due(t)>>]
  BY <1>2, <1>3 DEF WriteAnswer
<1>5. Due(t)' = Due(t) /\ (Rejected(t)' <=> Rejected(t))
  BY <1>1 DEF Due, Rejected
<1>6. DueInv(t)'
  BY <1>1, <1>3, <1>4, <1>5 DEF DueInv, TypeOK
<1>7. /\ \A u \in Threads : Risky(u)' <=> Risky(u)
      /\ \A u \in Threads : (Rejected(u)' <=> Rejected(u)) /\ Due(u)' = Due(u)
  BY <1>1 DEF Risky, Outgrows, BreaksContract, Lost, Rejected, Due
<1>8. UNCHANGED <<openBar, riskyBar, dueBar>>
  BY <1>1, <1>7 DEF openBar, riskyBar, dueBar
<1>9. dueBar[t] = Due(t) /\ dueBar[t] # NoReply
  BY <1>3, DueType DEF dueBar, JInv, DueTyped
<1>10. SR!Reply(t)
  BY <1>1, <1>2, <1>4, <1>8, <1>9 DEF SR!Reply
<1> QED
  BY <1>6, <1>10 DEF SR!Next

LEMMA FinishDeparts ==
  ASSUME JInv, NEW t \in Threads, Finish(t), \A u \in Threads \ {t} : Still(u)
  PROVE  DueInv(t)' /\ SR!Next
<1>1. /\ TypeOK /\ FlowInv(t) /\ pc[t] = "finish" /\ phase = "running" /\ phase' = phase
      /\ service' = service /\ pc' = [pc EXCEPT ![t] = "idle"]
      /\ request' = [request EXCEPT ![t] = NoBody]
      /\ outcome' = [outcome EXCEPT ![t] = NoOutcome]
      /\ written' = [written EXCEPT ![t] = <<>>]
  BY DEF JInv, IInv, Finish, Goto, At
<1>2. /\ pc'[t] = "idle" /\ request'[t] = NoBody /\ outcome'[t] = NoOutcome
      /\ \A u \in Threads \ {t} : request'[u] = request[u]
  BY <1>1 DEF TypeOK
<1>3. DueInv(t)'
  BY <1>2 DEF DueInv
<1>4. openBar' = openBar \ {t}
  BY <1>2 DEF openBar
<1>5. riskyBar' = riskyBar \ {t}
  <2>1. ~Risky(t)'
    BY <1>2 DEF Risky, Outgrows, BreaksContract, Lost, NoBody, NoOutcome
  <2> QED
    BY <1>1, <2>1, OthersKeepDue
<1>6. dueBar' = [dueBar EXCEPT ![t] = NoReply]
  <2>1. dueBar'[t] = NoReply
    BY <1>2 DEF dueBar, Rejected, NoBody
  <2>2. \A u \in Threads \ {t} : dueBar'[u] = dueBar[u]
    BY <1>1, OthersKeepDue
  <2> QED
    BY <2>1, <2>2 DEF dueBar
<1>7. written[t] # <<>>
  BY <1>1, EmptySeq DEF FlowInv, WrittenInv
<1>8. SR!Depart(t)
  BY <1>1, <1>4, <1>5, <1>6, <1>7 DEF SR!Depart
<1> QED
  BY <1>3, <1>8 DEF SR!Next

-------------------------------------------------------------------------------
LEMMA InitReplies == Init => JInv /\ SR!Init
<1> SUFFICES ASSUME Init PROVE JInv /\ SR!Init
  OBVIOUS
<1>1. \A t \in Threads : DueInv(t)
  BY DEF Init, DueInv
<1>2. \A t \in Threads : request[t] = NoBody /\ outcome[t] = NoOutcome
  BY DEF Init
<1>3. \A t \in Threads : ~Risky(t) /\ ~Rejected(t)
  BY <1>2 DEF Risky, Outgrows, BreaksContract, Lost, Rejected, NoBody, NoOutcome
<1>4. openBar = {} /\ riskyBar = {} /\ dueBar = [t \in Threads |-> NoReply]
  BY <1>2, <1>3 DEF openBar, riskyBar, dueBar
<1>5. phase = "running" /\ written = [t \in Threads |-> <<>>]
  BY DEF Init
<1> QED
  BY <1>1, <1>4, <1>5, InitIInv DEF JInv, SR!Init

(* A step of the handler settles, sends or ends a request, stops the        *)
(* server, or is not seen.                                                  *)
LEMMA StepReplies ==
  ASSUME JInv, IInv', [Next]_vars
  PROVE  (\A u \in Threads : DueInv(u)') /\ [SR!Next]_(SR!vars)
<1>1. ASSUME NEW t \in Threads, Step(t)
      PROVE  (\A u \in Threads : DueInv(u)') /\ [SR!Next]_(SR!vars)
  <2>1. /\ phase = "running" /\ service' = service /\ \A u \in Threads \ {t} : Still(u)
        /\ phase' # "running" =>
             UNCHANGED <<stack, pc, request, outcome, answer, written, height>>
    BY <1>1, OthersStill DEF JInv
  <2>2. CASE phase' # "running"
    <3>1. \A u \in Threads : Still(u)
      BY <2>1, <2>2 DEF Still
    <3>2. \A u \in Threads : DueInv(u)'
      BY <2>1, <3>1, StillKeepsDue DEF JInv
    <3> QED
      BY <2>1, <2>2, <3>2, LeaveStops DEF JInv
  <2>3. CASE phase' = "running"
    <3>1. DueInv(t)' /\ [SR!Next]_(SR!vars)
      <4>1. CASE \E b \in Bodies : Dispatch(t, b)
        BY <2>1, <4>1, DispatchArrives
      <4>2. CASE PushPlain(t) \/ PushJson(t)
        <5>1. /\ pc[t] = "body" /\ pc' = [pc EXCEPT ![t] = "call"] /\ ~Rejected(t)
              /\ UNCHANGED <<phase, service, request, outcome, written, height>>
          BY <4>2 DEF PushPlain, PushJson, Rejected, Goto, At
        <5>2. DueInv(t)'
          BY <5>1 DEF JInv, IInv, TypeOK, DueInv, Rejected
        <5> QED
          BY <5>1, <5>2, Unseen
      <4>3. CASE RejectBody(t)
        BY <4>3, RejectBodyDue
      <4>4. CASE (\E o \in Outcomes : CallReturns(t, o) \/ CallRaises(t, o)) \/ CallNoFunction(t)
        BY <2>1, <4>4, CallSettles
      <4>5. CASE AnswersReturned(t)
        BY <4>5, ReturnsDue
      <4>6. CASE LookupStatus(t)
        <5>1. /\ pc[t] = "answer" /\ pc' = [pc EXCEPT ![t] = "status"]
              /\ UNCHANGED <<phase, service, request, outcome, answer, written, height>>
          BY <4>6 DEF LookupStatus, Goto, At
        <5>2. Due(t)' = Due(t) /\ (Rejected(t)' <=> Rejected(t))
          BY <5>1 DEF Due, Rejected
        <5>3. DueInv(t)'
          BY <5>1, <5>2 DEF JInv, IInv, TypeOK, DueInv
        <5> QED
          BY <5>1, <5>3, Unseen
      <4>7. CASE WriteAnswer(t)
        BY <4>7, WriteReplies
      <4>8. CASE Finish(t)
        BY <2>1, <4>8, FinishDeparts
      <4>9. CASE \/ PushJsonPanics(t) \/ PushJsonUndefined(t) \/ CallUndefined(t)
                 \/ LookupRace(t) \/ ReportPanics(t) \/ Overflow(t)
                 \/ SendJson(t) /\ Field(t).content = "badKeys"
        BY <2>3, <4>9 DEF PushJsonPanics, PushJsonUndefined, CallUndefined, LookupRace,
           ReportPanics, Overflow, SendJson, Leave
      <4> QED
        BY <1>1, <4>1, <4>2, <4>3, <4>4, <4>5, <4>6, <4>7, <4>8, <4>9
           DEF Step, Handler, AnswersReturned
    <3>2. \A u \in Threads \ {t} : DueInv(u)'
      BY <2>1, StillKeepsDue DEF JInv
    <3> QED
      BY <3>1, <3>2
  <2> QED
    BY <2>2, <2>3
<1>2. CASE UNCHANGED vars
  <2>1. \A u \in Threads : Still(u)
    BY <1>2 DEF vars, threadVars, Still
  <2>2. \A u \in Threads : DueInv(u)'
    BY <1>2, <2>1, StillKeepsDue DEF JInv, vars
  <2>3. UNCHANGED SR!vars
    BY <1>2, Unseen DEF vars, threadVars
  <2> QED
    BY <2>2, <2>3
<1> QED
  BY <1>1, <1>2 DEF Next, Step

(* At each label it is known whether the answer that is due is settled, and *)
(* the answer chosen and the one written are that one.                      *)
THEOREM DueIsChosen == Spec => []JInv
<1>1. ASSUME JInv, [Next]_vars PROVE JInv'
  <2>1. IInv'
    BY <1>1, StepKeepsIInv DEF JInv
  <2> QED
    BY <1>1, <2>1, StepReplies DEF JInv
<1>2. Init => JInv
  BY InitReplies
<1> QED
  BY <1>1, <1>2, PTL DEF Spec

(* The handler implements ServiceReplies: every request gets exactly the    *)
(* answer its own body and its own script make due, once, whatever other    *)
(* requests left on the stack or do to the map of status lines; and the     *)
(* process stops only while a request in flight breaks the contract or does *)
(* not find the slots it needs.                                             *)
THEOREM ImplementsServiceReplies == Spec => SRSpec
<1>1. JInv /\ JInv' /\ [Next]_vars => [SR!Next]_(SR!vars)
  BY StepReplies DEF JInv
<1>2. Init => SR!Init
  BY InitReplies
<1> QED
  BY <1>1, <1>2, DueIsChosen, PTL DEF Spec, SRSpec, SR!Spec

===============================================================================
