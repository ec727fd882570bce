---------------------------- MODULE ServiceReplies ----------------------------
(***************************************************************************)
(* What a service promises its clients: every request gets one answer, the *)
(* one that is due for it; what is due is settled once, and nothing that   *)
(* happens to other requests, before or meanwhile, changes it; the server  *)
(* stops only while it handles a request that is known to be risky.        *)
(*                                                                         *)
(* RequestHandler, which models the Lua stack, the call of onRequest, the  *)
(* branches that choose an answer and the shared map of status lines,      *)
(* implements this specification.                                          *)
(***************************************************************************)

CONSTANTS
  Threads,      (* the threads of the server                              *)
  Answers,      (* what can be sent to a client                           *)
  None          (* no answer                                              *)

VARIABLES
  up,           (* whether the server runs                                *)
  open,         (* the threads that handle a request                      *)
  risky,        (* those of them whose request may stop the server        *)
  due,          (* due[t]: the answer its request must get, once settled  *)
  sent          (* sent[t]: what was sent for it                          *)

vars == <<up, open, risky, due, sent>>

Init ==
  /\ up = TRUE
  /\ open = {} /\ risky = {}
  /\ due = [t \in Threads |-> None]
  /\ sent = [t \in Threads |-> <<>>]

MayBeRisky(t) == risky' \in {risky, risky \cup {t}}

(* What is due for the other requests stays as it is. *)
SettleOnly(t) ==
  /\ due' \in [Threads -> Answers \cup {None}]
  /\ \A u \in Threads \ {t} : due'[u] = due[u]

(* A request comes in; some are settled without asking the script. *)
Arrive(t) ==
  /\ up /\ t \notin open
  /\ open' = open \cup {t}
  /\ MayBeRisky(t)
  /\ SettleOnly(t)
  /\ UNCHANGED <<up, sent>>

(* The script has done what it does with the request. *)
Settle(t) ==
  /\ up /\ t \in open
  /\ due[t] = None /\ due'[t] # None
  /\ SettleOnly(t)
  /\ MayBeRisky(t)
  /\ UNCHANGED <<up, open, sent>>

Reply(t) ==
  /\ up /\ due[t] # None /\ sent[t] = <<>>
  /\ sent' = [sent EXCEPT ![t] = <<due[t]>>]
  /\ UNCHANGED <<up, open, risky, due>>

Depart(t) ==
  /\ up /\ sent[t] # <<>>
  /\ open' = open \ {t} /\ risky' = risky \ {t}
  /\ due' = [due EXCEPT ![t] = None]
  /\ sent' = [sent EXCEPT ![t] = <<>>]
  /\ UNCHANGED up

Stop ==
  /\ up /\ risky # {}
  /\ up' = FALSE
  /\ UNCHANGED <<open, risky, due, sent>>

Next ==
  \/ \E t \in Threads : Arrive(t) \/ Settle(t) \/ Reply(t) \/ Depart(t)
  \/ Stop

Spec == Init /\ [][Next]_vars

===============================================================================
