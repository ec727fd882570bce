-------------------------------- MODULE SslKeys --------------------------------
(***************************************************************************)
(* The public keys of the ssl plugin in one Lua state: newPublicKey, close *)
(* and verify, and the collector, which calls the same function as close.  *)
(* A userdata gets its metatable, with __gc, before its field rsa is set,  *)
(* and luaL_checkstring may raise an error in between.                     *)
(*                                                                         *)
(* OpenSSL and the collector are external.  An RSA object may be allocated *)
(* where a freed one was; to free or use one that is not allocated has no  *)
(* meaning.                                                                *)
(***************************************************************************)
CONSTANTS
  Keys,      (* the userdata the state may hold at once                     *)
  Rsas,      (* the places RSA objects are allocated at                     *)
  None,      (* no such userdata                                            *)
  Null,      (* its rsa is NULL                                             *)
  Garbage    (* its rsa was never written                                   *)

ASSUME KeysAssumption ==
  /\ {None, Null, Garbage} \cap Rsas = {} /\ None \notin Keys
  /\ None # Null /\ None # Garbage /\ Null # Garbage

VARIABLES
  rsa,         (* the field rsa of every key                                *)
  live,        (* the RSA objects that are allocated                        *)
  reachable,   (* the keys the script, or a running C function, can reach   *)
  fresh,       (* the userdata newPublicKey has just made, or None          *)
  phase,       (* "running", or what was done that has no meaning: a free,  *)
               (* a use, or a decoding of base64                            *)
  culprit      (* auxiliary: the key it was done with                       *)

outcomeVars == <<phase, culprit>>
vars == <<rsa, live, reachable, fresh, outcomeVars>>

Init ==
  /\ rsa = [k \in Keys |-> None]
  /\ live = {}
  /\ reachable = {}
  /\ fresh = None
  /\ phase = "running" /\ culprit = None

-------------------------------------------------------------------------------
(* newPublicKey *)

(* lua_newuserdata and luaL_setmetatable *)
NewUserdata(k) ==
  /\ fresh = None /\ rsa[k] = None
  /\ rsa' = [rsa EXCEPT ![k] = Garbage]
  /\ reachable' = reachable \cup {k}
  /\ fresh' = k
  /\ UNCHANGED <<live, outcomeVars>>

(* luaL_checkstring raises an error; only the collector will see the key. *)
NoString ==
  /\ fresh # None
  /\ reachable' = reachable \ {fresh}
  /\ fresh' = None
  /\ UNCHANGED <<rsa, live, outcomeVars>>

ReadKey(r) ==
  /\ fresh # None /\ r \notin live
  /\ rsa' = [rsa EXCEPT ![fresh] = r]
  /\ live' = live \cup {r}
  /\ fresh' = None
  /\ UNCHANGED <<reachable, outcomeVars>>

(* The string holds no key: rsa stays NULL, and the script gets nil. *)
ReadNoKey ==
  /\ fresh # None
  /\ rsa' = [rsa EXCEPT ![fresh] = Null]
  /\ reachable' = reachable \ {fresh}
  /\ fresh' = None
  /\ UNCHANGED <<live, outcomeVars>>

-------------------------------------------------------------------------------
(* luassl_deletepubkey, of a key whose field is null afterwards *)

\* Mutant: Free, without the call of RSA_free.
FreeNothing(k, null) ==
  /\ rsa[k] \in live \cup {Null}
  /\ rsa' = [rsa EXCEPT ![k] = null]
  /\ UNCHANGED <<live, outcomeVars>>

\* Mutant: Free, without setting rsa to NULL.
FreeAndKeep(k, null) ==
  /\ rsa[k] \in live \cup {Null}
  /\ live' = live \ {rsa[k]}
  /\ rsa' = [rsa EXCEPT ![k] = IF null = Null THEN @ ELSE null]
  /\ UNCHANGED outcomeVars

Free(k, null) ==
  /\ rsa[k] \in live \cup {Null}
  /\ live' = live \ {rsa[k]}
  /\ rsa' = [rsa EXCEPT ![k] = null]
  /\ UNCHANGED outcomeVars

FreeUndefined(k) ==
  /\ rsa[k] \notin live \cup {Null}
  /\ phase' = "badFree" /\ culprit' = k
  /\ UNCHANGED <<rsa, live>>

Close(k) ==
  /\ fresh = None /\ k \in reachable
  /\ Free(k, Null) \/ FreeUndefined(k)
  /\ UNCHANGED <<reachable, fresh>>

(* __gc, at any allocation *)
Collect(k) ==
  /\ rsa[k] # None /\ k \notin reachable
  /\ Free(k, None) \/ FreeUndefined(k)
  /\ UNCHANGED <<reachable, fresh>>

(* The script lets go of a key. *)
Drop(k) ==
  /\ fresh = None /\ k \in reachable
  /\ reachable' = reachable \ {k}
  /\ UNCHANGED <<rsa, live, fresh, outcomeVars>>

(* verify changes nothing while the key is open, but for two cases.        *)

(* RSA_verify of a NULL or a freed key. *)
VerifyUndefined(k) ==
  /\ fresh = None /\ k \in reachable /\ rsa[k] \notin live
  /\ phase' = "badUse" /\ culprit' = k
  /\ UNCHANGED <<rsa, live, reachable, fresh>>

(* calcDecodeLength of a signature that is empty reads before it, and that  *)
(* of one that is only padding is below zero: Base64Decode writes before    *)
(* its buffer.  The key does not matter.                                   *)
VerifyShort(k) ==
  /\ fresh = None /\ k \in reachable
  /\ phase' = "badDecode" /\ culprit' = k
  /\ UNCHANGED <<rsa, live, reachable, fresh>>

-------------------------------------------------------------------------------
Next ==
  /\ phase = "running"
  /\ \/ NoString \/ ReadNoKey \/ \E r \in Rsas : ReadKey(r)
     \/ \E k \in Keys :
          NewUserdata(k) \/ Close(k) \/ Collect(k) \/ Drop(k)
          \/ VerifyUndefined(k) \/ VerifyShort(k)

Spec == Init /\ [][Next]_vars

(* The state goes on to serve requests and to allocate, so the collector   *)
(* gets to every key nobody reaches.                                       *)
FairSpec ==
  Spec /\ \A k \in Keys : WF_vars(phase = "running" /\ Collect(k))

-------------------------------------------------------------------------------
TypeOK ==
  /\ rsa \in [Keys -> Rsas \cup {None, Null, Garbage}]
  /\ live \subseteq Rsas
  /\ reachable \subseteq Keys
  /\ fresh \in Keys \cup {None}
  /\ phase \in {"running", "badFree", "badUse", "badDecode"}
  /\ culprit \in Keys \cup {None}

(* A key is freed once, by close or by the collector, whichever comes      *)
(* first and whatever has been allocated in its place since, and can be    *)
(* used until the script closes it: what is freed wrongly is a userdata    *)
(* that newPublicKey left unwritten when it raised an error, and what is   *)
(* used wrongly is a key that was closed.                                  *)
FreedOnce ==
  /\ phase = "badFree" => rsa[culprit] = Garbage
  /\ phase = "badUse" => rsa[culprit] = Null

(* Every RSA object belongs to exactly one key, so none leaks.             *)
NothingLeaks ==
  /\ \A r \in live : \E k \in Keys : rsa[k] = r
  /\ \A k, l \in Keys : rsa[k] \in Rsas /\ rsa[k] = rsa[l] => k = l

(* close is optional: the RSA object of a key nobody reaches any more is   *)
(* "released when the lua object is garbage collected", README.MD.         *)
KeysAreFreed ==
  \A k \in Keys, r \in Rsas :
    rsa[k] = r /\ k \notin reachable ~>
      (rsa[k] # r /\ r \notin live) \/ phase # "running"

(* The inductive invariant: only the userdata being made, and those left   *)
(* behind by an error, have a field that was never written.                *)
IInv ==
  /\ TypeOK /\ FreedOnce /\ NothingLeaks
  /\ \A k \in Keys :
       /\ rsa[k] \in Rsas => rsa[k] \in live
       /\ rsa[k] = Garbage => k = fresh \/ k \notin reachable
  /\ reachable \subseteq {k \in Keys : rsa[k] # None}
  /\ fresh # None => fresh \in reachable /\ rsa[fresh] = Garbage

===============================================================================
