------------------------------ MODULE SslKeysProofs ------------------------------
(***************************************************************************)
(* Proofs about SslKeys, for any number of keys and RSA objects.           *)
(***************************************************************************)
EXTENDS SslKeys, TLAPS

(* What close and __gc do to a key that was read: its object, if it has    *)
(* one, goes, and no other key had it.                                     *)
LEMMA FreeStep ==
  ASSUME IInv, NEW k \in Keys, NEW null \in {None, Null}, Free(k, null),
         k # fresh, null = None => k \notin reachable,
         rsa[k] # None,
         UNCHANGED <<reachable, fresh>>, phase = "running"
  PROVE  IInv'
<1>1. /\ rsa' = [rsa EXCEPT ![k] = null] /\ live' = live \ {rsa[k]} /\ phase' = phase
      /\ reachable' = reachable /\ fresh' = fresh /\ culprit' = culprit
  BY DEF Free, outcomeVars
<1>2. null \notin Rsas /\ null # Garbage
  BY KeysAssumption
<1>3. \A l \in Keys : rsa'[l] = IF l = k THEN null ELSE rsa[l]
  BY <1>1 DEF IInv, TypeOK
<1>4. TypeOK' /\ FreedOnce'
  BY <1>1 DEF IInv, TypeOK, FreedOnce
<1>5. NothingLeaks'
  BY <1>1, <1>2, <1>3 DEF IInv, NothingLeaks, TypeOK
<1>6. \A l \in Keys :
        /\ rsa'[l] \in Rsas => rsa'[l] \in live'
        /\ rsa'[l] = Garbage => l = fresh' \/ l \notin reachable'
  BY <1>1, <1>2, <1>3 DEF IInv, NothingLeaks, TypeOK
<1>7. reachable' \subseteq {l \in Keys : rsa'[l] # None}
  BY <1>1, <1>3, KeysAssumption DEF IInv
<1>8. fresh' # None => fresh' \in reachable' /\ rsa'[fresh'] = Garbage
  BY <1>1, <1>3 DEF IInv, TypeOK
<1> QED BY <1>4, <1>5, <1>6, <1>7, <1>8 DEF IInv

(* What is undefined happens to the keys FreedOnce names. *)
LEMMA UndefinedStep ==
  ASSUME IInv, NEW k \in Keys, culprit' = k,
         \/ phase' = "badFree" /\ rsa[k] = Garbage
         \/ phase' = "badUse" /\ rsa[k] = Null
         \/ phase' = "badDecode",
         UNCHANGED <<rsa, live, reachable, fresh>>
  PROVE  IInv'
BY DEF IInv, TypeOK, FreedOnce, NothingLeaks

LEMMA NewKeyStep ==
  ASSUME IInv, phase = "running",
               \/ \E k \in Keys : NewUserdata(k)
               \/ NoString \/ ReadNoKey \/ \E r \in Rsas : ReadKey(r)
  PROVE  IInv'
<1>1. ASSUME NEW k \in Keys, NewUserdata(k) PROVE IInv'
  <2>1. \A l \in Keys : rsa'[l] = IF l = k THEN Garbage ELSE rsa[l]
    BY <1>1 DEF NewUserdata, outcomeVars, IInv, TypeOK
  <2>2. TypeOK' /\ FreedOnce'
    BY <1>1 DEF NewUserdata, outcomeVars, IInv, TypeOK, FreedOnce
  <2>3. NothingLeaks'
    BY <1>1, <2>1, KeysAssumption DEF NewUserdata, outcomeVars, IInv, TypeOK, NothingLeaks
  <2> QED BY <1>1, <2>1, <2>2, <2>3, KeysAssumption DEF NewUserdata, outcomeVars, IInv, TypeOK
<1>2. ASSUME NoString PROVE IInv'
  BY <1>2 DEF NoString, outcomeVars, IInv, TypeOK, FreedOnce, NothingLeaks
<1>3. ASSUME ReadNoKey PROVE IInv'
  <2>1. fresh \in Keys /\ rsa[fresh] = Garbage
    BY <1>3 DEF ReadNoKey, outcomeVars, IInv, TypeOK
  <2>2. \A l \in Keys : rsa'[l] = IF l = fresh THEN Null ELSE rsa[l]
    BY <1>3, <2>1 DEF ReadNoKey, outcomeVars, IInv, TypeOK
  <2>3. TypeOK' /\ FreedOnce'
    BY <1>3 DEF ReadNoKey, outcomeVars, IInv, TypeOK, FreedOnce
  <2>4. NothingLeaks'
    BY <1>3, <2>1, <2>2, KeysAssumption DEF ReadNoKey, outcomeVars, IInv, TypeOK, NothingLeaks
  <2> QED BY <1>3, <2>1, <2>2, <2>3, <2>4, KeysAssumption DEF ReadNoKey, outcomeVars, IInv, TypeOK
<1>4. ASSUME NEW r \in Rsas, ReadKey(r) PROVE IInv'
  <2>1. fresh \in Keys /\ rsa[fresh] = Garbage /\ fresh \in reachable
    BY <1>4 DEF ReadKey, outcomeVars, IInv, TypeOK
  <2>2. \A l \in Keys : rsa'[l] = IF l = fresh THEN r ELSE rsa[l]
    BY <1>4, <2>1 DEF ReadKey, outcomeVars, IInv, TypeOK
  <2>3. TypeOK' /\ FreedOnce'
    BY <1>4 DEF ReadKey, outcomeVars, IInv, TypeOK, FreedOnce
  <2>4. NothingLeaks'
    BY <1>4, <2>1, <2>2, KeysAssumption DEF ReadKey, outcomeVars, IInv, TypeOK, NothingLeaks
  <2> QED BY <1>4, <2>1, <2>2, <2>3, <2>4, KeysAssumption DEF ReadKey, outcomeVars, IInv, TypeOK
<1> QED BY <1>1, <1>2, <1>3, <1>4

LEMMA OldKeyStep ==
  ASSUME IInv, phase = "running", NEW k \in Keys,
         Close(k) \/ Collect(k) \/ Drop(k) \/ VerifyUndefined(k) \/ VerifyShort(k)
  PROVE  IInv'
<1>1. CASE Close(k)
  <2>1. k \in reachable /\ k # fresh /\ rsa[k] # None /\ rsa[k] \in live \cup {Null}
    BY <1>1, KeysAssumption DEF Close, IInv, TypeOK
  <2>2. Free(k, Null) /\ UNCHANGED <<reachable, fresh>>
    BY <1>1, <2>1 DEF Close, FreeUndefined
  <2>3. Null # None
    BY KeysAssumption
  <2> QED BY <2>1, <2>2, <2>3, FreeStep
<1>2. CASE Collect(k)
  <2>1. k \notin reachable /\ k # fresh /\ rsa[k] # None
    BY <1>2, KeysAssumption DEF Collect, IInv, TypeOK
  <2>2. CASE Free(k, None)
    BY <1>2, <2>1, <2>2, FreeStep DEF Collect
  <2>3. CASE FreeUndefined(k)
    <3>1. rsa[k] = Garbage
      BY <2>1, <2>3 DEF FreeUndefined, IInv, TypeOK
    <3> QED BY <1>2, <2>3, <3>1, UndefinedStep DEF Collect, FreeUndefined, IInv, TypeOK
  <2> QED BY <1>2, <2>2, <2>3 DEF Collect
<1>3. CASE Drop(k)
  BY <1>3 DEF Drop, outcomeVars, IInv, TypeOK, FreedOnce, NothingLeaks
<1>4. CASE VerifyUndefined(k)
  <2>1. rsa[k] = Null
    BY <1>4, KeysAssumption DEF VerifyUndefined, IInv, TypeOK
  <2> QED BY <1>4, <2>1, UndefinedStep DEF VerifyUndefined
<1>5. CASE VerifyShort(k)
  BY <1>5, UndefinedStep DEF VerifyShort
<1> QED BY <1>1, <1>2, <1>3, <1>4, <1>5

(* The inductive invariant: a key's field is NULL, an object of its own,   *)
(* or, while it is made or after an error in between, garbage.             *)
THEOREM Invariance == Spec => []IInv
<1>1. Init => IInv
  BY KeysAssumption DEF Init, IInv, TypeOK, FreedOnce, NothingLeaks
<1>2. IInv /\ [Next]_vars => IInv'
  <2> SUFFICES ASSUME IInv, [Next]_vars PROVE IInv'
    OBVIOUS
  <2>1. CASE Next
    BY <2>1, NewKeyStep, OldKeyStep DEF Next
  <2>2. CASE UNCHANGED vars
    BY <2>2 DEF vars, outcomeVars, IInv, TypeOK, FreedOnce, NothingLeaks
  <2> QED BY <2>1, <2>2
<1> QED BY <1>1, <1>2, PTL DEF Spec

(* Neither close nor the collector frees a key again, frees another's or    *)
(* frees one that is still open to verify; a userdata that was never        *)
(* written and a key that was closed are the only ones treated wrongly.     *)
THEOREM FreesOnce == Spec => []FreedOnce
<1>1. IInv => FreedOnce
  BY DEF IInv
<1> QED BY <1>1, Invariance, PTL

(* An allocated RSA object is the one of exactly one key. *)
THEOREM LeaksNothing == Spec => []NothingLeaks
<1>1. IInv => NothingLeaks
  BY DEF IInv
<1> QED BY <1>1, Invariance, PTL

===============================================================================
