------------------------- MODULE AgentPairingProofs -------------------------
(***************************************************************************)
(* Proofs about AuthorizedKeys and AgentPairing for any number of keys,    *)
(* goroutines, attempts and any code lifetime, checked by TLAPS.           *)
(***************************************************************************)
EXTENDS AgentPairing, TLAPS

USE KeysAssumption, PairingAssumption

-----------------------------------------------------------------------------
(* The authorised keys.                                                    *)

(* No other call is in flight beside a lone one, so the rows it read are   *)
(* still in the table when it stores them.                                 *)
LoneInv ==
  \A t \in Threads : InFlight(t) /\ alone[t] =>
    /\ \A u \in Threads : u # t => ~InFlight(u)
    /\ step[t] = "store" => rows[t] \subseteq table
    /\ step[t] = "ok" => cache \subseteq table

KeysInv == KeysTypeOK /\ LoneInv

LEMMA InitKeysInv == KeysInit => KeysInv
BY DEF KeysInit, KeysInv, KeysTypeOK, LoneInv, Calls, CallSteps, InFlight

LEMMA BeginKeysInv ==
  ASSUME KeysInv, NEW t \in Threads, NEW op \in {"add", "delete"}, NEW k \in Keys, Begin(t, op, k)
  PROVE  KeysInv'
<1>1. [op |-> op, key |-> k] \in Calls
  BY DEF Calls
<1>2. KeysTypeOK'
  BY <1>1 DEF KeysInv, KeysTypeOK, Begin, CallSteps
<1>3. LoneInv'
  BY <1>1 DEF KeysInv, KeysTypeOK, LoneInv, Begin, InFlight
<1>4. QED BY <1>2, <1>3 DEF KeysInv

LEMMA CallKeysInv ==
  ASSUME KeysInv, NEW t \in Threads, CallStep(t)
  PROVE  KeysInv'
<1> USE DEF KeysInv, KeysTypeOK, LoneInv, InFlight, Advance
<1>1. CASE Exec(t)
  <2>1. call[t] \in Calls
    BY <1>1 DEF Exec
  <2>2. call[t].key \in Keys
    BY <2>1 DEF Calls
  <2>3. QED BY <1>1, <2>2 DEF Exec, CallSteps
<1>2. CASE Query(t)
  BY <1>2 DEF Query, CallSteps
<1>3. CASE Store(t)
  <2>1. call[t] \in Calls
    BY <1>3 DEF Store
  <2>2. call[t].key \in Keys
    BY <2>1 DEF Calls
  <2>3. QED BY <1>3, <2>2 DEF Store, CallSteps
<1>4. CASE Fail(t)
  BY <1>4 DEF Fail, CallSteps
<1>5. CASE Return(t)
  BY <1>5 DEF Return
<1>6. QED
  BY <1>1, <1>2, <1>3, <1>4, <1>5 DEF CallStep

LEMMA RestartKeysInv ==
  ASSUME KeysInv, RestartKeys
  PROVE  KeysInv'
BY DEF KeysInv, KeysTypeOK, LoneInv, InFlight, RestartKeys

LEMMA StutterKeysInv ==
  ASSUME KeysInv, UNCHANGED keyVars
  PROVE  KeysInv'
BY DEF KeysInv, KeysTypeOK, LoneInv, InFlight, keyVars

(* A successful call that nothing overlapped leaves no key in the map that *)
(* is not in the table, whatever failed or raced before it.                *)
THEOREM LoneCallsPurge == KeysSpec => []LoneCallPurges
<1>1. KeysInv /\ [KeysNext]_keyVars => KeysInv'
  BY BeginKeysInv, CallKeysInv, RestartKeysInv, StutterKeysInv DEF KeysNext
<1>2. KeysInv => LoneCallPurges
  BY DEF KeysInv, LoneInv, LoneCallPurges
<1>3. QED
  BY <1>1, <1>2, InitKeysInv, PTL DEF KeysSpec

(* What RevokedStaysOut lacks: a lock around the three steps of a call.    *)
OneCall == \A t, u \in Threads : InFlight(t) /\ InFlight(u) => t = u

(* Nobody whose revocation was confirmed is in the table, in a call that   *)
(* adds, or in what a call has read of the table.                          *)
RevokedInv ==
  /\ revoked \cap table = {} /\ revoked \cap cache = {}
  /\ \A t \in Threads : InFlight(t) =>
       /\ call[t].op = "add" => call[t].key \notin revoked
       /\ step[t] = "store" => rows[t] \subseteq table

LEMMA CallFields ==
  ASSUME KeysTypeOK, NEW t \in Threads, InFlight(t)
  PROVE  /\ call[t] \in Calls /\ call[t].op \in {"add", "delete"} /\ call[t].key \in Keys
         /\ call[t].op = "add" => Adding(call[t].key)
<1>1. call[t] \in Calls
  BY DEF KeysTypeOK, InFlight
<1>2. call[t] = [op |-> call[t].op, key |-> call[t].key]
  BY <1>1 DEF Calls
<1>3. QED BY <1>1, <1>2 DEF Calls, Adding

LEMMA NextRevokedInv ==
  ASSUME KeysTypeOK, OneCall, OneCall', RevokedInv, [KeysNext]_keyVars
  PROVE  RevokedInv'
<1> USE DEF RevokedInv
<1>1. ASSUME NEW t \in Threads, NEW op \in {"add", "delete"}, NEW k \in Keys, Begin(t, op, k)
      PROVE  RevokedInv'
  <2> DEFINE r == [op |-> op, key |-> k]
  <2>1. r.op = op /\ r.key = k
    OBVIOUS
  <2>2. call' = [call EXCEPT ![t] = r]
    BY <1>1 DEF Begin
  <2> HIDE DEF r
  <2>3. call'[t] = r /\ \A u \in Threads \ {t} : call'[u] = call[u] /\ step'[u] = step[u]
    BY <1>1, <2>2 DEF Begin, KeysTypeOK
  <2>4. step'[t] = "exec" /\ UNCHANGED <<table, cache, rows>> /\ revoked' \subseteq revoked
    BY <1>1 DEF Begin, KeysTypeOK
  <2>5. op = "add" => k \notin revoked'
    BY <1>1 DEF Begin
  <2>6. QED BY <2>1, <2>3, <2>4, <2>5 DEF InFlight
<1>2. ASSUME NEW t \in Threads, Exec(t) PROVE RevokedInv'
  <2>1. /\ InFlight(t) /\ step' = [step EXCEPT ![t] = "query"]
        /\ UNCHANGED <<cache, call, rows, revoked>>
        /\ table' = IF call[t].op = "add" THEN table \cup {call[t].key} ELSE table \ {call[t].key}
    BY <1>2 DEF Exec, Advance
  <2>2. revoked \cap table' = {}
    BY <2>1
  <2>3. \A u \in Threads : InFlight(u) => u = t
    BY <2>1 DEF OneCall
  <2>4. QED BY <2>1, <2>2, <2>3 DEF InFlight, KeysTypeOK
<1>3. ASSUME NEW t \in Threads, Query(t) PROVE RevokedInv'
  BY <1>3 DEF Query, Advance, InFlight, KeysTypeOK
<1>4. ASSUME NEW t \in Threads, Store(t) PROVE RevokedInv'
  <2>1. /\ InFlight(t) /\ step[t] = "store" /\ step' = [step EXCEPT ![t] = "ok"]
        /\ cache' = rows[t] /\ UNCHANGED <<table, call, rows>>
        /\ revoked' = IF call[t].op = "delete" /\ call[t].key \notin table /\ ~Adding(call[t].key)
                        THEN revoked \cup {call[t].key} ELSE revoked
    BY <1>4 DEF Store, Advance
  <2>2. revoked' \cap table' = {} /\ revoked' \cap cache' = {}
    BY <2>1
  <2>3. ASSUME NEW u \in Threads, InFlight(u), call[u].op = "add" PROVE call[u].key \notin revoked'
    BY <2>1, <2>3, CallFields
  <2>4. QED BY <2>1, <2>2, <2>3 DEF InFlight, KeysTypeOK
<1>5. ASSUME NEW t \in Threads, Fail(t) \/ Return(t) PROVE RevokedInv'
  BY <1>5 DEF Fail, Return, Advance, InFlight, KeysTypeOK
<1>6. CASE RestartKeys
  BY <1>6 DEF RestartKeys, InFlight
<1>7. CASE UNCHANGED keyVars
  BY <1>7 DEF keyVars, InFlight
<1>8. QED
  BY <1>1, <1>2, <1>3, <1>4, <1>5, <1>6, <1>7 DEF KeysNext, CallStep

(* If a lock covered the statement, the reload and the replacement of the  *)
(* map, a revoked key would stay out, whatever fails, is read in part or   *)
(* dies half way: the overlap is all that breaks it in the code.           *)
THEOREM RevokedStaysOutAlone == KeysSpec /\ []OneCall => []RevokedStaysOut
<1>1. KeysInit => RevokedInv
  BY DEF KeysInit, RevokedInv, InFlight
<1>2. KeysTypeOK /\ OneCall /\ OneCall' /\ RevokedInv /\ [KeysNext]_keyVars => RevokedInv'
  BY NextRevokedInv
<1>3. RevokedInv => RevokedStaysOut
  BY DEF RevokedInv, RevokedStaysOut, IsAuthorized
<1>4. KeysInv /\ [KeysNext]_keyVars => KeysInv'
  BY BeginKeysInv, CallKeysInv, RestartKeysInv, StutterKeysInv DEF KeysNext
<1>5. KeysInv => KeysTypeOK
  BY DEF KeysInv
<1>6. QED
  BY <1>1, <1>2, <1>3, <1>4, <1>5, InitKeysInv, PTL DEF KeysSpec

-----------------------------------------------------------------------------
(* The pairing code.                                                       *)

(* A guess is counted only with an attempt, and only a new code resets     *)
(* either.                                                                 *)
CounterInv ==
  /\ left \in -1 .. Life
  /\ due \in -MaxDelay .. Life
  /\ attempts \in 0 .. MaxAttempts
  /\ guesses \in Nat
  /\ guesses <= attempts

(* Whoever holds the mutex across steps is in the middle of an Add.        *)
HolderInv ==
  /\ mu \in Threads \cup {None}
  /\ mu # None => InFlight(mu) /\ call[mu].op = "add"

CodeInv == KeysInv /\ CounterInv /\ HolderInv /\ used \in BOOLEAN

LEMMA InitCodeInv == Init => CodeInv
<1> SUFFICES ASSUME Init PROVE CodeInv
  OBVIOUS
<1>1. KeysInv
  BY InitKeysInv DEF Init
<1>2. CounterInv
  BY DEF Init, CounterInv
<1>3. HolderInv
  BY DEF Init, HolderInv
<1>4. used \in BOOLEAN
  BY DEF Init
<1>5. QED BY <1>1, <1>2, <1>3, <1>4 DEF CodeInv

LEMMA NextCodeInv ==
  ASSUME CodeInv, [Next]_vars
  PROVE  CodeInv'
<1> USE DEF CodeInv
<1>1. ASSUME NEW t \in Threads, PairRejected(t)
      PROVE  CodeInv'
  <2>1. KeysInv'
    BY <1>1, StutterKeysInv DEF PairRejected
  <2>2. CounterInv'
    BY <1>1 DEF PairRejected, Accepting, CounterInv
  <2>3. HolderInv'
    BY <1>1 DEF PairRejected, HolderInv
  <2>4. used' \in BOOLEAN
    BY <1>1 DEF PairRejected
  <2>5. QED BY <2>1, <2>2, <2>3, <2>4
<1>2. ASSUME NEW t \in Threads, NEW k \in Keys, PairAccepted(t, k)
      PROVE  CodeInv'
  <2>1. KeysInv'
    BY <1>2, BeginKeysInv DEF PairAccepted
  <2>2. CounterInv'
    BY <1>2 DEF PairAccepted, Accepting, CounterInv
  <2>3. /\ call' = [call EXCEPT ![t] = [op |-> "add", key |-> k]]
        /\ [op |-> "add", key |-> k] \in Calls
        /\ mu' = t
    BY <1>2 DEF PairAccepted, Begin, Calls
  <2>4. call'[t] = [op |-> "add", key |-> k]
    BY <2>3 DEF KeysInv, KeysTypeOK
  <2>5. call'[t].op = "add" /\ call'[t] # None
    BY <2>3, <2>4
  <2>6. HolderInv'
    BY <2>3, <2>5 DEF HolderInv, InFlight
  <2>7. used' \in BOOLEAN
    BY <1>2 DEF PairAccepted
  <2>8. QED BY <2>1, <2>2, <2>6, <2>7
<1>3. ASSUME NEW t \in Threads, PairDone(t)
      PROVE  CodeInv'
  <2>1. KeysInv'
    BY <1>3, CallKeysInv DEF PairDone, CallStep
  <2>2. CounterInv'
    BY <1>3 DEF PairDone, CounterInv
  <2>3. HolderInv'
    BY <1>3 DEF PairDone, HolderInv
  <2>4. used' \in BOOLEAN
    BY <1>3 DEF PairDone
  <2>5. QED BY <2>1, <2>2, <2>3, <2>4
<1>4. ASSUME NEW t \in Threads, NEW k \in Keys, RevokeKey(t, k)
      PROVE  CodeInv'
  <2>1. KeysInv'
    BY <1>4, BeginKeysInv DEF RevokeKey
  <2>2. CounterInv'
    BY <1>4 DEF RevokeKey, codeVars, CounterInv
  <2>3. mu # None => mu # t /\ call'[mu] = call[mu]
    BY <1>4 DEF RevokeKey, Begin, KeysInv, KeysTypeOK, HolderInv
  <2>4. HolderInv'
    BY <1>4, <2>3 DEF RevokeKey, HolderInv, InFlight
  <2>5. used' \in BOOLEAN
    BY <1>4 DEF RevokeKey, codeVars
  <2>6. QED BY <2>1, <2>2, <2>4, <2>5
<1>5. ASSUME NEW t \in Threads, RevokeDone(t)
      PROVE  CodeInv'
  <2>1. KeysInv'
    BY <1>5, CallKeysInv DEF RevokeDone, CallStep
  <2>2. CounterInv'
    BY <1>5 DEF RevokeDone, codeVars, CounterInv
  <2>3. mu # None => call'[mu] = call[mu]
    BY <1>5 DEF RevokeDone, Return, KeysInv, KeysTypeOK, HolderInv
  <2>4. HolderInv'
    BY <1>5, <2>3 DEF RevokeDone, HolderInv, InFlight
  <2>5. used' \in BOOLEAN
    BY <1>5 DEF RevokeDone, codeVars
  <2>6. QED BY <2>1, <2>2, <2>4, <2>5
<1>6. ASSUME NEW t \in Threads, KeyStep(t)
      PROVE  CodeInv'
  <2>1. KeysInv'
    BY <1>6, CallKeysInv DEF KeyStep, CallStep
  <2>2. CounterInv'
    BY <1>6 DEF KeyStep, codeVars, CounterInv
  <2>3. mu' = mu /\ call' = call
    BY <1>6 DEF KeyStep, Exec, Query, Store, Fail
  <2>4. HolderInv'
    BY <2>3 DEF HolderInv, InFlight
  <2>5. used' \in BOOLEAN
    BY <1>6 DEF KeyStep, codeVars
  <2>6. QED BY <2>1, <2>2, <2>4, <2>5
<1>7. CASE Regenerate
  <2>1. KeysInv'
    BY <1>7, StutterKeysInv DEF Regenerate
  <2>2. FreshCode \/ (UNCHANGED <<left, attempts, guesses>> /\ used' = FALSE)
    BY <1>7 DEF Regenerate
  <2>3. due' \in -MaxDelay .. Life
    BY <1>7 DEF Regenerate, CounterInv
  <2>4. CounterInv'
    BY <2>2, <2>3 DEF CounterInv, FreshCode
  <2>5. HolderInv'
    BY <1>7 DEF Regenerate, HolderInv
  <2>6. used' \in BOOLEAN
    BY <2>2 DEF FreshCode
  <2>7. QED BY <2>1, <2>4, <2>5, <2>6
<1>8. CASE Tick
  <2>1. KeysInv'
    BY <1>8, StutterKeysInv DEF Tick
  <2>2. CounterInv'
    BY <1>8 DEF Tick, CounterInv
  <2>3. HolderInv'
    BY <1>8 DEF Tick, HolderInv, keyVars, InFlight
  <2>4. used' \in BOOLEAN
    BY <1>8 DEF Tick
  <2>5. QED BY <2>1, <2>2, <2>3, <2>4
<1>9. CASE Restart
  <2>1. KeysInv'
    BY <1>9, RestartKeysInv DEF Restart
  <2>2. CounterInv'
    BY <1>9 DEF Restart, FreshCode, CounterInv
  <2>3. HolderInv'
    BY <1>9 DEF Restart, HolderInv
  <2>4. used' \in BOOLEAN
    BY <1>9 DEF Restart, FreshCode
  <2>5. QED BY <2>1, <2>2, <2>3, <2>4
<1>10. CASE UNCHANGED vars
  <2>1. KeysInv'
    BY <1>10, StutterKeysInv DEF vars
  <2>2. CounterInv'
    BY <1>10 DEF vars, codeVars, CounterInv
  <2>3. HolderInv'
    BY <1>10 DEF vars, keyVars, HolderInv, InFlight
  <2>4. used' \in BOOLEAN
    BY <1>10 DEF vars, codeVars
  <2>5. QED BY <2>1, <2>2, <2>3, <2>4
<1>11. QED
  BY <1>1, <1>2, <1>3, <1>4, <1>5, <1>6, <1>7, <1>8, <1>9, <1>10 DEF Next

THEOREM CodeInvariance == Spec => []CodeInv
BY InitCodeInv, NextCodeInv, PTL DEF Spec

(* Type correctness: the counters stay within their bounds, and the mutex  *)
(* is held across steps only by a Pair whose Add is in flight.             *)
THEOREM TypeCorrect == Spec => []TypeOK
<1>1. CodeInv => TypeOK
  BY DEF CodeInv, KeysInv, CounterInv, HolderInv, TypeOK
<1>2. QED
  BY <1>1, CodeInvariance, PTL

(* No code is compared with more than MaxAttempts guesses, across          *)
(* revocations, revivals by Regenerate and database failures.              *)
THEOREM AttemptsLimitGuesses == Spec => []GuessesBounded
<1>1. CodeInv => GuessesBounded
  BY DEF CodeInv, CounterInv, GuessesBounded
<1>2. QED
  BY <1>1, CodeInvariance, PTL
=============================================================================
