---------------------------- MODULE AgentPairing ----------------------------
(***************************************************************************)
(* Pairing on the agent: the code, its expiry, its attempt counter and its *)
(* used flag (agent/internal/handlers/pair.go), renewed by a ticker        *)
(* (agent/cmd/server/main.go), on top of the authorised keys.              *)
(*                                                                         *)
(* Pair and Regenerate hold PairHandler.mu throughout, Pair also while it  *)
(* waits for the database; RevokeKey does not take it.  Only the current   *)
(* code matters, so a guess is right or wrong and codes have no names.     *)
(* Time is counted relative to now, in units of which a code lasts Life.   *)
(***************************************************************************)
EXTENDS AuthorizedKeys, Integers

CONSTANTS
  MaxAttempts,  \* 5: guesses allowed per code
  Life,         \* 5 minutes: a code's lifetime and the ticker's period
  MaxDelay      \* how late the ticker's goroutine may run

ASSUME PairingAssumption ==
  /\ MaxAttempts \in Nat \ {0}
  /\ Life \in Nat \ {0}
  /\ MaxDelay \in Nat /\ MaxDelay < Life

VARIABLES
  mu,        \* the goroutine in Pair that holds PairHandler.mu, or None
  left,      \* time until PairingExpiry; -1 once it has passed
  due,       \* time until the next tick; negative while it is late
  attempts,  \* PairHandler.attempts
  used,      \* PairHandler.used
  guesses    \* history: codes compared with the current one

codeVars == <<left, due, attempts, used, guesses>>
vars == <<keyVars, codeVars, mu>>

FreshCode ==
  /\ left' = Life /\ attempts' = 0 /\ used' = FALSE
  /\ guesses' = 0

(* main: the code is generated before the ticker is created.               *)
Init ==
  /\ KeysInit
  /\ mu = None
  /\ left = Life /\ due = Life
  /\ attempts = 0 /\ used = FALSE
  /\ guesses = 0

(* time.Now().After(expiry) refuses a guess; used and attempts do as well. *)
Accepting == ~used /\ left >= 0 /\ attempts < MaxAttempts

(* Mutant: no limit on the attempts.                                       *)
PairRejectedUnlimited(t) ==
  /\ mu = None /\ ~InFlight(t)
  /\ ~used /\ left >= 0
  /\ attempts' = attempts + 1
  /\ guesses' \in {guesses, guesses + 1}
  /\ UNCHANGED <<keyVars, mu, left, due, used>>

(* Pair with a body that does not parse, a wrong code, or a key or         *)
(* username it rejects: the attempt is spent.  (When not Accepting, Pair   *)
(* answers 410 or 429 and changes nothing.)                                *)
PairRejected(t) ==
  /\ mu = None /\ ~InFlight(t)
  /\ Accepting
  /\ attempts' = attempts + 1
  /\ guesses' \in {guesses, guesses + 1}
  /\ UNCHANGED <<keyVars, mu, left, due, used>>

(* Pair with the right code: the attempt is spent and the key is added     *)
(* while mu stays locked.                                                  *)
PairAccepted(t, k) ==
  /\ mu = None
  /\ Accepting
  /\ mu' = t
  /\ attempts' = attempts + 1
  /\ guesses' = guesses + 1
  /\ Begin(t, "add", k)
  /\ UNCHANGED <<left, due, used>>

(* AddAuthorizedX25519Key has returned: only its success marks the code    *)
(* used and answers 200.                                                   *)
PairDone(t) ==
  /\ mu = t
  /\ Return(t)
  /\ mu' = None
  /\ used' = (used \/ step[t] = "ok")
  /\ UNCHANGED <<left, due, attempts, guesses>>

(* RevokeKey of the requester's own key, without mu.                       *)
RevokeKey(t, k) ==
  /\ Begin(t, "delete", k)
  /\ UNCHANGED <<mu, codeVars>>

RevokeDone(t) ==
  /\ mu # t
  /\ Return(t)
  /\ UNCHANGED <<mu, codeVars>>

(* The statements inside Add and Delete, for either caller.                *)
KeyStep(t) ==
  /\ Exec(t) \/ Query(t) \/ Store(t) \/ Fail(t)
  /\ UNCHANGED <<mu, codeVars>>

(* Mutants: a kept code gets new attempts; a used code of a paired agent   *)
(* is kept.                                                                *)
RegenerateRefills ==
  /\ mu = None
  /\ due <= 0
  /\ due' = due + Life
  /\ \E listed \in {table, {}} :
       IF (~used \/ listed = {}) /\ left > 0
         THEN used' = FALSE /\ attempts' = 0 /\ UNCHANGED <<left, guesses>>
         ELSE FreshCode
  /\ UNCHANGED <<keyVars, mu>>

RegenerateKeepsUsed ==
  /\ mu = None
  /\ due <= 0
  /\ due' = due + Life
  /\ IF used /\ table # {} THEN UNCHANGED <<left, attempts, used, guesses>> ELSE FreshCode
  /\ UNCHANGED <<keyVars, mu>>

(* The ticker calls Regenerate.  ListAuthorizedKeys reads the table, and   *)
(* reports no keys when the query fails.                                   *)
Regenerate ==
  /\ mu = None
  /\ due <= 0
  /\ due' = due + Life
  /\ \E listed \in {table, {}} :
       IF (~used \/ listed = {}) /\ left > 0
         THEN used' = FALSE /\ UNCHANGED <<left, attempts, guesses>>
         ELSE FreshCode
  /\ UNCHANGED <<keyVars, mu>>

(* Time passes; the ticker's goroutine is at most MaxDelay late.           *)
Tick ==
  /\ due > -MaxDelay
  /\ due' = due - 1
  /\ left' = IF left = -1 THEN -1 ELSE left - 1
  /\ UNCHANGED <<keyVars, mu, attempts, used, guesses>>

Restart ==
  /\ RestartKeys
  /\ mu' = None
  /\ FreshCode
  /\ due' = Life

Next ==
  \/ \E t \in Threads : PairRejected(t) \/ PairDone(t) \/ RevokeDone(t) \/ KeyStep(t)
  \/ \E t \in Threads, k \in Keys : PairAccepted(t, k) \/ RevokeKey(t, k)
  \/ Regenerate
  \/ Tick
  \/ Restart

Spec == Init /\ [][Next]_vars

(* Time passes, the ticker's goroutine gets the mutex, and a call that     *)
(* started goes on; whether anybody pairs, revokes or restarts is open.    *)
Fairness ==
  /\ WF_vars(Tick) /\ WF_vars(Regenerate)
  /\ \A t \in Threads : WF_vars(KeyStep(t)) /\ WF_vars(PairDone(t))

FairSpec == Spec /\ Fairness

-----------------------------------------------------------------------------
TypeOK ==
  /\ KeysTypeOK
  /\ mu \in Threads \cup {None}
  /\ left \in -1 .. Life
  /\ due \in -MaxDelay .. Life
  /\ attempts \in 0 .. MaxAttempts
  /\ used \in BOOLEAN
  /\ guesses \in Nat
  /\ mu # None => InFlight(mu) /\ call[mu].op = "add"

(* "rate-limited to 5 attempts": at most MaxAttempts guesses are ever      *)
(* compared with one code, however often it is used, revived by Regenerate *)
(* after a revocation, or raced for by several browsers.                   *)
GuessesBounded == guesses <= MaxAttempts

(* A code is never spent for good: after a pairing, five wrong guesses or  *)
(* its expiry, the agent gets back to accepting guesses without a restart. *)
AlwaysPairableAgain == []<>Accepting
=============================================================================
