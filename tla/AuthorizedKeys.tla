--------------------------- MODULE AuthorizedKeys ---------------------------
(***************************************************************************)
(* The agent's authorised X25519 keys: the SQLite table authorized_keys    *)
(* and the in-memory map every page and storage request is checked against *)
(* (agent/internal/storage/sqlite.go).  AddAuthorizedX25519Key and         *)
(* DeleteAuthorizedX25519Key write the table, read it back and replace the *)
(* map; only the replacement holds authKeysMu, so the three steps of two   *)
(* calls interleave.  Usernames are left out: nothing reads them back.     *)
(***************************************************************************)
EXTENDS FiniteSets

CONSTANTS
  Keys,      \* X25519 public keys of browsers
  Threads,   \* goroutines that handle relay requests
  None       \* no call in flight

Calls == [op : {"add", "delete"}, key : Keys]

ASSUME KeysAssumption == None \notin Calls

VARIABLES
  table,     \* the keys stored in authorized_keys
  cache,     \* DB.authKeys, what IsX25519KeyAuthorized answers from
  call,      \* the call a goroutine is in
  step,      \* and how far it got
  rows,      \* the keys its SELECT returned
  alone,     \* history: no other call has overlapped this one
  revoked    \* history: keys whose revocation was confirmed, no add since

keyVars == <<table, cache, call, step, rows, alone, revoked>>

CallSteps == {"exec", "query", "store", "ok", "err"}

KeysInit ==
  /\ table \in SUBSET Keys
  /\ cache \in SUBSET table
  /\ call  = [t \in Threads |-> None]
  /\ step  = [t \in Threads |-> "ok"]
  /\ rows  = [t \in Threads |-> {}]
  /\ alone = [t \in Threads |-> FALSE]
  /\ revoked = {}

InFlight(t) == call[t] # None
IsAuthorized(k) == k \in cache

Advance(t, from, to) ==
  /\ InFlight(t) /\ step[t] = from
  /\ step' = [step EXCEPT ![t] = to]

(* A handler calls Add or Delete.                                          *)
Begin(t, op, k) ==
  /\ ~InFlight(t)
  /\ call'  = [call EXCEPT ![t] = [op |-> op, key |-> k]]
  /\ step'  = [step EXCEPT ![t] = "exec"]
  /\ alone' = [u \in Threads |->
                 IF u = t THEN \A v \in Threads : ~InFlight(v) ELSE FALSE]
  /\ revoked' = IF op = "add" THEN revoked \ {k} ELSE revoked
  /\ UNCHANGED <<table, cache, rows>>

(* INSERT OR REPLACE, or DELETE.                                           *)
Exec(t) ==
  /\ Advance(t, "exec", "query")
  /\ table' = IF call[t].op = "add" THEN table \cup {call[t].key} ELSE table \ {call[t].key}
  /\ UNCHANGED <<cache, call, rows, alone, revoked>>

(* reloadAuthKeys: the SELECT sees the table as it is now.  SQLite steps   *)
(* in rows.Next, which stops at the first error, and rows.Err is never     *)
(* asked: a read that fails half way looks like a shorter table.           *)
Query(t) ==
  /\ Advance(t, "query", "store")
  /\ \E read \in SUBSET table : rows' = [rows EXCEPT ![t] = read]
  /\ UNCHANGED <<table, cache, call, alone, revoked>>

(* Mutant: the keys read are merged into the map instead of replacing it.  *)
StoreMerges(t) ==
  /\ Advance(t, "store", "ok")
  /\ cache' = cache \cup rows[t]
  /\ UNCHANGED <<table, call, rows, alone, revoked>>

Adding(k) == \E t \in Threads : call[t] = [op |-> "add", key |-> k]

(* reloadAuthKeys: d.authKeys = keys, under authKeysMu.  A DELETE that has *)
(* got here returns nil, and the caller is told "revoked".                 *)
Store(t) ==
  /\ Advance(t, "store", "ok")
  /\ cache' = rows[t]
  /\ revoked' = IF call[t].op = "delete" /\ call[t].key \notin table /\ ~Adding(call[t].key)
                  THEN revoked \cup {call[t].key} ELSE revoked
  /\ UNCHANGED <<table, call, rows, alone>>

(* SQLite fails the statement (locked for 5s, full disk), or the SELECT    *)
(* before its first row.                                                   *)
Fail(t) ==
  /\ Advance(t, "exec", "err") \/ Advance(t, "query", "err")
  /\ UNCHANGED <<table, cache, call, rows, alone, revoked>>

Return(t) ==
  /\ InFlight(t) /\ step[t] \in {"ok", "err"}
  /\ call' = [call EXCEPT ![t] = None]
  /\ UNCHANGED <<table, cache, step, rows, alone, revoked>>

(* The process dies and starts again: NewDB loads the map from the table,  *)
(* with the same reload.                                                   *)
RestartKeys ==
  /\ cache' \in SUBSET table
  /\ call'  = [t \in Threads |-> None]
  /\ UNCHANGED <<table, step, rows, alone, revoked>>

CallStep(t) == Exec(t) \/ Query(t) \/ Store(t) \/ Fail(t) \/ Return(t)

KeysNext ==
  \/ \E t \in Threads, op \in {"add", "delete"}, k \in Keys : Begin(t, op, k)
  \/ \E t \in Threads : CallStep(t)
  \/ RestartKeys

KeysSpec == KeysInit /\ [][KeysNext]_keyVars

-----------------------------------------------------------------------------
KeysTypeOK ==
  /\ table \subseteq Keys
  /\ cache \subseteq Keys
  /\ call  \in [Threads -> Calls \cup {None}]
  /\ step  \in [Threads -> CallSteps]
  /\ rows  \in [Threads -> SUBSET Keys]
  /\ alone \in [Threads -> BOOLEAN]
  /\ revoked \subseteq Keys

(* A call that nothing overlapped and that reports success leaves nobody   *)
(* authorised whom the table does not hold, whatever earlier calls left    *)
(* behind when they failed half way or raced.                              *)
LoneCallPurges ==
  \A t \in Threads : InFlight(t) /\ step[t] = "ok" /\ alone[t] => cache \subseteq table

(* "Key should be removed after revocation": a key whose revocation was    *)
(* confirmed, and that was not added again, is not authorised.             *)
RevokedStaysOut == \A k \in revoked : ~IsAuthorized(k)
=============================================================================
