------------------------------ MODULE RelayRPC ------------------------------
(***************************************************************************)
(* What the relay promises its callers, without connections, maps or       *)
(* channels: every call ends, and a call that is answered was carried out  *)
(* by the agent.  A call that fails may still have been carried out, or be *)
(* carried out later: a 504 says nothing about the agent                   *)
(* (api/internal/handlers/relay.go).                                       *)
(***************************************************************************)
CONSTANT Requests

VARIABLES status, handled
vars == <<status, handled>>

Init ==
  /\ status = [r \in Requests |-> "idle"]
  /\ handled = {}

Move(r, from, to) ==
  /\ status[r] = from
  /\ status' = [status EXCEPT ![r] = to]
  /\ UNCHANGED handled

CarryOut(r) ==
  /\ status[r] # "idle"
  /\ r \notin handled
  /\ handled' = handled \cup {r}
  /\ UNCHANGED status

Call(r)   == Move(r, "idle", "open")
Refuse(r) == Move(r, "idle", "failed")
Answer(r) == r \in handled /\ Move(r, "open", "answered")
Fail(r)   == Move(r, "open", "failed")

Next == \E r \in Requests :
  Call(r) \/ Refuse(r) \/ CarryOut(r) \/ Answer(r) \/ Fail(r)

Spec == Init /\ [][Next]_vars
Fairness == \A r \in Requests : WF_vars(Answer(r) \/ Fail(r))
=============================================================================
