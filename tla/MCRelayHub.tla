----------------------------- MODULE MCRelayHub -----------------------------
(* Instances of RelayHub for TLC: two requests to one of the agents.       *)
EXTENDS RelayHub, TLC

CONSTANTS a1, r1, i1, i2

(* Distinct ids, as the dashboard and the public endpoint generate them.   *)
UniqueIds == [r \in Requests |-> IF r = r1 THEN i1 ELSE i2]
(* All requests are for one agent; another one may be connected as well.   *)
OneTarget == [r \in Requests |-> a1]
=============================================================================
