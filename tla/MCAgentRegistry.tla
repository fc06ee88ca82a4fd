-------------------------- MODULE MCAgentRegistry --------------------------
(* Instances of AgentRegistry for TLC.                                     *)
EXTENDS AgentRegistry, TLC

CONSTANTS u1, u2, n1, n2, n3, x, y, z, c1, c2, r1, r2, r3, r4

Dial(user, name, uuid) == [user |-> user, name |-> name, uuid |-> uuid]

(* Agents x and y share a name and y is also run with another user's token;*)
(* z has two names of its own.                                             *)
Crossed == {Dial(u1, n1, x), Dial(u1, n1, y), Dial(u2, n1, y),
            Dial(u1, n2, z), Dial(u1, n3, z)}
(* Two agents of one user that were never given a name.                    *)
SameName == {Dial(u1, n1, x), Dial(u1, n1, y)}

Symmetry == Permutations({c1, c2}) \cup Permutations({r1, r2, r3, r4})
=============================================================================
