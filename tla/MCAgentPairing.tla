--------------------------- MODULE MCAgentPairing ---------------------------
(* Instances of AgentPairing for TLC: keys and goroutines are alike.       *)
EXTENDS AgentPairing, TLC

Symmetric == Permutations(Keys) \cup Permutations(Threads)
=============================================================================
