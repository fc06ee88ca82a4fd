---------------------------- MODULE MCSSEBroker ----------------------------
(* Instances of SSEBroker for TLC: agents, goroutines and streams are      *)
(* alike.                                                                  *)
EXTENDS SSEBroker, TLC

Symmetric == Permutations(Agents) \cup Permutations(Notifiers) \cup Permutations(Streams)
=============================================================================
