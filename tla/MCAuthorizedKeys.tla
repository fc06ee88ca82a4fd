-------------------------- MODULE MCAuthorizedKeys --------------------------
(* Instances of AuthorizedKeys for TLC: keys and goroutines are alike.     *)
EXTENDS AuthorizedKeys, TLC

Symmetric == Permutations(Keys) \cup Permutations(Threads)
=============================================================================
