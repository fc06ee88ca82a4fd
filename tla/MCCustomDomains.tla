-------------------------- MODULE MCCustomDomains --------------------------
(* An instance of CustomDomains for TLC.                                   *)
EXTENDS CustomDomains, TLC

Symmetry ==
  Permutations(Users) \cup Permutations(Domains) \cup Permutations(Ids)
    \cup Permutations(Hostnames) \cup Permutations(Calls)
=============================================================================
