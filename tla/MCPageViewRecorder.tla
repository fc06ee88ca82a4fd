------------------------- MODULE MCPageViewRecorder -------------------------
(* Instances of PageViewRecorder for TLC: requests are alike, and workers. *)
EXTENDS PageViewRecorder, TLC

Symmetric == Permutations(Views) \cup Permutations(Workers)
=============================================================================
