--------------------------- MODULE MCIdleWatcher ---------------------------
(* Instances of IdleWatcher for TLC; the requests are model values. *)
EXTENDS IdleWatcher, TLC

Symmetry == Permutations(HttpReqs) \cup Permutations(StreamReqs)
=============================================================================
