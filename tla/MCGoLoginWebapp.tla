-------------------------- MODULE MCGoLoginWebapp --------------------------
(* GoLoginWebapp for TLC: flows, ids and requests are interchangeable.     *)
EXTENDS GoLoginWebapp, TLC

Symmetry == Permutations(Flow) \cup Permutations(Sid) \cup Permutations(Request)
=============================================================================
