---------------------------- MODULE MCSocialCache ----------------------------
(* Small instances of SocialCache for TLC. *)
EXTENDS SocialCache, TLC

Symmetry == Permutations(Procs) \cup Permutations(Values)
=============================================================================
