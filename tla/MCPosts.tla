------------------------------ MODULE MCPosts ------------------------------
(* Small instances of Posts for TLC. *)
EXTENDS Posts, TLC

Symmetry == Permutations(Procs) \cup Permutations(Users)
=============================================================================
