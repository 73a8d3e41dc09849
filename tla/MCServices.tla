------------------------------- MODULE MCServices -------------------------------
(* A small instance of Services for TLC. *)
EXTENDS Services, TLC

Symmetry == Permutations(Actors)
=============================================================================
