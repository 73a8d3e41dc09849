----------------------------- MODULE MCAccounts -----------------------------
(* Small instances of Accounts for TLC: g1 changes its address, g2 has the   *)
(* new one as well, and both ask for the same user name.                     *)
EXTENDS Accounts, TLC

CONSTANTS g1, g2, e1, e2, e3, n1, n2

MCProfiles == {[sub |-> g1, email |-> e1, name |-> n1],
               [sub |-> g1, email |-> e2, name |-> n1],
               [sub |-> g2, email |-> e2, name |-> n1]}

Symmetry == Permutations(Procs)
=============================================================================
