------------------------------ MODULE MCAccounts ------------------------------
(* Small instances of Accounts for TLC. *)
EXTENDS Accounts, TLC

CONSTANTS root, u1, u2, w1, w2

Symmetry == Permutations({w1, w2}) \cup Permutations({u1, u2})
=============================================================================
