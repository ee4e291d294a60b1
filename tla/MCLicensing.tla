----------------------------- MODULE MCLicensing -----------------------------
(* Small instances of Licensing for TLC. *)
EXTENDS Licensing, TLC

CONSTANTS e1, e2, pc1, pc2, p1, w1, w2

Symmetry == Permutations({w1, w2}) \cup Permutations({pc1, pc2}) \cup Permutations(Engineers)
=============================================================================
