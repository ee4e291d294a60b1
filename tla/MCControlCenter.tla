---------------------------- MODULE MCControlCenter ----------------------------
(* Small instances of ControlCenter for TLC. *)
EXTENDS ControlCenter, TLC

CONSTANTS c1, c2, r1, r2, s1

\* cases are alike only if all are validated or none is
Symmetry ==
  (IF Validated \in {{}, Cases} THEN Permutations(Cases) ELSE {})
    \cup Permutations(Rules)
=============================================================================
