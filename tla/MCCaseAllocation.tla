------------------------- MODULE MCCaseAllocation -------------------------
(* A small instance of CaseAllocation for TLC. *)
EXTENDS CaseAllocation, TLC

CONSTANTS w1, w2, w3, i1

\* every worker belongs to the one instance
OneHost == [w \in Workers |-> i1]

WorkerSymmetry == Permutations(Workers)
=============================================================================
