----------------------------- MODULE MCRuleStore -----------------------------
(* A small instance of RuleStore for TLC. *)
EXTENDS RuleStore, TLC

CONSTANTS w1, w2, t1, catalog

\* a second release with one more rule, a third with two more
Growing == [r \in 0..3 |-> CASE r = 0 -> 0 [] r = 1 -> 1 [] r = 2 -> 2 [] r = 3 -> 4]

Symmetry == Permutations(Workers)
=============================================================================
