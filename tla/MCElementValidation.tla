------------------------ MODULE MCElementValidation ------------------------
(* Small instances of ElementValidation for TLC. *)
EXTENDS ElementValidation

\* five rules in batches of two; or in one call, and again in batches
ThreeSettings == {[batch |-> 2, schema |-> 3, retry |-> TRUE],
                  [batch |-> 0, schema |-> 3, retry |-> FALSE],
                  [batch |-> 5, schema |-> 0, retry |-> TRUE]}
=============================================================================
