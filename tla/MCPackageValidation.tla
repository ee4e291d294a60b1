------------------------- MODULE MCPackageValidation -------------------------
(* Small instances of PackageValidation for TLC. *)
EXTENDS PackageValidation

\* one rule each (several rules of an element are in ElementValidation), but
\* all rules of element 4 are disabled
OneEach == [e \in 1..19 |-> IF e = 4 THEN 0 ELSE 1]

\* the rule of the element that every scope requires, in one standard
ReviewKeys == {Key("aiag_ppap", 18, 1)}

\* no choice; an optional element and one that no catalogue knows
ByHand == {{}, {3, 99}}
=============================================================================
