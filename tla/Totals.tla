------------------------------- MODULE Totals -------------------------------
(* How many elements the sets of a family have together.                   *)
EXTENDS FiniteSets

Members(family) == UNION {{x} \X family[x] : x \in DOMAIN family}
Total(family) == Cardinality(Members(family))

=============================================================================
