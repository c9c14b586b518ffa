--------------------------- MODULE MC_SessionQueue ---------------------------
(* Instances of SessionQueue for TLC: the items are model values.           *)
EXTENDS SessionQueue, TLC

\* Follow-ups of the developer differ in nothing but their identifier.
Symmetry == Permutations(Items \ Linked)
=============================================================================
