------------------------ MODULE MC_SessionLifecycle ------------------------
EXTENDS SessionLifecycle, TLC

CONSTANTS p, c, a

\* A session without relatives, and a parent with one child.
Alone  == [s \in Sessions |-> None]
Family == [s \in Sessions |-> IF s = c THEN p ELSE None]

Symmetry == Permutations(Edits)
=============================================================================
