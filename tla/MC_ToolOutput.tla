--------------------------- MODULE MC_ToolOutput ---------------------------
EXTENDS ToolOutput, TLC

CONSTANTS c1, c2, sh, p, q

Texts == {<<p, p>>}
Symmetry == Permutations(Calls)
=============================================================================
