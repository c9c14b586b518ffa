---------------------------- MODULE MC_Launches ----------------------------
EXTENDS Launches, TLC

CONSTANTS s1, s2, create, fork

Symmetry == Permutations(Sessions)
=============================================================================
