---------------------------- MODULE MC_EventLog ----------------------------
EXTENDS EventLog, TLC

CONSTANTS a, b   \* what only a snapshot holds

Symmetry == Permutations({a, b})
=============================================================================
