----------------------------- MODULE MC_Updates -----------------------------
EXTENDS Updates, TLC

CONSTANTS exe, lib

\* The second build has a file more than the first and the third.
Contents == [v \in Builds |-> IF v = 2 THEN {exe, lib} ELSE {exe}]
=============================================================================
