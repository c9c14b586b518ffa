--------------------------- MODULE MC_Automations ---------------------------
EXTENDS Automations, TLC

CONSTANTS a, r1, r2
=============================================================================
