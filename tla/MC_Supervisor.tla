--------------------------- MODULE MC_Supervisor ---------------------------
EXTENDS Supervisor, TLC

CONSTANTS k1
=============================================================================
