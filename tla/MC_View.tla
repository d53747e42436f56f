------------------------------ MODULE MC_View ------------------------------
EXTENDS View

CONSTANTS c1, c2
MCListed == <<c1>>
=============================================================================
