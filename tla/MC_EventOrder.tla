--------------------------- MODULE MC_EventOrder ---------------------------
(* EventOrder with two children, of which at most one is in its first turn *)
(* at the start; the other may start one.  They are not interchanged:      *)
(* SetToSeq chooses the order in which they are closed.                    *)
EXTENDS EventOrder

=============================================================================
