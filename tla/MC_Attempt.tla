---------------------------- MODULE MC_Attempt ----------------------------
(* Attempt on small instances, one mix of what happens at a time: an       *)
(* answer and a steering text under way together, with a database call     *)
(* that fails; a second answer, or a retry of the first; an answer whose   *)
(* job panics, and whose repair may fail; a steering job that panics.      *)
EXTENDS Attempt

Mixes ==
  { [answers |-> 1, steers |-> 1, faults |-> 1, panics |-> 0],
    [answers |-> 2, steers |-> 0, faults |-> 0, panics |-> 0],
    [answers |-> 1, steers |-> 0, faults |-> 1, panics |-> 1],
    [answers |-> 0, steers |-> 1, faults |-> 0, panics |-> 1] }

=============================================================================
