----------------------------- MODULE MC_Journal -----------------------------
(* Journal on small instances. *)
EXTENDS Journal, TLC

(* What a run is full of: requests, operations or compactions. *)
Mixes ==
  {[kids |-> 2, reports |-> 2, requests |-> 2, operations |-> 0, compactions |-> 0],
   [kids |-> 1, reports |-> 2, requests |-> 0, operations |-> 3, compactions |-> 0],
   [kids |-> 1, reports |-> 2, requests |-> 1, operations |-> 0, compactions |-> 3]}

Symmetry == Permutations(Kids) \cup Permutations(Turns) \cup Permutations(Requests)
=============================================================================
