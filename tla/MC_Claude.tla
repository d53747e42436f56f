----------------------------- MODULE MC_Claude -----------------------------
EXTENDS Claude

CONSTANTS q1

Budget(turns, frames, blocks, asks, stops, exits) ==
  [turns |-> turns, frames |-> frames, blocks |-> blocks, asks |-> asks, stops |-> stops,
   exits |-> exits]

\* The second task is a child of the first.
Nested == <<0, 1>>

\* Two turns of the session; and one turn with a request, with children, with text.
Mixes == {Budget(2, 0, 0, 0, 2, 0), Budget(2, 0, 0, 0, 1, 1), Budget(1, 0, 0, 1, 2, 0),
          Budget(1, 0, 0, 1, 1, 1), Budget(1, 4, 0, 0, 0, 0), Budget(1, 1, 0, 1, 0, 0),
          Budget(1, 0, 2, 0, 0, 1)}
=============================================================================
