--------------------------- MODULE MC_CodexChildren ---------------------------
EXTENDS CodexChildren, TLC

CONSTANTS c1, c2

Scope(parent, spawned, declared, turns, mentions, late, overflows) ==
  [parent |-> parent, spawned |-> spawned, declared |-> declared, turns |-> turns,
   mentions |-> mentions, late |-> late, overflows |-> overflows]

Line    == c1 :> Root @@ c2 :> c1
Foreign == c1 :> Root @@ c2 :> None

\* A child with two turns; a child and its own child; a child and a thread of
\* nobody; a root whose consumer is slow; a child that is declared, and one
\* whose activity is told of twice.
Families ==
  {Scope(Line, {c1}, {}, 2, 1, 1, 0), Scope(Line, {c1, c2}, {}, 1, 0, 0, 0),
   Scope(Foreign, {c1, c2}, {}, 1, 1, 0, 0), Scope(Line, {c1}, {}, 1, 0, 0, 1),
   Scope(Line, {c1}, {c1}, 1, 2, 0, 0), Scope(Line, {c1}, {}, 1, 2, 0, 0)}
=============================================================================
