----------------------------- MODULE MC_CodexTurns -----------------------------
(* One or two turns of a thread, with small budgets of everything else. *)
EXTENDS CodexTurns

Budget(turns, items, kinds, asks, stops, faults) ==
  [turns |-> turns, items |-> items, kinds |-> kinds,
   asks |-> asks, stops |-> stops, faults |-> faults]

\* Two turns of one thread; and one turn with output and a fault, a request and
\* an interruption, a request and a fault, output and an interruption, a message,
\* a change of files and its approval.
Mixes ==
  {Budget(2, 0, {}, 0, 0, 0), Budget(1, 1, {"tool", "malformed", "broken"}, 0, 0, 1),
   Budget(1, 0, {}, 1, 1, 0), Budget(1, 0, {}, 1, 0, 1), Budget(1, 2, {"tool"}, 0, 1, 0),
   Budget(1, 1, {"message", "change"}, 1, 0, 0)}
=============================================================================
