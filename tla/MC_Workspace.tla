---------------------------- MODULE MC_Workspace ----------------------------
EXTENDS Workspace, TLC

CONSTANTS a, b

Left(attempts, removals, writes, swaps, faults, crashes) ==
  [attempts |-> attempts, removals |-> removals, writes |-> writes,
   swaps |-> swaps, faults |-> faults, crashes |-> crashes]

Isolated == a :> "isolated" @@ b :> "isolated"
Mixed    == a :> "isolated" @@ b :> "projectless"

Mixes == {<<Isolated, Left(2, 1, 2, 1, 1, 1)>>, <<Mixed, Left(3, 1, 1, 1, 1, 0)>>}
=============================================================================
