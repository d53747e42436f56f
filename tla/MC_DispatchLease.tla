-------------------------- MODULE MC_DispatchLease --------------------------
(* Small instances of DispatchLease for TLC. *)
EXTENDS DispatchLease, TLC

(* All messages to one conversation *)
OneConversation == [c \in Commands |-> CHOOSE v \in Conversations : TRUE]

(* Rows, incarnations and messages are interchangeable when no row is      *)
(* singled out as legacy; without legacy rows those too.                   *)
Symmetry ==
    Permutations(Instances) \cup Permutations(Runs \ LegacyRuns)
        \cup Permutations(Commands)
=============================================================================
