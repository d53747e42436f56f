--------------------------- MODULE CommandLedger ---------------------------
(***************************************************************************)
(* What the application promises for every message a user sends, whatever  *)
(* happens to its processes: the message is accepted once, a provider      *)
(* starts work on it at most once, and its outcome, once recorded, stays.  *)
(* Starting is not tied to the outcome being open: a process may be past   *)
(* its last check when another one records the outcome.                    *)
(***************************************************************************)
CONSTANT Commands

VARIABLES accepted, started, closed

ledger == <<accepted, started, closed>>

Init ==
    /\ accepted \subseteq Commands
    /\ started \subseteq accepted
    /\ closed = {}

Accept(c) ==
    /\ c \notin accepted
    /\ accepted' = accepted \cup {c}
    /\ UNCHANGED <<started, closed>>

Start(c) ==
    /\ c \in accepted \ started
    /\ started' = started \cup {c}
    /\ UNCHANGED <<accepted, closed>>

Close(c) ==
    /\ c \in accepted \ closed
    /\ closed' = closed \cup {c}
    /\ UNCHANGED <<accepted, started>>

Next == \E c \in Commands : Accept(c) \/ Start(c) \/ Close(c)

Spec == Init /\ [][Next]_ledger
=============================================================================
