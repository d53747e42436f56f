---------------------------- MODULE MC_Context ----------------------------
(* Context on small instances. *)
EXTENDS Context
===========================================================================
