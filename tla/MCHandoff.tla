------------------------------ MODULE MCHandoff ------------------------------
(* Instances of SelectiveHandoff for TLC. *)
EXTENDS SelectiveHandoff
=============================================================================
