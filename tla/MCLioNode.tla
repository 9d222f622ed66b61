------------------------------ MODULE MCLioNode ------------------------------
(* LioNode for TLC. *)
EXTENDS LioNode
=============================================================================
