---------------------------- MODULE MCGlobalAligner ----------------------------
(* GlobalAligner for TLC. *)
EXTENDS GlobalAligner

TwoOffsets == {0, 1}
================================================================================
