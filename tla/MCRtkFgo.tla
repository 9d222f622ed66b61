-------------------------------- MODULE MCRtkFgo --------------------------------
(* RtkFgo for TLC. *)
EXTENDS RtkFgo
=================================================================================
