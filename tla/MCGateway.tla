------------------------------- MODULE MCGateway -------------------------------
(* Gateway for TLC: its constants are set in the configurations. *)
EXTENDS Gateway
=============================================================================
