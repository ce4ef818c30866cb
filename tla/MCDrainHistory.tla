----------------------------- MODULE MCDrainHistory -----------------------------
(* DrainHistory for TLC: its constants are set in the configurations. *)
EXTENDS DrainHistory
=============================================================================
