----------------------------- MODULE MCConfigWatch -----------------------------
(* ConfigWatch for TLC: its constants are bounds, set in the configurations. *)
EXTENDS ConfigWatch

=============================================================================
