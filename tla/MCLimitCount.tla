----------------------------- MODULE MCLimitCount -----------------------------
(* LimitCount for TLC: its constants are set in the configuration. *)
EXTENDS LimitCount
=============================================================================
