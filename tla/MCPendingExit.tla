--------------------------- MODULE MCPendingExit ---------------------------
(* Model-checking instances of PendingExit.                                *)
EXTENDS PendingExit

AllModes == {"STRATEGY", "HARD_FLAT", "EMERGENCY"}

=============================================================================
