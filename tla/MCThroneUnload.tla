--------------------------- MODULE MCThroneUnload ---------------------------
(* The instance of MCThroneTracker with an unload.                          *)
EXTENDS ThroneUnload, MCThroneTracker
=============================================================================
