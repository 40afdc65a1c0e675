--------------------------- MODULE MCNorviMonitor ---------------------------
(* Small instances of NorviMonitor for TLC.                                *)
EXTENDS NorviMonitor
=============================================================================
