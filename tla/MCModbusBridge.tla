--------------------------- MODULE MCModbusBridge ---------------------------
(* Small instances of ModbusBridge for TLC.                                *)
EXTENDS ModbusBridge
=============================================================================
