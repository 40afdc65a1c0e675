------------------------- MODULE MCGatewayTranslator -------------------------
(* Small instances of GatewayTranslator for TLC.                           *)
EXTENDS GatewayTranslator

\* Entry 2 arrives in the middle of a batch.
OneBad == {2}
=============================================================================
