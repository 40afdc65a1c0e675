---------------------------- MODULE MCOtaManager ----------------------------
(* Small instances of OtaManager for TLC.                                  *)
EXTENDS OtaManager
=============================================================================
