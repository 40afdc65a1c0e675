-------------------------- MODULE MCTelemetryBuffer --------------------------
(* Small instances of TelemetryBuffer for TLC.                             *)
EXTENDS TelemetryBuffer

\* Row 1 is answered with a 4xx, and LIMIT is larger than that.
OneRejected == {1}
=============================================================================
