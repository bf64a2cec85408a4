--------------------------- MODULE MCTelemetryTools ---------------------------
(***************************************************************************)
(* Three rows of which two fit an answer; a limit that is refused, one     *)
(* that is reached and one that is lowered.                                *)
(***************************************************************************)
EXTENDS TelemetryTools

MCLimits == {0, 1, 3}
=============================================================================
