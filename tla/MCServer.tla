------------------------------- MODULE MCServer -------------------------------
(***************************************************************************)
(* Three services; the canary must warn of the second and the third.       *)
(***************************************************************************)
EXTENDS Server
=============================================================================
