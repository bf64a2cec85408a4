----------------------------- MODULE MCConfigTools ----------------------------
(***************************************************************************)
(* Five items.  The first fits an answer that is whole, but not one that   *)
(* was truncated; the next two fit together in none.                       *)
(***************************************************************************)
EXTENDS ConfigTools

MCWeight == <<3, 2, 2, 1, 1>>
MCLimits == {-1, 1, 2}
MCOffsets == {-1, 0}
=============================================================================
