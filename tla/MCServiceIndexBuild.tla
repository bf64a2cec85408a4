------------------------- MODULE MCServiceIndexBuild -------------------------
(***************************************************************************)
(* The build is parameterised by sets and numbers only: the model checker  *)
(* needs no definition of its own, apart from the symmetry of the APIs for *)
(* the runs without a liveness property.                                   *)
(***************************************************************************)
EXTENDS ServiceIndexBuild, TLC

ApiSymmetry == Permutations(Apis)
=============================================================================
