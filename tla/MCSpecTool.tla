------------------------------ MODULE MCSpecTool ------------------------------
(***************************************************************************)
(* Calls are interchangeable; the run with a liveness property does not    *)
(* use it.                                                                 *)
(***************************************************************************)
EXTENDS SpecTool, TLC

CallSymmetry == Permutations(Calls)
=============================================================================
