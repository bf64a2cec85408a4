--------------------------- MODULE MCIndexManager ---------------------------
(***************************************************************************)
(* Values for the model checker.  Services are spelled the way             *)
(* settings.apim_services spells them ("prod", "dev"); "PROD" is another   *)
(* spelling of "prod", which settings.service() accepts because it folds   *)
(* the case.                                                               *)
(***************************************************************************)
EXTENDS IndexManagerProperties, TLC

MCCanon == [k \in Keys |-> IF k = "PROD" THEN "prod" ELSE k]

CallerSymmetry == Permutations(Callers)
=============================================================================
