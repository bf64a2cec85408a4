----------------------------- MODULE MCTokenGate -----------------------------
(***************************************************************************)
(* Values for the model checker: a sound token of each key, one of which   *)
(* expires early, a malformed token and one without the required role.     *)
(***************************************************************************)
EXTENDS TokenGate, TLC

Token(k, e, f) == [kid |-> k, exp |-> e, flaws |-> f]

MCTokens == {Token("k1", 9, {}), Token("k2", 2, {}), Token("k1", 9, {"header"}),
             Token("k2", 9, {"role"})}

RequestSymmetry == Permutations(Requests)
=============================================================================
