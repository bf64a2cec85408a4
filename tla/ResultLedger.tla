---------------------------- MODULE ResultLedger -----------------------------
(***************************************************************************)
(* What a results file of the benchmark observer is meant to be, whatever  *)
(* happens to the observer that writes it: a ledger of rows, by the number *)
(* of their line, that only grows at its end; a row, once written, stays   *)
(* as it is, and an interaction or a session summary is written once.      *)
(***************************************************************************)
EXTENDS Naturals

CONSTANT Rows     \* records with a kind and an id, which identify them

VARIABLE ledger   \* line number -> row; the numbers of torn lines are left out

SameKey(r, s) == r.kind = s.kind /\ r.id = s.id

Init == ledger = <<>>

Record(row) ==
    /\ \A l \in DOMAIN ledger : ~SameKey(ledger[l], row)
    /\ \E n \in DOMAIN ledger' :
          /\ \A l \in DOMAIN ledger : l < n
          /\ ledger' = [l \in DOMAIN ledger \cup {n} |-> IF l = n THEN row ELSE ledger[l]]

Next == \E row \in Rows : Record(row)

Spec == Init /\ [][Next]_ledger
=============================================================================
