----------------------------- MODULE MCDashboard -----------------------------
(* Two reviews with findings, one without. *)
EXTENDS Dashboard

CONSTANTS r1, r2, clean

SomeFindings == [r \in {r1, r2, clean} |-> IF r = clean THEN {} ELSE {r}]
=============================================================================
