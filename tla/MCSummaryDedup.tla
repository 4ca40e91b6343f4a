--------------------------- MODULE MCSummaryDedup ---------------------------
(* Every list of at most MaxFindings findings. *)
EXTENDS SummaryDedup

CONSTANT MaxFindings

AllLists == UNION {[1 .. n -> Finding] : n \in 0 .. MaxFindings}
=============================================================================
