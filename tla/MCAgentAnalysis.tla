--------------------------- MODULE MCAgentAnalysis ---------------------------
(* The diffs and replies of small pull requests. *)
EXTENDS AgentAnalysis

At(n, c, s) == [line |-> n, category |-> c, severity |-> s]

\* No line matches; a password only; a line that matches two patterns; two lines.
SmallDiffs == {<<>>, <<{}, {4}>>, <<{4, 6}>>, <<{6}, {}, {4}>>}

\* Remarks of the model on lines the scan flagged and on others, twice the same
\* key, and replies with a malformed finding first, in the middle or last.
SmallReplies ==
  LET secret == At(1, Secret, "info")
      password == At(2, Secret, "critical")
      other == At(1, "other", "critical")
      again == At(1, "other", "warning") IN
  {<<>>, <<secret>>, <<password, other>>, <<again, other>>,
   <<Malformed, other>>, <<again, Malformed, other>>}
=============================================================================
