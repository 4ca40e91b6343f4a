--------------------------- MODULE MCArgusReview ----------------------------
(* Values for the constants of ArgusReview that a .cfg cannot write. *)
EXTENDS ArgusReview, TLC

CONSTANTS security, style

\* A model that now finds a critical issue and now does not answer: what an
\* agent whose Bedrock calls fail from time to time ends with.
CriticalOrNothing == [a \in Agents |-> {<<>>, <<"critical">>}]

\* The security agent's regex scan always finds its secret.
SecretInDiff ==
  [a \in Agents |-> IF a = security THEN {<<"critical">>} ELSE {<<"info">>}]

\* The scan always finds its secret; the style agent may miss its remark.
FlakyStyle ==
  [a \in Agents |-> IF a = security THEN {<<"critical">>} ELSE {<<>>, <<"info">>}]

\* The scan always finds its secret, the model adds a remark in some runs only,
\* so that a second run may leave an item of the first in the table; the style
\* agent finds nothing.
RemarkOrNot ==
  [a \in Agents |-> IF a = security THEN {<<"critical", "info">>, <<"critical">>} ELSE {<<>>}]

AgentSymmetry == Permutations(Agents)
=============================================================================
