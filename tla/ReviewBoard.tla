---------------------------- MODULE ReviewBoard -----------------------------
(***************************************************************************)
(* What the pull request and the subscribers of review.complete may see of *)
(* one review, whatever the number of invocations behind it: a verdict is  *)
(* posted as a review before the commit status or a completion event can   *)
(* carry it.                                                               *)
(***************************************************************************)
CONSTANT Outcomes       \* the verdicts a review can have
CONSTANT StateOf(_)     \* the commit status a verdict stands for

VARIABLES
  posted,       \* verdicts of the reviews posted so far
  state,        \* the commit status, or "none"
  announced     \* verdicts carried by completion events so far

boardState == <<posted, state, announced>>

BoardInit ==
  /\ posted = {}
  /\ state = "none"
  /\ announced = {}

Post ==
  /\ \E v \in Outcomes : posted' = posted \cup {v}
  /\ UNCHANGED <<state, announced>>

Mark ==
  /\ \E v \in posted : state' = StateOf(v)
  /\ UNCHANGED <<posted, announced>>

Announce ==
  /\ \E v \in posted : announced' = announced \cup {v}
  /\ UNCHANGED <<posted, state>>

BoardNext == Post \/ Mark \/ Announce

BoardSpec == BoardInit /\ [][BoardNext]_boardState
=============================================================================
