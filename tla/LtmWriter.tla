------------------------------ MODULE LtmWriter ------------------------------
(***************************************************************************)
(* The LTM writer: one put_item of the review's LEARNING# item per         *)
(* completion event of the learn queue.  Every event the summary publishes *)
(* has a review_id, so the branch that skips events without one is never   *)
(* taken.                                                                  *)
(***************************************************************************)
EXTENDS SqsQueue

CONSTANTS
  Runs,             \* the summary's invocations, named for the completion event of each
  LearnReceives     \* maxReceiveCount of the learn queue; 3 in messaging-stack.ts

ASSUME LearnAssumption == LearnReceives \in Nat \ {0}

VARIABLES
  learnQ,       \* learnQ[k]: the completion event of run k on the learn queue
  ltmPc,        \* where the invocation for it is
  learning      \* the LEARNING# items: [id, verdict], one per review id

ltmVars == <<learnQ, ltmPc, learning>>

LtmInit ==
  /\ learnQ = [k \in Runs |-> Absent]
  /\ ltmPc = [k \in Runs |-> "idle"]
  /\ learning = {}

LearnReceive(k) ==
  /\ learnQ[k].st = "visible"
  /\ learnQ' = [learnQ EXCEPT ![k] = Receive(@)]
  /\ ltmPc' = [ltmPc EXCEPT ![k] = "put"]
  /\ UNCHANGED learning

\* put_item: the item of the review is written over.
PutLearning(k, item) ==
  /\ ltmPc[k] = "put"
  /\ learning' = {old \in learning : old.id # item.id} \cup {item}
  /\ ltmPc' = [ltmPc EXCEPT ![k] = "return"]
  /\ UNCHANGED learnQ

EndLtm(k, d) ==
  /\ learnQ' = [learnQ EXCEPT ![k] = d]
  /\ ltmPc' = [ltmPc EXCEPT ![k] = "idle"]
  /\ UNCHANGED learning

LearnReturn(k) == ltmPc[k] = "return" /\ EndLtm(k, Delete(learnQ[k]))

\* Mutant of LearnFail: put_item's exception is logged and the handler returns.
LearnFailSwallowed(k) == learnQ[k].st = "inflight" /\ EndLtm(k, Delete(learnQ[k]))

\* put_item raised, or the invocation was cut off before or after it.
LearnFail(k) ==
  learnQ[k].st = "inflight" /\ EndLtm(k, Release(learnQ[k], LearnReceives))
=============================================================================
