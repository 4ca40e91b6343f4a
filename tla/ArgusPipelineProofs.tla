------------------------ MODULE ArgusPipelineProofs -------------------------
(***************************************************************************)
(* Proofs that the chain from the published reviews to the LTM writer      *)
(* keeps its safety properties for any number of commits, pages, reviews,  *)
(* runs of the summary and receives of the learn queue.                    *)
(***************************************************************************)
EXTENDS ArgusPipeline, TLAPS

\* The marker for no item is not an item.
LEMMA NoItemIsNone == NoItem \notin Item
<1> QED
  BY PipelineAssumption DEF NoItem, Item

\* The invariant holds initially.
LEMMA InitIInv == Init => IInv
<1> SUFFICES ASSUME Init PROVE IInv
  OBVIOUS
<1> USE PipelineAssumption, LearnAssumption DEF Init, FeedInit, LtmInit
<1>1. TypeOK
  <2>1. learnQ \in [Runs -> Delivery(LearnReceives)]
    BY DEF Absent, Delivery
  <2>2. runs \in [Runs -> Run]
    BY DEF Run
  <2> QED
    BY <2>1, <2>2 DEF TypeOK
<1>2. FeedInv
  BY DEF FeedInv
<1>3. RunInv /\ LearnedInv
  BY DEF RunInv, LearnedInv, Absent
<1> QED
  BY <1>1, <1>2, <1>3 DEF IInv, LearnedWasPosted, MarkedWasPosted

\* A commit or a published review leaves what the runs have done alone.
LEMMA FeedStepInv ==
  ASSUME IInv, FeedStep
  PROVE  IInv'
<1> USE PipelineAssumption DEF IInv
<1>1. UNCHANGED <<learnQ, ltmPc, learning, runs, comments, marks>>
  BY DEF FeedStep, ltmVars, runVars
<1>2. head \in Nat /\ head <= MaxCommits
  BY DEF TypeOK, FeedInv
<1>3. CASE NewCommit /\ head < MaxCommits
  <2>1. head' = head + 1 /\ reviews' = reviews
    BY <1>3 DEF NewCommit
  <2>2. head' \in Nat /\ head' <= MaxCommits /\ head <= head'
    BY <1>2, <1>3, <2>1
  <2>3. FeedInv'
    BY <1>2, <2>1, <2>2 DEF FeedInv
  <2>4. TypeOK'
    BY <1>1, <2>1, <2>2 DEF TypeOK
  <2>5. RunInv' /\ LearnedInv'
    BY <1>1, <2>1 DEF RunInv, IsReviewOf, LearnedInv
  <2> QED
    BY <1>1, <2>3, <2>4, <2>5 DEF LearnedWasPosted, MarkedWasPosted
<1>4. CASE Publish
  <2>1. head' = head
    BY <1>4 DEF Publish
  <2>7. PICK id \in Ids, sha \in 1 .. head :
          /\ \A r \in reviews : r.id # id
          /\ \E pages \in [1 .. Pages -> sha .. head] :
            reviews' = reviews \cup {[id |-> id, sha |-> sha, pages |-> pages]}
    BY <1>4 DEF Publish
  <2>2. PICK pages \in [1 .. Pages -> sha .. head] :
          reviews' = reviews \cup {[id |-> id, sha |-> sha, pages |-> pages]}
    BY <2>7
  <2>3. pages \in [1 .. Pages -> Nat] /\ sha \in Nat
    <3>1. sha .. head \subseteq Nat /\ sha \in Nat
      BY <1>2
    <3> QED
      BY <3>1
  <2>4. TypeOK'
    <3>1. [id |-> id, sha |-> sha, pages |-> pages]
            \in [id : Ids, sha : Nat, pages : [1 .. Pages -> Nat]]
      BY <2>3
    <3>2. reviews' \subseteq [id : Ids, sha : Nat, pages : [1 .. Pages -> Nat]]
      BY <2>2, <3>1 DEF TypeOK
    <3>3. head' \in Nat
      BY <1>2, <2>1
    <3> QED
      BY <1>1, <3>2, <3>3 DEF TypeOK
  <2>5. FeedInv'
    <3>1. \A r, s \in reviews' : r.id = s.id => r = s
      BY <2>2, <2>7 DEF FeedInv
    <3> QED
      BY <2>1, <2>2, <3>1 DEF FeedInv
  <2>6. RunInv' /\ LearnedInv'
    BY <1>1, <2>2 DEF RunInv, IsReviewOf, LearnedInv
  <2> QED
    BY <1>1, <2>4, <2>5, <2>6 DEF LearnedWasPosted, MarkedWasPosted
<1> QED
  BY <1>3, <1>4 DEF FeedStep

\* A run begins with a published review.
LEMMA RunBeginInv ==
  ASSUME IInv, NEW k \in Runs, RunBegin(k)
  PROVE  IInv'
<1> USE DEF IInv
<1>1. /\ runs[k].pc = "free"
      /\ UNCHANGED <<head, reviews, learnQ, ltmPc, learning, comments, marks>>
  BY DEF RunBegin, ltmVars, feedVars
<1>2. PICK r \in reviews, v \in Outcomes :
        runs' = [runs EXCEPT ![k] =
                   [pc |-> "post", sha |-> r.sha, item |-> [id |-> r.id, verdict |-> v]]]
  BY DEF RunBegin
<1>3. r.id \in Ids /\ r.sha \in Nat /\ [id |-> r.id, verdict |-> v] \in Item
  BY DEF TypeOK, Item
<1>4. TypeOK'
  <2>1. runs' \in [Runs -> Run]
    BY <1>2, <1>3 DEF TypeOK, Run
  <2> QED
    BY <1>1, <2>1 DEF TypeOK
<1>5. FeedInv'
  BY <1>1 DEF FeedInv
<1>6. RunInv'
  BY <1>1, <1>2, <1>3 DEF RunInv, TypeOK, IsReviewOf
<1>7. LearnedInv'
  <2>1. ltmPc[k] = "idle" /\ learnQ[k].st = "absent"
    BY <1>1 DEF RunInv, Absent
  <2>2. \A j \in Runs \ {k} : runs'[j] = runs[j]
    BY <1>2 DEF TypeOK
  <2> QED
    BY <1>1, <2>1, <2>2 DEF LearnedInv
<1> QED
  BY <1>1, <1>4, <1>5, <1>6, <1>7 DEF LearnedWasPosted, MarkedWasPosted

\* A run posts, marks its commit, announces or fails.
LEMMA RunGoesOnInv ==
  ASSUME IInv, NEW k \in Runs, RunPost(k) \/ RunMark(k) \/ RunAnnounce(k) \/ RunFail(k)
  PROVE  IInv'
<1> USE DEF IInv
<1>1. UNCHANGED <<head, reviews, ltmPc, learning>>
  BY DEF RunPost, RunMark, RunAnnounce, RunFail, ltmVars, feedVars
<1>2. /\ runs[k] \in Run /\ runs[k].pc # "free"
      /\ runs[k].item \in Item
      /\ \E r \in reviews : r.id = runs[k].item.id /\ r.sha = runs[k].sha
      /\ runs[k].sha \in Commit
  <2>1. runs[k] \in Run /\ runs[k].pc # "free"
    BY DEF RunPost, RunMark, RunAnnounce, RunFail, TypeOK
  <2>2. PICK r \in reviews : r.id = runs[k].item.id /\ r.sha = runs[k].sha
    BY <2>1 DEF RunInv, IsReviewOf
  <2>3. r.sha \in 1 .. head /\ head \in Nat /\ head <= MaxCommits
    BY DEF FeedInv, TypeOK
  <2>4. runs[k].sha \in Commit
    BY <2>2, <2>3, PipelineAssumption DEF Commit
  <2> QED
    BY <2>1, <2>2, <2>4 DEF RunInv
<1>3. FeedInv'
  BY <1>1 DEF FeedInv
<1>8. ASSUME NEW pc, runs' = [runs EXCEPT ![k].pc = pc],
             learnQ' = learnQ \/ learnQ' = [learnQ EXCEPT ![k] = Sent]
      PROVE  LearnedInv'
  <2>1. \A j \in Runs : runs'[j].item = runs[j].item
    BY <1>8 DEF TypeOK, Run
  <2>2. \A j \in Runs : learnQ'[j].st = "deleted" => learnQ[j].st = "deleted"
    BY <1>8 DEF TypeOK, Sent
  <2> QED
    BY <1>1, <2>1, <2>2 DEF LearnedInv
<1>4. CASE RunPost(k)
  <2>1. /\ runs[k].pc = "post" /\ runs' = [runs EXCEPT ![k].pc = "mark"]
        /\ comments' = comments \cup {runs[k].item} /\ UNCHANGED <<learnQ, marks>>
    BY <1>4 DEF RunPost, RunAt, ltmVars
  <2>2. TypeOK'
    BY <1>1, <1>2, <2>1 DEF TypeOK, Run
  <2>3. RunInv'
    BY <1>1, <2>1 DEF RunInv, TypeOK, Run, IsReviewOf
  <2> QED
    BY <1>1, <1>3, <1>8, <2>1, <2>2, <2>3 DEF LearnedWasPosted, MarkedWasPosted
<1>5. CASE RunMark(k)
  <2>1. /\ runs[k].pc = "mark" /\ runs' = [runs EXCEPT ![k].pc = "announce"]
        /\ marks' = [marks EXCEPT ![runs[k].sha] = runs[k].item] /\ UNCHANGED <<learnQ, comments>>
    BY <1>5 DEF RunMark, RunAt, ltmVars
  <2>2. TypeOK'
    BY <1>1, <1>2, <2>1 DEF TypeOK, Run
  <2>3. RunInv'
    BY <1>1, <1>2, <2>1 DEF RunInv, TypeOK, Run, IsReviewOf
  <2>4. runs[k].item \in comments
    BY <2>1 DEF RunInv
  <2>5. MarkedWasPosted'
    BY <2>1, <2>4 DEF MarkedWasPosted, TypeOK
  <2> QED
    BY <1>1, <1>3, <1>8, <2>1, <2>2, <2>3, <2>5 DEF LearnedWasPosted
<1>6. CASE RunAnnounce(k)
  <2>1. /\ runs[k].pc = "announce" /\ runs' = [runs EXCEPT ![k].pc = "announced"]
        /\ learnQ' = [learnQ EXCEPT ![k] = Sent] /\ UNCHANGED <<comments, marks>>
    BY <1>6 DEF RunAnnounce, RunAt
  <2>2. Sent \in Delivery(LearnReceives) /\ Sent.st = "visible" /\ Sent.rc < LearnReceives
    BY LearnAssumption DEF Sent, Delivery
  <2>3. TypeOK'
    BY <1>1, <1>2, <2>1, <2>2 DEF TypeOK, Run
  <2>4. learnQ[k] = Absent
    BY <2>1 DEF RunInv
  <2>5. ltmPc[k] = "idle"
    BY <2>4 DEF RunInv, Absent
  <2>6. RunInv'
    BY <1>1, <2>1, <2>2, <2>5 DEF RunInv, TypeOK, Run, IsReviewOf
  <2> QED
    BY <1>1, <1>3, <1>8, <2>1, <2>3, <2>6 DEF LearnedWasPosted, MarkedWasPosted
<1>7. CASE RunFail(k)
  <2>1. /\ runs[k].pc \in {"post", "mark", "announce"} /\ runs' = [runs EXCEPT ![k].pc = "failed"]
        /\ UNCHANGED <<learnQ, comments, marks>>
    BY <1>7 DEF RunFail, RunAt, ltmVars
  <2>2. TypeOK'
    BY <1>1, <1>2, <2>1 DEF TypeOK, Run
  <2>3. RunInv'
    BY <1>1, <2>1 DEF RunInv, TypeOK, Run, IsReviewOf
  <2> QED
    BY <1>1, <1>3, <1>8, <2>1, <2>2, <2>3 DEF LearnedWasPosted, MarkedWasPosted
<1> QED
  BY <1>4, <1>5, <1>6, <1>7

\* The LTM writer writes only what its event announced, which was posted.
LEMMA LtmInv ==
  ASSUME IInv, NEW k \in Runs, LtmStep(k) \/ LtmFailure(k)
  PROVE  IInv'
<1> USE LearnAssumption DEF IInv
<1>1. UNCHANGED <<head, reviews, runs, comments, marks>>
  BY DEF LtmStep, LtmFailure, feedVars, runVars
<1>2. /\ learnQ[k] \in Delivery(LearnReceives) /\ learnQ[k] # Absent
      /\ ltmPc[k] \in {"put", "return"} \/ learnQ[k].st = "visible" \/ learnQ[k].st = "inflight"
  BY DEF LtmStep, LtmFailure, LearnReceive, PutLearning, LearnReturn, LearnFail, TypeOK, RunInv, Absent
<1>3. runs[k].pc = "announced" /\ runs[k].item \in Item /\ runs[k].item \in comments
  BY <1>2 DEF RunInv
<1>4. FeedInv' /\ MarkedWasPosted'
  BY <1>1 DEF FeedInv, MarkedWasPosted
<1>5. CASE LearnReceive(k)
  <2>1. learnQ[k].st = "visible" /\ learnQ[k].rc < LearnReceives
    BY <1>5 DEF LearnReceive, RunInv
  <2>2. /\ Receive(learnQ[k]) \in Delivery(LearnReceives) /\ Receive(learnQ[k]).st = "inflight"
        /\ Receive(learnQ[k]) # Absent
    BY <1>2, <2>1 DEF Delivery, Receive, Absent
  <2>3. /\ learnQ' = [learnQ EXCEPT ![k] = Receive(learnQ[k])]
        /\ ltmPc' = [ltmPc EXCEPT ![k] = "put"] /\ learning' = learning
    BY <1>5 DEF LearnReceive
  <2>4. TypeOK'
    BY <1>1, <2>2, <2>3 DEF TypeOK
  <2>5. RunInv'
    BY <1>1, <1>3, <2>2, <2>3 DEF RunInv, TypeOK, IsReviewOf
  <2>6. LearnedInv'
    BY <1>1, <2>2, <2>3 DEF LearnedInv, TypeOK
  <2> QED
    BY <1>1, <1>4, <2>3, <2>4, <2>5, <2>6 DEF LearnedWasPosted
<1>6. CASE PutLearning(k, runs[k].item)
  <2>1. /\ ltmPc[k] = "put" /\ ltmPc' = [ltmPc EXCEPT ![k] = "return"] /\ learnQ' = learnQ
        /\ learning' = {old \in learning : old.id # runs[k].item.id} \cup {runs[k].item}
        /\ learning' \subseteq learning \cup {runs[k].item}
    BY <1>6 DEF PutLearning
  <2>2. TypeOK'
    BY <1>1, <1>3, <2>1 DEF TypeOK
  <2>3. RunInv'
    BY <1>1, <2>1 DEF RunInv, TypeOK, IsReviewOf
  <2>4. LearnedInv'
    <3> SUFFICES ASSUME NEW j \in Runs, ltmPc'[j] = "return" \/ learnQ'[j].st = "deleted"
                 PROVE  \E item \in learning' : item.id = runs[j].item.id
      BY <1>1 DEF LearnedInv
    <3>1. CASE runs[j].item.id = runs[k].item.id
      BY <2>1, <3>1
    <3>2. CASE runs[j].item.id # runs[k].item.id
      <4>1. \E item \in learning : item.id = runs[j].item.id
        BY <2>1, <3>2 DEF LearnedInv, TypeOK
      <4> QED
        BY <2>1, <3>2, <4>1
    <3> QED
      BY <3>1, <3>2
  <2> QED
    BY <1>1, <1>3, <1>4, <2>1, <2>2, <2>3, <2>4 DEF LearnedWasPosted
<1>7. ASSUME NEW d \in Delivery(LearnReceives), EndLtm(k, d), d.st \in {"deleted", "visible", "dead"},
             d.st = "visible" => d.rc < LearnReceives, d.st = "deleted" => ltmPc[k] = "return"
      PROVE  IInv'
  <2>1. /\ learnQ' = [learnQ EXCEPT ![k] = d] /\ ltmPc' = [ltmPc EXCEPT ![k] = "idle"]
        /\ learning' = learning
    BY <1>7 DEF EndLtm
  <2>2. TypeOK'
    BY <1>1, <2>1 DEF TypeOK
  <2>3. RunInv'
    BY <1>1, <1>3, <1>7, <2>1 DEF RunInv, TypeOK, IsReviewOf
  <2>4. LearnedInv'
    BY <1>1, <1>7, <2>1 DEF LearnedInv, TypeOK
  <2> QED
    BY <1>1, <1>4, <2>1, <2>2, <2>3, <2>4 DEF LearnedWasPosted
<1>8. CASE LearnReturn(k)
  <2>1. Delete(learnQ[k]) \in Delivery(LearnReceives) /\ Delete(learnQ[k]).st = "deleted"
    BY <1>2 DEF Delivery, Delete
  <2> QED
    BY <1>7, <1>8, <2>1 DEF LearnReturn
<1>9. CASE LearnFail(k)
  <2>1. /\ Release(learnQ[k], LearnReceives) \in Delivery(LearnReceives)
        /\ Release(learnQ[k], LearnReceives).st \in {"visible", "dead"}
        /\ Release(learnQ[k], LearnReceives).st = "visible" =>
             Release(learnQ[k], LearnReceives).rc < LearnReceives
    BY <1>2 DEF Delivery, Release
  <2> QED
    BY <1>7, <1>9, <2>1 DEF LearnFail
<1> QED
  BY <1>5, <1>6, <1>8, <1>9 DEF LtmStep, LtmFailure

\* Every step preserves the invariant.
LEMMA NextIInv == IInv /\ [Next]_vars => IInv'
<1> SUFFICES ASSUME IInv, [Next]_vars PROVE IInv'
  OBVIOUS
<1>1. CASE UNCHANGED vars
  BY <1>1 DEF vars, feedVars, ltmVars, runVars, IInv, TypeOK, FeedInv, RunInv, IsReviewOf,
              LearnedInv, LearnedWasPosted, MarkedWasPosted
<1> QED
  BY <1>1, FeedStepInv, RunBeginInv, RunGoesOnInv, LtmInv DEF Next, RunStep, Rest

\* The inductive invariant holds in every reachable state.
THEOREM PipelineInvariant == Spec => []IInv
<1> QED
  BY InitIInv, NextIInv, PTL DEF Spec

\* The status of the latest commit comes from a review of that commit's files
\* only: its review's pages lie between its commit and the head, the same.
THEOREM HeadStatusSound == Spec => []HeadStatusFromHead
<1>1. IInv => HeadStatusFromHead
  <2> SUFFICES ASSUME IInv, head > 0, marks[head] # NoItem
               PROVE  /\ \E r \in reviews : r.id = marks[head].id
                      /\ \A r \in reviews :
                           r.id = marks[head].id =>
                             r.sha = head /\ \A i \in 1 .. Pages : r.pages[i] = head
    BY DEF HeadStatusFromHead
  <2>1. head \in Commit /\ head \in Nat
    BY PipelineAssumption DEF IInv, TypeOK, FeedInv, Commit
  <2>2. PICK r \in reviews : r.id = marks[head].id /\ r.sha = head
    BY <2>1 DEF IInv, RunInv, IsReviewOf
  <2>3. \A i \in 1 .. Pages : r.pages[i] \in head .. head
    BY <2>2 DEF IInv, FeedInv
  <2>4. \A s \in reviews : s.id = marks[head].id => s = r
    BY <2>2 DEF IInv, FeedInv
  <2> QED
    BY <2>1, <2>2, <2>3, <2>4
<1> QED
  BY <1>1, PipelineInvariant, PTL

\* What the LTM writer stores of a review was posted as a comment of it.
THEOREM LearnedFromComments == Spec => []LearnedWasPosted
<1>1. IInv => LearnedWasPosted
  BY DEF IInv
<1> QED
  BY <1>1, PipelineInvariant, PTL

\* An acknowledged completion event has left a LEARNING# item of its review, the
\* one it wrote or one that a later event of the same review wrote over it.
THEOREM AcknowledgedIsLearned == Spec => []LearnedInv
<1>1. IInv => LearnedInv
  BY DEF IInv
<1> QED
  BY <1>1, PipelineInvariant, PTL
=============================================================================
