---------------------------- MODULE ArgusPipeline ----------------------------
(***************************************************************************)
(* The chain for one pull request after the parser: the summary's          *)
(* invocations for all the reviews published, and the LTM writer.  What    *)
(* comes before is ReviewFeed, which Ingest implements; what lies between  *)
(* a published review and a post of the summary (agents, table, polls) is  *)
(* left open: ArgusReview is about it.  A run of the summary has some      *)
(* published review and some verdict and does its three calls in the order *)
(* of ReviewBoard, which ArgusReview and GitHubClient implement.           *)
(***************************************************************************)
EXTENDS ReviewFeed, LtmWriter

CONSTANTS
  MaxCommits,       \* bound: commits of the pull request
  Outcomes          \* verdicts

ASSUME PipelineAssumption ==
  /\ MaxCommits \in Nat /\ Pages \in Nat
  /\ "none" \notin Outcomes

VARIABLES
  runs,         \* runs[k]: a summary invocation, its commit, review and verdict
  comments,     \* the comments on the pull request: review id and verdict
  marks         \* marks[c]: the review id and verdict in the status of commit c

runVars == <<runs, comments, marks>>
vars == <<feedVars, ltmVars, runVars>>

Commit == 1 .. MaxCommits
Item == [id : Ids, verdict : Outcomes]
NoItem == [id |-> 0, verdict |-> "none"]
Run == [pc : {"free", "post", "mark", "announce", "announced", "failed"},
        sha : Nat, item : Item \cup {NoItem}]

Init ==
  /\ FeedInit
  /\ LtmInit
  /\ runs = [k \in Runs |-> [pc |-> "free", sha |-> 0, item |-> NoItem]]
  /\ comments = {}
  /\ marks = [c \in Commit |-> NoItem]

FeedStep ==
  /\ (NewCommit /\ head < MaxCommits) \/ Publish
  /\ UNCHANGED <<ltmVars, runVars>>

RunAt(k, pc) == runs' = [runs EXCEPT ![k].pc = pc]

\* An invocation for a findings event of a published review has polled and
\* reached its verdict.
RunBegin(k) ==
  /\ runs[k].pc = "free"
  /\ \E r \in reviews, v \in Outcomes :
       runs' = [runs EXCEPT ![k] =
                  [pc |-> "post", sha |-> r.sha, item |-> [id |-> r.id, verdict |-> v]]]
  /\ UNCHANGED <<comments, marks, ltmVars, feedVars>>

RunPost(k) ==
  /\ runs[k].pc = "post"
  /\ comments' = comments \cup {runs[k].item}
  /\ RunAt(k, "mark")
  /\ UNCHANGED <<marks, ltmVars, feedVars>>

\* Mutant of RunMark: the status is set on the pull request's latest commit.
RunMarkHead(k) ==
  /\ runs[k].pc = "mark"
  /\ marks' = [marks EXCEPT ![head] = runs[k].item]
  /\ RunAt(k, "announce")
  /\ UNCHANGED <<comments, ltmVars, feedVars>>

\* set_commit_status, on the event's head_sha.
RunMark(k) ==
  /\ runs[k].pc = "mark"
  /\ marks' = [marks EXCEPT ![runs[k].sha] = runs[k].item]
  /\ RunAt(k, "announce")
  /\ UNCHANGED <<comments, ltmVars, feedVars>>

\* Mutant of RunAnnounce: the completion event is published before the calls to
\* GitHub.
RunAnnounceEarly(k) ==
  /\ runs[k].pc \in {"post", "announce"}
  /\ learnQ' = [learnQ EXCEPT ![k] = Sent]
  /\ RunAt(k, "announced")
  /\ UNCHANGED <<comments, marks, ltmPc, learning, feedVars>>

RunAnnounce(k) ==
  /\ runs[k].pc = "announce"
  /\ learnQ' = [learnQ EXCEPT ![k] = Sent]
  /\ RunAt(k, "announced")
  /\ UNCHANGED <<comments, marks, ltmPc, learning, feedVars>>

\* It ends with an exception or is cut off; its event's next receive is a run of
\* its own.
RunFail(k) ==
  /\ runs[k].pc \in {"post", "mark", "announce"}
  /\ RunAt(k, "failed")
  /\ UNCHANGED <<comments, marks, ltmVars, feedVars>>

RunStep(k) == RunBegin(k) \/ RunPost(k) \/ RunMark(k) \/ RunAnnounce(k) \/ RunFail(k)

LtmStep(k) ==
  /\ LearnReceive(k) \/ PutLearning(k, runs[k].item) \/ LearnReturn(k)
  /\ UNCHANGED <<feedVars, runVars>>

LtmFailure(k) == LearnFail(k) /\ UNCHANGED <<feedVars, runVars>>

\* Nothing is under way: there may be no more commits, reviews or events.
Rest ==
  /\ \A k \in Runs :
       runs[k].pc \in {"free", "announced", "failed"} /\ Settled(learnQ[k])
  /\ UNCHANGED vars

Next ==
  \/ FeedStep
  \/ \E k \in Runs : RunStep(k) \/ LtmStep(k) \/ LtmFailure(k)
  \/ Rest

Spec == Init /\ [][Next]_vars

\* Lambda polls the learn queue and runs what it has started.
FairSpec == Spec /\ \A k \in Runs : WF_vars(LtmStep(k))

-----------------------------------------------------------------------------
(* Properties *)

TypeOK ==
  /\ head \in Nat
  /\ reviews \subseteq [id : Ids, sha : Nat, pages : [1 .. Pages -> Nat]]
  /\ learnQ \in [Runs -> Delivery(LearnReceives)]
  /\ ltmPc \in [Runs -> {"idle", "put", "return"}]
  /\ learning \subseteq Item
  /\ runs \in [Runs -> Run]
  /\ comments \subseteq Item
  /\ marks \in [Commit -> Item \cup {NoItem}]

\* The status a pull request's latest commit shows was set by a review whose
\* files are all of that commit, although files are read when an event is
\* processed and the status is set later still, with pushes in between: reviews
\* of mixed files only ever set the status of commits that are no longer latest.
HeadStatusFromHead ==
  head > 0 /\ marks[head] # NoItem =>
    LET setters == {r \in reviews : r.id = marks[head].id}
    IN  /\ setters # {}
        /\ \A r \in setters : r.sha = head /\ \A k \in 1 .. Pages : r.pages[k] = head

\* A LEARNING# item holds a verdict that stands in a comment of its review, in
\* whatever order the completion events of a review's invocations are delivered,
\* though which of the verdicts it is depends on that order.
LearnedWasPosted == learning \subseteq comments

\* The statuses and completion events of all reviews together.
MarkedWasPosted == \A c \in Commit : marks[c] \in comments \cup {NoItem}

\* A completion event ends as a LEARNING# item of its review or in the learn
\* dead-letter queue.
AnnouncedIsLearned ==
  \A k \in Runs :
    learnQ[k].st # "absent" ~>
      learnQ[k].st = "dead" \/ \E item \in learning : item.id = runs[k].item.id

-----------------------------------------------------------------------------
(* The inductive invariant behind them *)

FeedInv ==
  /\ head <= MaxCommits
  /\ \A r \in reviews :
       r.sha \in 1 .. head /\ \A k \in 1 .. Pages : r.pages[k] \in r.sha .. head
  /\ \A r, s \in reviews : r.id = s.id => r = s

IsReviewOf(item, c) == \E r \in reviews : r.id = item.id /\ r.sha = c

\* A run is of a published review, and posts before it marks or announces.
RunInv ==
  /\ \A k \in Runs :
       /\ runs[k].pc # "free" => runs[k].item \in Item /\ IsReviewOf(runs[k].item, runs[k].sha)
       /\ runs[k].pc \in {"mark", "announce", "announced"} => runs[k].item \in comments
       /\ learnQ[k] # Absent => runs[k].pc = "announced"
       /\ ltmPc[k] = "idle" <=> learnQ[k].st # "inflight"
       /\ learnQ[k].st \in {"absent", "visible"} => learnQ[k].rc < LearnReceives
  /\ \A c \in Commit : marks[c] # NoItem => IsReviewOf(marks[c], c)

\* Of a review whose completion event is acknowledged there is a LEARNING# item,
\* though later events of the review may have overwritten the first: what
\* AnnouncedIsLearned rests on.
LearnedInv ==
  \A k \in Runs :
    ltmPc[k] = "return" \/ learnQ[k].st = "deleted" =>
      \E item \in learning : item.id = runs[k].item.id

IInv ==
  /\ TypeOK
  /\ FeedInv
  /\ RunInv
  /\ LearnedInv
  /\ LearnedWasPosted
  /\ MarkedWasPosted
=============================================================================
