------------------------------ MODULE Summary -------------------------------
(***************************************************************************)
(* The summary Lambda.  Every findings event an agent publishes starts one *)
(* invocation of its own: poll the table, post a review, set the commit    *)
(* status, publish review.complete, return.  Nothing ties the invocations  *)
(* of one review together but the table they read and the pull request     *)
(* they write to.                                                          *)
(***************************************************************************)
EXTENDS ReviewStore

CONSTANTS
  ExpectedAgents,   \* expected_agents; 4 in summary/handler.py
  PollTimeout,      \* timeout_seconds; 15 in summary/handler.py
  PollInterval,     \* the sleep between two polls; 2
  PostCopies,       \* comments one post_review may leave, its repeated POSTs included
  QueueUrlSet       \* whether the function's environment has INPUT_QUEUE_URL

ASSUME SummaryAssumption ==
  /\ ExpectedAgents \in Nat \ {0}
  /\ PollTimeout \in Nat \ {0}
  /\ PollInterval \in Nat \ {0}
  /\ PostCopies \in Nat \ {0}
  /\ QueueUrlSet \in BOOLEAN

VARIABLES
  sumPc,        \* where the invocation for a findings event is
  polls,        \* queries it has made
  seen,         \* the findings its last query returned
  posts,        \* history: comments made for a findings event, all its receives
  comments,     \* what the reviews posted on the pull request show
  status,       \* the commit status of context argus/review
  completions   \* verdicts published on review.complete

summaryLocals == <<sumPc, polls, seen>>
boardVars == <<comments, status, completions>>
summaryVars == <<sumPc, polls, seen, posts, boardVars>>

Verdicts == {"approve", "comment", "request_changes"}

SummaryPc == {"idle", "query", "sleep", "post", "status", "complete", "return"}

\* Queries that fit in the timeout when a query takes no time.
MaxPolls == (PollTimeout + PollInterval - 1) \div PollInterval

SummaryTypeOK ==
  /\ sumPc \in [SummaryMsg -> SummaryPc]
  /\ polls \in [SummaryMsg -> Nat]
  /\ seen \in [SummaryMsg -> Table]
  /\ posts \in [SummaryMsg -> Nat]
  /\ comments \subseteq Table
  /\ status \in {"none", "success", "failure"}
  /\ completions \subseteq Verdicts

SummaryInit ==
  /\ sumPc = [m \in SummaryMsg |-> "idle"]
  /\ polls = [m \in SummaryMsg |-> 0]
  /\ seen = [m \in SummaryMsg |-> EmptyTable]
  /\ posts = [m \in SummaryMsg |-> 0]
  /\ comments = {}
  /\ status = "none"
  /\ completions = {}

SeenAgents(t) == {a \in Agents : \E i \in Index : t[a][i] # NoItem}

HasSeverity(t, severity) == \E a \in Agents, i \in Index : t[a][i] = severity

Verdict(t) ==
  IF HasSeverity(t, "critical") THEN "request_changes"
  ELSE IF SeenAgents(t) # {} THEN "comment"
  ELSE "approve"

StatusOf(verdict) == IF verdict = "request_changes" THEN "failure" ELSE "success"

GoTo(m, pc) == sumPc' = [sumPc EXCEPT ![m] = pc]

\* The invocation for m ends: its message becomes d, its locals are gone.
EndSummary(m, d) ==
  /\ summaryQ' = [summaryQ EXCEPT ![m] = d]
  /\ GoTo(m, "idle")
  /\ polls' = [polls EXCEPT ![m] = 0]
  /\ seen' = [seen EXCEPT ![m] = EmptyTable]
  /\ UNCHANGED <<posts, boardVars, items, replica>>

\* Mutant of SummaryReceive: a debounce that drops the events of a review that
\* already has a comment.
SummaryReceiveDebounced(m) ==
  /\ QueueUrlSet
  /\ summaryQ[m].st = "visible"
  /\ \/ /\ comments = {}
        /\ summaryQ' = [summaryQ EXCEPT ![m] = Receive(@)]
        /\ GoTo(m, "query")
        /\ UNCHANGED <<polls, seen, posts, boardVars, items, replica>>
     \/ /\ comments # {}
        /\ EndSummary(m, Delete(Receive(summaryQ[m])))

SummaryReceive(m) ==
  /\ QueueUrlSet
  /\ summaryQ[m].st = "visible"
  /\ summaryQ' = [summaryQ EXCEPT ![m] = Receive(@)]
  /\ GoTo(m, "query")
  /\ UNCHANGED <<polls, seen, posts, boardVars, items, replica>>

\* The import of the module raises, as get_transport always does without a queue
\* URL and the secret's retrieval may: the event is received, no handler runs,
\* the event is released.
SummaryInitError(m) ==
  /\ summaryQ[m].st = "visible"
  /\ EndSummary(m, Release(Receive(summaryQ[m]), SummaryReceives))

\* One turn of the poll loop up to its sleep.
Query(m) ==
  /\ sumPc[m] = "query"
  /\ \E answer \in QueryAnswers :
       /\ seen' = [seen EXCEPT ![m] = answer]
       /\ GoTo(m, IF Cardinality(SeenAgents(answer)) >= ExpectedAgents THEN "post" ELSE "sleep")
  /\ polls' = [polls EXCEPT ![m] = @ + 1]
  /\ UNCHANGED <<posts, boardVars, storeVars>>

\* Mutant of Wake: the loop runs until every agent has been seen.
WakeWhateverTheTime(m) ==
  /\ sumPc[m] = "sleep"
  /\ GoTo(m, "query")
  /\ UNCHANGED <<polls, seen, posts, boardVars, storeVars>>

\* The sleep ends before the timeout.
Wake(m) ==
  /\ sumPc[m] = "sleep"
  /\ polls[m] < MaxPolls
  /\ GoTo(m, "query")
  /\ UNCHANGED <<polls, seen, posts, boardVars, storeVars>>

\* The sleep ends after the timeout; queries take time, so after any poll.
PollTimesOut(m) ==
  /\ sumPc[m] = "sleep"
  /\ GoTo(m, "post")
  /\ UNCHANGED <<polls, seen, posts, boardVars, storeVars>>

\* PyGithub repeats a POST whose answer is lost or has a status of 500, so the
\* comment may be on the pull request more than once (GitHubClient says how
\* often).  A call that raises after it has posted is this and SummaryFail.
PostReview(m) ==
  /\ sumPc[m] = "post"
  /\ comments' = comments \cup {seen[m]}
  /\ \E n \in 1 .. PostCopies : posts' = [posts EXCEPT ![m] = @ + n]
  /\ GoTo(m, "status")
  /\ UNCHANGED <<polls, seen, status, completions, storeVars>>

\* Mutant of SetStatus: the status is computed from the table, not from the
\* findings the review was made of.
SetStatusFromTable(m) ==
  /\ sumPc[m] = "status"
  /\ status' = StatusOf(Verdict(items))
  /\ GoTo(m, "complete")
  /\ UNCHANGED <<polls, seen, posts, comments, completions, storeVars>>

\* Mutant of SetStatus: a call that raises is answered by doing the invocation's
\* calls to GitHub once more, from the post on.
SetStatusReposts(m) ==
  /\ sumPc[m] = "status"
  /\ \/ /\ status' = StatusOf(Verdict(seen[m]))
        /\ GoTo(m, "complete")
     \/ /\ GoTo(m, "post")
        /\ UNCHANGED status
  /\ UNCHANGED <<polls, seen, posts, comments, completions, storeVars>>

SetStatus(m) ==
  /\ sumPc[m] = "status"
  /\ status' = StatusOf(Verdict(seen[m]))
  /\ GoTo(m, "complete")
  /\ UNCHANGED <<polls, seen, posts, comments, completions, storeVars>>

PublishComplete(m) ==
  /\ sumPc[m] = "complete"
  /\ completions' = completions \cup {Verdict(seen[m])}
  /\ GoTo(m, "return")
  /\ UNCHANGED <<polls, seen, posts, comments, status, storeVars>>

SummaryReturn(m) ==
  /\ sumPc[m] = "return"
  /\ EndSummary(m, Delete(summaryQ[m]))

\* Mutant of SummaryFail: the handler logs the exception and returns.
SummaryFailSwallowed(m) ==
  /\ summaryQ[m].st = "inflight"
  /\ EndSummary(m, Delete(summaryQ[m]))

\* A call of the invocation raises, or its Lambda is cut off.
SummaryFail(m) ==
  /\ summaryQ[m].st = "inflight"
  /\ EndSummary(m, Release(summaryQ[m], SummaryReceives))

SummaryStep(m) ==
  \/ SummaryReceive(m)
  \/ SummaryInitError(m)
  \/ Query(m)
  \/ Wake(m)
  \/ PollTimesOut(m)
  \/ PostReview(m)
  \/ SetStatus(m)
  \/ PublishComplete(m)
  \/ SummaryReturn(m)

SummaryNext == \E m \in SummaryMsg : SummaryStep(m) \/ SummaryFail(m)

SummarySettled == \A m \in SummaryMsg : Settled(summaryQ[m])
=============================================================================
