----------------------------- MODULE ArgusReview ----------------------------
(***************************************************************************)
(* One review from the fan-out of its ParsedPREvent to the last event that *)
(* is settled: the review agents and the summary invocations over the      *)
(* table and the summary queue they share.                                 *)
(***************************************************************************)
EXTENDS ReviewAgent, Summary

vars == <<storeVars, agentVars, summaryVars>>

Init == StoreInit /\ AgentInit /\ SummaryInit

\* Every event is acknowledged or in a dead-letter queue: no Lambda will run.
Rest ==
  /\ AgentsSettled
  /\ SummarySettled
  /\ UNCHANGED vars

Next ==
  \/ AgentNext /\ UNCHANGED summaryVars
  \/ SummaryNext /\ UNCHANGED agentVars
  \/ CatchUp /\ UNCHANGED <<agentVars, summaryVars>>
  \/ Rest

Spec == Init /\ [][Next]_vars

\* Lambda polls its queues and runs what it has started; SQS gives back what
\* was not acknowledged.  Failures are possible, never required.
Fairness ==
  /\ \A a \in Agents : WF_vars(AgentStep(a) /\ UNCHANGED summaryVars)
  /\ \A m \in SummaryMsg : WF_vars(SummaryStep(m) /\ UNCHANGED agentVars)

FairSpec == Spec /\ Fairness

-----------------------------------------------------------------------------
(* Properties *)

TypeOK == StoreTypeOK /\ AgentTypeOK /\ SummaryTypeOK

Published(m) == summaryQ[m].st # "absent"

\* Every agent's event and every findings event has been acknowledged.
Quiescent ==
  /\ \A a \in Agents : agentQ[a].st = "deleted"
  /\ \A m \in SummaryMsg : Published(m) => summaryQ[m].st = "deleted"

\* A findings event leaves no more comments than its receives can: what one call
\* of post_review leaves, repeated POSTs included, once per receive, wherever the
\* receives fail; and it is acknowledged only after a receive of it has posted,
\* as process() has no way out before post_review but an exception
\* (summary/agent.py, handler.py).
CopiesPerReceive ==
  \A m \in SummaryMsg :
    /\ posts[m] <= PostCopies * summaryQ[m].rc
    /\ summaryQ[m].st = "deleted" => posts[m] >= 1

\* Nothing decides which of a review's summary invocations comes last, yet when
\* queries are up to date and every event has been acknowledged, one of the
\* reviews posted shows the final contents of the table, however the writes,
\* failures and retries of the agents interleaved with the polls.
CompleteAtQuiescence == ~ReadLag /\ Quiescent => items \in comments

AlwaysFinds(a, severity) ==
  \A r \in Results[a] : \E i \in 1 .. Len(r) : r[i] = severity

\* What an agent finds in every run of a diff, as the security agent's regex
\* scan does, reaches the pull request: if put_item does not fail, queries are
\* up to date and every event has been acknowledged, a critical finding has had
\* a review posted that requests changes.
CriticalReported ==
  ~ReadLag /\ ~WriteFaults /\ Quiescent =>
    \A a \in Agents :
      AlwaysFinds(a, "critical") => \E c \in comments : Verdict(c) = "request_changes"

\* The verdicts on the pull request, the commit status and the completion events
\* move as ReviewBoard allows, over several invocations, crashes between the
\* three calls and redeliveries: a status or a completion event never carries a
\* verdict no posted review has.
Board == INSTANCE ReviewBoard WITH
  Outcomes <- Verdicts,
  StateOf <- StatusOf,
  posted <- {Verdict(c) : c \in comments},
  state <- status,
  announced <- completions

RefinesReviewBoard == Board!BoardSpec

\* Every event is eventually acknowledged or dead-lettered: a summary invocation
\* stops polling though an agent without findings never shows up in the table
\* (summary/agent.py, the loop of _wait_and_fetch_findings), and no failing
\* receive is retried for ever.
EveryEventSettles ==
  /\ \A a \in Agents : []<>Settled(agentQ[a])
  /\ \A m \in SummaryMsg : Published(m) ~> Settled(summaryQ[m])

\* An agent whose event is acknowledged has the pull request commented on,
\* unless the summary invocations end in the dead-letter queue.
ReviewAnswered ==
  \A a \in Agents :
    agentQ[a].st = "deleted" ~>
      \/ comments # {}
      \/ \E m \in SummaryMsg : summaryQ[m].st = "dead"

\* The safety that ReviewAnswered rests on, whatever the queries answer: the
\* event of an acknowledged agent was published, and a receive of it has posted
\* a review unless it is still on its queue or in the dead-letter queue.
AnsweredUnlessDead ==
  \A a \in Agents : agentQ[a].st = "deleted" =>
    LET m == <<a, agentQ[a].rc>>
    IN  posts[m] >= 1 \/ summaryQ[m].st \in {"visible", "inflight", "dead"}

\* How far a receive of an agent's event has come, when its invocation is at pc
\* and the put_item loop at i.
AgentStage(pc, i) ==
  CASE pc = "analyze" -> 0
    [] pc = "write" -> i
    [] pc = "publish" -> MaxItems + 1
    [] pc = "return" -> MaxItems + 2
    [] pc = "idle" -> MaxItems + 3

\* The same of a findings event at st, its invocation at pc after n queries.
SummaryStage(st, pc, n) ==
  CASE st = "absent" -> 0
    [] st # "absent" /\ pc = "query" -> 2 * n
    [] st # "absent" /\ pc = "sleep" -> 2 * n - 1
    [] st # "absent" /\ pc = "post" -> 2 * MaxPolls
    [] st # "absent" /\ pc = "status" -> 2 * MaxPolls + 1
    [] st # "absent" /\ pc = "complete" -> 2 * MaxPolls + 2
    [] st # "absent" /\ pc = "return" -> 2 * MaxPolls + 3
    [] st # "absent" /\ pc = "idle" -> 2 * MaxPolls + 4

WorkBounded ==
  /\ \A a \in Agents :
       /\ agentQ[a].rc <= AgentReceives
       /\ AgentStage(agentPc[a], writeIdx[a]) <= MaxItems + 3
  /\ \A m \in SummaryMsg :
       /\ summaryQ[m].rc <= SummaryReceives
       /\ SummaryStage(summaryQ[m].st, sumPc[m], polls[m]) <= 2 * MaxPolls + 4

AgentAdvances(a) ==
  \/ UNCHANGED <<agentQ[a], agentPc[a], writeIdx[a]>>
  \/ agentQ[a].rc < agentQ'[a].rc
  \/ /\ agentQ[a].rc = agentQ'[a].rc
     /\ AgentStage(agentPc[a], writeIdx[a]) < AgentStage(agentPc'[a], writeIdx'[a])

SummaryAdvances(m) ==
  \/ UNCHANGED <<summaryQ[m], sumPc[m], polls[m]>>
  \/ summaryQ[m].rc < summaryQ'[m].rc
  \/ /\ summaryQ[m].rc = summaryQ'[m].rc
     /\ SummaryStage(summaryQ[m].st, sumPc[m], polls[m])
          < SummaryStage(summaryQ'[m].st, sumPc'[m], polls'[m])

WorkAdvances ==
  /\ \A a \in Agents : AgentAdvances(a)
  /\ \A m \in SummaryMsg : SummaryAdvances(m)

\* No event keeps a Lambda busy for ever: the handling of an event moves to a
\* later stage of the same receive or to a later receive, never back, and there
\* are only so many stages and receives.  The poll loop ends, though an agent
\* without findings never shows up in the table, and so do the retries.
NoEventRunsForever == []WorkBounded /\ [][WorkAdvances]_vars

-----------------------------------------------------------------------------
(* What the repository says and the code does not do *)

\* The description set with status success, no critical issues: once every
\* event has been acknowledged, the status does not say so of a table that has
\* a critical finding.
SuccessMeansNoCritical ==
  Quiescent /\ status = "success" => ~HasSeverity(items, "critical")

-----------------------------------------------------------------------------
(* The inductive invariant behind the safety properties *)

\* An invocation runs exactly while its event is in flight, and an event that is
\* visible can be received once more.
AgentQueueInv ==
  \A a \in Agents :
    /\ agentQ[a].st # "absent"
    /\ agentPc[a] = "idle" <=> agentQ[a].st # "inflight"
    /\ agentQ[a].st = "visible" => agentQ[a].rc < AgentReceives
    /\ agentQ[a].st = "inflight" => agentQ[a].rc >= 1

\* The put_item loop starts at the first finding and stops at the last.
WriteIdxInv ==
  \A a \in Agents :
    /\ agentPc[a] \in {"idle", "analyze"} => writeIdx[a] = 1
    /\ agentPc[a] = "write" => writeIdx[a] <= Len(found[a])

SummaryQueueInv ==
  \A m \in SummaryMsg :
    /\ sumPc[m] = "idle" <=> summaryQ[m].st # "inflight"
    /\ summaryQ[m].st \in {"absent", "visible"} => summaryQ[m].rc < SummaryReceives
    /\ summaryQ[m].st = "inflight" => summaryQ[m].rc >= 1

\* The event of a delivery is published once, at the end of the delivery.
PublishOnceInv ==
  \A a \in Agents : \A n \in 1 .. AgentReceives :
    \/ n < agentQ[a].rc
    \/ n = agentQ[a].rc /\ agentPc[a] \in {"idle", "return"}
    \/ summaryQ[<<a, n>>] = Absent

\* A receive that has not posted yet has its copies still to its credit.
PostsInv ==
  \A m \in SummaryMsg :
    /\ posts[m] <= PostCopies * summaryQ[m].rc
    /\ sumPc[m] \in {"query", "sleep", "post"} =>
         posts[m] + PostCopies <= PostCopies * summaryQ[m].rc
    /\ sumPc[m] \in {"status", "complete", "return"} => posts[m] >= 1 /\ seen[m] \in comments
    /\ summaryQ[m].st = "deleted" => posts[m] >= 1

\* Every agent has written all it will write, unless its delivery is repeated.
AllPublished == \A a \in Agents : agentPc[a] = "return" \/ agentQ[a].st = "deleted"

\* The findings event m is still to post a review that shows the table, or is
\* dead-lettered.
Pending(m) ==
  \/ summaryQ[m].st \in {"visible", "dead"}
  \/ sumPc[m] = "query"
  \/ sumPc[m] \in {"sleep", "post"} /\ seen[m] = items

\* The last agent to finish publishes after the last write, and the event it
\* publishes stays pending until a review with the whole table is posted.
CoverInv ==
  ~ReadLag /\ AllPublished => items \in comments \/ \E m \in SummaryMsg : Pending(m)

\* What a run found is what it announces, up to the writes still to come.
WrittenInv ==
  ~WriteFaults =>
    \A a \in Agents :
      /\ agentPc[a] \in {"write", "publish", "return"} => found[a] \in Results[a]
      /\ agentPc[a] = "write" => \A i \in 1 .. writeIdx[a] - 1 : items[a][i] = found[a][i]
      /\ agentPc[a] \in {"publish", "return"} =>
           \A i \in 1 .. Len(found[a]) : items[a][i] = found[a][i]
      /\ agentQ[a].st = "deleted" /\ AlwaysFinds(a, "critical") =>
           \E i \in Index : items[a][i] = "critical"

\* The findings event of the receive that is acknowledged was published.
HandedOnInv ==
  \A a \in Agents :
    agentPc[a] = "return" \/ agentQ[a].st = "deleted" =>
      <<a, agentQ[a].rc>> \in SummaryMsg /\ Published(<<a, agentQ[a].rc>>)

\* A poll is begun only while the timeout leaves room for it.
PollsInv ==
  \A m \in SummaryMsg :
    /\ sumPc[m] = "query" => polls[m] < MaxPolls
    /\ sumPc[m] = "sleep" => polls[m] \in 1 .. MaxPolls
    /\ sumPc[m] = "idle" => polls[m] = 0

CoreInv ==
  /\ TypeOK
  /\ AgentQueueInv
  /\ WriteIdxInv
  /\ SummaryQueueInv
  /\ PublishOnceInv
  /\ PostsInv
  /\ CoverInv
  /\ WrittenInv

IInv == CoreInv /\ HandedOnInv /\ PollsInv
=============================================================================
