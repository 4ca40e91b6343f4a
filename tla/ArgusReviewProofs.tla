-------------------------- MODULE ArgusReviewProofs -------------------------
(***************************************************************************)
(* Proofs that ArgusReview keeps its safety properties for every set of    *)
(* agents, every receive limit, every result an agent may have and every   *)
(* polling parameter.                                                      *)
(***************************************************************************)
EXTENDS ArgusReview, TLAPS

USE DEF Severity, Index

\* What releasing and receiving make of a delivery.
LEMMA DeliverySteps ==
  ASSUME NEW limit \in Nat \ {0}, NEW d \in Delivery(limit)
  PROVE  /\ Sent \in Delivery(limit)
         /\ Absent \in Delivery(limit)
         /\ Delete(d) \in Delivery(limit)
         /\ Delete(d).st = "deleted" /\ Delete(d).rc = d.rc
         /\ Release(d, limit) \in Delivery(limit)
         /\ Release(d, limit).st \in {"visible", "dead"} /\ Release(d, limit).rc = d.rc
         /\ Release(d, limit).st = "visible" => Release(d, limit).rc < limit
         /\ d.rc < limit => /\ Receive(d) \in Delivery(limit)
                            /\ Receive(d).st = "inflight" /\ Receive(d).rc = d.rc + 1
<1> QED
  BY DEF Delivery, Sent, Absent, Delete, Release, Receive

\* Every initial state satisfies the inductive invariant.
LEMMA InitCore == Init => CoreInv
<1> SUFFICES ASSUME Init PROVE CoreInv
  OBVIOUS
<1> USE StoreAssumption, AgentAssumption, SummaryAssumption
<1>1. StoreTypeOK
  BY DeliverySteps DEF Init, StoreInit, StoreTypeOK, EmptyTable, Table, Absent, Delivery
<1>2. AgentTypeOK
  BY DEF Init, AgentInit, AgentTypeOK, Sent, Delivery, Findings
<1>3. SummaryTypeOK
  BY DEF Init, SummaryInit, SummaryTypeOK, SummaryPc, EmptyTable, Table
<1>4. AgentQueueInv /\ WriteIdxInv /\ SummaryQueueInv /\ PublishOnceInv /\ PostsInv
  BY DEF Init, StoreInit, AgentInit, SummaryInit, AgentQueueInv, WriteIdxInv, SummaryQueueInv,
         PublishOnceInv, PostsInv, SummaryMsg, Sent, Absent
<1>5. CoverInv
  BY DEF Init, AgentInit, CoverInv, AllPublished, Sent
<1>6. WrittenInv
  BY DEF Init, AgentInit, WrittenInv, Sent
<1> QED
  BY <1>1, <1>2, <1>3, <1>4, <1>5, <1>6 DEF CoreInv, TypeOK

\* What a receive adds to the comments it allows for.
LEMMA CopiesOfReceives ==
  ASSUME NEW c \in Nat, NEW d \in Nat
  PROVE  /\ PostCopies * c \in Nat
         /\ PostCopies * (c + 1) = PostCopies * c + PostCopies
         /\ c <= d => PostCopies * c <= PostCopies * d
<1>1. PostCopies \in Nat
  BY SummaryAssumption
<1>2. PostCopies * c \in Nat /\ PostCopies * (c + 1) = PostCopies * c + PostCopies
  BY <1>1
<1>3. ASSUME c <= d
      PROVE  PostCopies * c <= PostCopies * d
  <2>1. PICK e \in Nat : d = c + e
    <3>1. d - c \in Nat /\ d = c + (d - c)
      BY <1>3
    <3> QED
      BY <3>1
  <2>2. PostCopies * e \in Nat /\ PostCopies * (c + e) = PostCopies * c + PostCopies * e
    BY <1>1, <2>1
  <2> QED
    BY <1>2, <2>1, <2>2
<1> QED
  BY <1>2, <1>3

\* What a step of the agents leaves alone: the summary invocations' own state.
LEMMA AgentFrame ==
  ASSUME CoreInv, UNCHANGED <<summaryQ, summaryVars>>
  PROVE  SummaryTypeOK' /\ SummaryQueueInv' /\ PostsInv'
<1> QED
  BY DEF CoreInv, TypeOK, SummaryTypeOK, SummaryQueueInv, PostsInv, summaryVars, boardVars, Table

\* Receiving an event starts an invocation, for a delivery that has published
\* nothing.
LEMMA AgentReceiveStep ==
  ASSUME CoreInv, NEW a \in Agents, AgentReceive(a), UNCHANGED summaryVars
  PROVE  CoreInv'
<1> USE StoreAssumption, AgentAssumption DEF CoreInv, TypeOK, AgentReceive
<1>1. agentQ[a] \in Delivery(AgentReceives) /\ agentQ[a].rc < AgentReceives
  BY DEF AgentTypeOK, AgentQueueInv
<1>2. /\ agentQ' = [agentQ EXCEPT ![a] = Receive(agentQ[a])]
      /\ Receive(agentQ[a]) \in Delivery(AgentReceives)
      /\ Receive(agentQ[a]).st = "inflight"
      /\ Receive(agentQ[a]).rc = agentQ[a].rc + 1
  BY <1>1, DeliverySteps
<1>3. StoreTypeOK'
  BY DEF StoreTypeOK, storeVars, Table
<1>4. AgentTypeOK'
  BY <1>2 DEF AgentTypeOK
<1>5. SummaryTypeOK' /\ SummaryQueueInv' /\ PostsInv'
  BY AgentFrame DEF storeVars
<1>6. AgentQueueInv' /\ WriteIdxInv'
  BY <1>1, <1>2 DEF AgentQueueInv, WriteIdxInv, AgentTypeOK, Delivery
<1>7. PublishOnceInv'
  <2> SUFFICES ASSUME NEW b \in Agents, NEW n \in 1 .. AgentReceives
               PROVE  \/ n < agentQ'[b].rc
                      \/ n = agentQ'[b].rc /\ agentPc'[b] \in {"idle", "return"}
                      \/ summaryQ'[<<b, n>>] = Absent
    BY DEF PublishOnceInv
  <2>1. CASE b = a
    <3>1. agentQ'[a].rc = agentQ[a].rc + 1 /\ agentQ[a].rc \in Nat
      BY <1>1, <1>2 DEF AgentTypeOK, Delivery
    <3>2. UNCHANGED summaryQ
      BY DEF storeVars
    <3> QED
      BY <3>1, <3>2, <2>1 DEF PublishOnceInv
  <2>2. CASE b # a
    BY <1>1, <1>2, <2>2 DEF PublishOnceInv, storeVars, AgentTypeOK
  <2> QED
    BY <2>1, <2>2
<1>8. CoverInv'
  BY <1>2 DEF CoverInv, AllPublished, AgentTypeOK
<1>9. WrittenInv'
  BY <1>2 DEF WrittenInv, AgentTypeOK, storeVars
<1> QED
  BY <1>3, <1>4, <1>5, <1>6, <1>7, <1>8, <1>9

\* The scan settles what the run found.
LEMMA AnalyzeStep ==
  ASSUME CoreInv, NEW a \in Agents, Analyze(a), UNCHANGED summaryVars
  PROVE  CoreInv'
<1> USE StoreAssumption, AgentAssumption DEF CoreInv, TypeOK
<1>1. PICK r \in Results[a] :
        /\ found' = [found EXCEPT ![a] = r]
        /\ agentPc' = [agentPc EXCEPT ![a] = IF r = <<>> THEN "publish" ELSE "write"]
  BY DEF Analyze
<1>2. r \in Findings /\ Len(r) \in Nat /\ (r # <<>> => Len(r) >= 1) /\ (r = <<>> => Len(r) = 0)
  BY DEF Findings
<1>3. agentPc[a] = "analyze" /\ UNCHANGED <<agentQ, writeIdx, items, replica, summaryQ>>
  BY DEF Analyze, storeVars
<1>4. StoreTypeOK'
  BY <1>3 DEF StoreTypeOK, Table
<1>5. AgentTypeOK'
  BY <1>1, <1>2, <1>3 DEF AgentTypeOK
<1>6. SummaryTypeOK' /\ SummaryQueueInv' /\ PostsInv'
  BY <1>3, AgentFrame
<1>7. AgentQueueInv' /\ WriteIdxInv'
  BY <1>1, <1>2, <1>3 DEF AgentQueueInv, AgentTypeOK, WriteIdxInv
<1>8. PublishOnceInv'
  BY <1>1, <1>3 DEF PublishOnceInv, AgentTypeOK
<1>9. CoverInv'
  BY <1>1, <1>3 DEF CoverInv, AllPublished, AgentTypeOK, AgentQueueInv
<1>10. WrittenInv'
  BY <1>1, <1>2, <1>3 DEF WrittenInv, AgentTypeOK, WriteIdxInv
<1> QED
  BY <1>4, <1>5, <1>6, <1>7, <1>8, <1>9, <1>10

\* One put_item of the loop.  The table changes, so what was pending need not
\* be, but the agent has not published.
LEMMA WriteFindingStep ==
  ASSUME CoreInv, NEW a \in Agents, WriteFinding(a), UNCHANGED summaryVars
  PROVE  CoreInv'
<1> USE StoreAssumption, AgentAssumption DEF CoreInv, TypeOK
<1> DEFINE i == writeIdx[a]
<1>1. /\ agentPc[a] = "write" /\ i \in 1 .. MaxItems /\ i <= Len(found[a])
      /\ Len(found[a]) \in Nat /\ Len(found[a]) <= MaxItems
      /\ found[a][i] \in Severity
  BY DEF WriteFinding, WriteIdxInv, AgentTypeOK, Findings
<1>2. /\ items' = [items EXCEPT ![a][i] = found[a][i]]
      /\ writeIdx' = [writeIdx EXCEPT ![a] = i + 1]
      /\ agentPc' = [agentPc EXCEPT ![a] = IF i = Len(found[a]) THEN "publish" ELSE "write"]
      /\ UNCHANGED <<agentQ, found, replica, summaryQ>>
  BY DEF WriteFinding, Put
<1>3. StoreTypeOK'
  BY <1>1, <1>2 DEF StoreTypeOK, Table
<1>4. AgentTypeOK'
  BY <1>1, <1>2 DEF AgentTypeOK
<1>5. SummaryTypeOK' /\ SummaryQueueInv' /\ PostsInv'
  BY <1>2, AgentFrame
<1>6. AgentQueueInv' /\ WriteIdxInv'
  BY <1>1, <1>2 DEF AgentQueueInv, AgentTypeOK, WriteIdxInv
<1>7. PublishOnceInv'
  BY <1>1, <1>2 DEF PublishOnceInv, AgentTypeOK
<1>8. CoverInv'
  <2>1. agentPc'[a] # "return" /\ agentQ'[a].st # "deleted"
    BY <1>1, <1>2 DEF AgentTypeOK, AgentQueueInv
  <2> QED
    BY <2>1 DEF CoverInv, AllPublished
<1>9. WrittenInv'
  <2> SUFFICES ASSUME ~WriteFaults, NEW b \in Agents
               PROVE  /\ agentPc'[b] \in {"write", "publish", "return"} => found'[b] \in Results[b]
                      /\ agentPc'[b] = "write" =>
                           \A k \in 1 .. writeIdx'[b] - 1 : items'[b][k] = found'[b][k]
                      /\ agentPc'[b] \in {"publish", "return"} =>
                           \A k \in 1 .. Len(found'[b]) : items'[b][k] = found'[b][k]
                      /\ agentQ'[b].st = "deleted" /\ AlwaysFinds(b, "critical") =>
                           \E k \in Index : items'[b][k] = "critical"
    BY DEF WrittenInv, AlwaysFinds
  <2>1. CASE b = a
    <3>1. \A k \in 1 .. i : items'[a][k] = found[a][k]
      <4>1. \A k \in 1 .. i - 1 : items[a][k] = found[a][k]
        BY <1>1 DEF WrittenInv
      <4>2. items'[a] = [items[a] EXCEPT ![i] = found[a][i]] /\ DOMAIN items[a] = 1 .. MaxItems
        BY <1>2 DEF StoreTypeOK, Table
      <4> QED
        BY <1>1, <4>1, <4>2
    <3>2. agentQ[a].st # "deleted"
      BY <1>1 DEF AgentQueueInv
    <3> QED
      BY <1>1, <1>2, <2>1, <3>1, <3>2 DEF WrittenInv, AgentTypeOK
  <2>2. CASE b # a
    BY <1>1, <1>2, <2>2 DEF WrittenInv, AgentTypeOK, StoreTypeOK, Table
  <2> QED
    BY <2>1, <2>2
<1> QED
  BY <1>3, <1>4, <1>5, <1>6, <1>7, <1>8, <1>9

\* A put_item that raises: the loop is left, nothing else changes.
LEMMA WriteFindingFailsStep ==
  ASSUME CoreInv, NEW a \in Agents, WriteFindingFails(a), UNCHANGED summaryVars
  PROVE  CoreInv'
<1> USE StoreAssumption, AgentAssumption DEF CoreInv, TypeOK
<1>1. /\ WriteFaults /\ agentPc[a] = "write"
      /\ agentPc' = [agentPc EXCEPT ![a] = "publish"]
      /\ UNCHANGED <<agentQ, found, writeIdx, items, replica, summaryQ>>
  BY DEF WriteFindingFails, storeVars
<1>2. StoreTypeOK'
  BY <1>1 DEF StoreTypeOK, Table
<1>3. AgentTypeOK'
  BY <1>1 DEF AgentTypeOK
<1>4. SummaryTypeOK' /\ SummaryQueueInv' /\ PostsInv'
  BY <1>1, AgentFrame
<1>5. AgentQueueInv' /\ WriteIdxInv'
  BY <1>1 DEF AgentQueueInv, AgentTypeOK, WriteIdxInv
<1>6. PublishOnceInv'
  BY <1>1 DEF PublishOnceInv, AgentTypeOK
<1>7. CoverInv'
  BY <1>1 DEF CoverInv, AllPublished, AgentTypeOK, AgentQueueInv
<1>8. WrittenInv'
  BY <1>1 DEF WrittenInv
<1> QED
  BY <1>2, <1>3, <1>4, <1>5, <1>6, <1>7, <1>8

\* The event is published after the last write, for a message that was absent:
\* it is visible, hence pending.
LEMMA PublishFindingsStep ==
  ASSUME CoreInv, NEW a \in Agents, PublishFindings(a), UNCHANGED summaryVars
  PROVE  CoreInv'
<1> USE StoreAssumption, AgentAssumption DEF CoreInv, TypeOK
<1> DEFINE m == <<a, agentQ[a].rc>>
<1>1. /\ agentPc[a] = "publish"
      /\ summaryQ' = [summaryQ EXCEPT ![m] = Sent]
      /\ agentPc' = [agentPc EXCEPT ![a] = "return"]
      /\ UNCHANGED <<agentQ, found, writeIdx, items, replica>>
  BY DEF PublishFindings
<1>2. agentQ[a].st = "inflight" /\ agentQ[a].rc \in 1 .. AgentReceives
  BY <1>1 DEF AgentQueueInv, AgentTypeOK, Delivery
<1>3. m \in SummaryMsg /\ summaryQ[m] = Absent
  BY <1>1, <1>2 DEF SummaryMsg, PublishOnceInv
<1>4. sumPc[m] = "idle" /\ posts[m] = 0
  <2>1. sumPc[m] = "idle"
    BY <1>3 DEF SummaryQueueInv, Absent
  <2>2. summaryQ[m].rc = 0 /\ posts[m] \in Nat /\ posts[m] <= PostCopies * summaryQ[m].rc
    BY <1>3 DEF PostsInv, Absent, SummaryTypeOK
  <2>3. PostCopies * 0 = 0
    BY SummaryAssumption
  <2> QED
    BY <2>1, <2>2, <2>3
<1>5. UNCHANGED <<sumPc, seen, posts, polls, comments, status, completions>>
  BY DEF summaryVars, boardVars
<1>6. StoreTypeOK'
  BY <1>1, DeliverySteps DEF StoreTypeOK, Sent, Delivery
<1>7. AgentTypeOK'
  BY <1>1 DEF AgentTypeOK
<1>8. SummaryTypeOK'
  BY <1>5 DEF SummaryTypeOK, Table
<1>9. SummaryQueueInv'
  BY <1>1, <1>3, <1>4, <1>5 DEF SummaryQueueInv, StoreTypeOK, Sent
<1>10. PostsInv'
  <2>1. summaryQ'[m].rc = summaryQ[m].rc /\ summaryQ'[m].st = "visible"
    BY <1>1, <1>3 DEF StoreTypeOK, Sent, Absent
  <2>2. \A n \in SummaryMsg : n # m => summaryQ'[n] = summaryQ[n]
    BY <1>1, <1>3 DEF StoreTypeOK
  <2> QED
    BY <1>4, <1>5, <2>1, <2>2 DEF PostsInv
<1>11. AgentQueueInv' /\ WriteIdxInv'
  BY <1>1 DEF AgentQueueInv, AgentTypeOK, WriteIdxInv
<1>12. PublishOnceInv'
  BY <1>1, <1>2, <1>3 DEF PublishOnceInv, AgentTypeOK, StoreTypeOK, SummaryMsg
<1>13. CoverInv'
  <2>1. summaryQ'[m].st = "visible"
    BY <1>1, <1>3 DEF StoreTypeOK, Sent
  <2> QED
    BY <1>3, <2>1 DEF CoverInv, Pending, SummaryMsg
<1>14. WrittenInv'
  BY <1>1 DEF WrittenInv, AgentTypeOK
<1> QED
  BY <1>6, <1>7, <1>8, <1>9, <1>10, <1>11, <1>12, <1>13, <1>14

\* The invocation of an agent ends, either given back or, having published,
\* acknowledged.
LEMMA EndAgentStep ==
  ASSUME CoreInv, NEW a \in Agents, NEW d \in Delivery(AgentReceives),
         EndAgent(a, d), UNCHANGED summaryVars,
         agentQ[a].st = "inflight", d.rc = agentQ[a].rc,
         \/ d.st \in {"visible", "dead"} /\ (d.st = "visible" => d.rc < AgentReceives)
         \/ d.st = "deleted" /\ agentPc[a] = "return"
  PROVE  CoreInv'
<1> USE StoreAssumption, AgentAssumption DEF CoreInv, TypeOK
<1>1. /\ agentQ' = [agentQ EXCEPT ![a] = d]
      /\ agentPc' = [agentPc EXCEPT ![a] = "idle"]
      /\ found' = [found EXCEPT ![a] = <<>>]
      /\ writeIdx' = [writeIdx EXCEPT ![a] = 1]
      /\ UNCHANGED <<items, replica, summaryQ>>
  BY DEF EndAgent, storeVars
<1>2. StoreTypeOK'
  BY <1>1 DEF StoreTypeOK, Table
<1>3. AgentTypeOK'
  <2>1. <<>> \in Findings /\ 1 \in 1 .. MaxItems + 1
    BY DEF Findings
  <2> QED
    BY <1>1, <2>1 DEF AgentTypeOK
<1>4. SummaryTypeOK' /\ SummaryQueueInv' /\ PostsInv'
  BY <1>1, AgentFrame
<1>5. AgentQueueInv' /\ WriteIdxInv'
  BY <1>1 DEF AgentQueueInv, AgentTypeOK, WriteIdxInv
<1>6. PublishOnceInv'
  BY <1>1 DEF PublishOnceInv, AgentTypeOK
<1>7. CoverInv'
  <2>1. AllPublished' => AllPublished
    BY <1>1 DEF AllPublished, AgentTypeOK
  <2> QED
    BY <1>1, <2>1 DEF CoverInv, Pending, summaryVars, boardVars
<1>8. WrittenInv'
  <2> SUFFICES ASSUME ~WriteFaults, NEW b \in Agents
               PROVE  /\ agentPc'[b] \in {"write", "publish", "return"} => found'[b] \in Results[b]
                      /\ agentPc'[b] = "write" =>
                           \A k \in 1 .. writeIdx'[b] - 1 : items'[b][k] = found'[b][k]
                      /\ agentPc'[b] \in {"publish", "return"} =>
                           \A k \in 1 .. Len(found'[b]) : items'[b][k] = found'[b][k]
                      /\ agentQ'[b].st = "deleted" /\ AlwaysFinds(b, "critical") =>
                           \E k \in Index : items'[b][k] = "critical"
    BY DEF WrittenInv, AlwaysFinds
  <2>1. CASE b = a
    <3>1. agentPc'[a] = "idle" /\ agentQ'[a] = d
      BY <1>1 DEF AgentTypeOK
    <3>2. CASE d.st = "deleted" /\ AlwaysFinds(a, "critical")
      <4>1. PICK k \in 1 .. Len(found[a]) : found[a][k] = "critical"
        BY <3>2 DEF WrittenInv, AlwaysFinds
      <4>2. k \in Index
        BY <4>1 DEF AgentTypeOK, Findings
      <4>3. items[a][k] = "critical"
        BY <3>2, <4>1 DEF WrittenInv
      <4> QED
        BY <1>1, <2>1, <3>1, <4>2, <4>3
    <3> QED
      BY <2>1, <3>1, <3>2
  <2>2. CASE b # a
    BY <1>1, <2>2 DEF WrittenInv, AgentTypeOK
  <2> QED
    BY <2>1, <2>2
<1> QED
  BY <1>2, <1>3, <1>4, <1>5, <1>6, <1>7, <1>8

\* Every step of an agent preserves the inductive invariant.
LEMMA AgentNextCore ==
  ASSUME CoreInv, AgentNext, UNCHANGED summaryVars
  PROVE  CoreInv'
<1>1. PICK a \in Agents : AgentStep(a) \/ AgentFail(a)
  BY DEF AgentNext
<1>2. CASE AgentReceive(a)
  BY <1>2, AgentReceiveStep
<1>3. CASE Analyze(a)
  BY <1>3, AnalyzeStep
<1>4. CASE WriteFinding(a)
  BY <1>4, WriteFindingStep
<1>5. CASE WriteFindingFails(a)
  BY <1>5, WriteFindingFailsStep
<1>6. CASE PublishFindings(a)
  BY <1>6, PublishFindingsStep
<1>7. agentQ[a] \in Delivery(AgentReceives) /\ AgentReceives \in Nat \ {0}
  BY StoreAssumption DEF CoreInv, TypeOK, AgentTypeOK
<1>8. CASE AgentReturn(a)
  <2>1. agentPc[a] = "return" /\ agentQ[a].st = "inflight" /\ EndAgent(a, Delete(agentQ[a]))
    BY <1>8 DEF AgentReturn, CoreInv, AgentQueueInv
  <2> QED
    BY <1>7, <2>1, DeliverySteps, EndAgentStep
<1>9. CASE AgentFail(a)
  <2>1. agentQ[a].st = "inflight" /\ EndAgent(a, Release(agentQ[a], AgentReceives))
    BY <1>9 DEF AgentFail
  <2> QED
    BY <1>7, <2>1, DeliverySteps, EndAgentStep
<1> QED
  BY <1>1, <1>2, <1>3, <1>4, <1>5, <1>6, <1>8, <1>9 DEF AgentStep

\* What a summary invocation leaves alone: the agents' own state.
LEMMA SummaryFrame ==
  ASSUME CoreInv, UNCHANGED <<agentVars, items>>
  PROVE  AgentTypeOK' /\ AgentQueueInv' /\ WriteIdxInv' /\ WrittenInv' /\ AllPublished' = AllPublished
<1> QED
  BY DEF CoreInv, TypeOK, AgentTypeOK, AgentQueueInv, WriteIdxInv, WrittenInv, AllPublished, agentVars

\* The end of a summary invocation, or of a receive that starts none: the event
\* is given back, or acknowledged after the review was posted.
LEMMA EndSummaryStep ==
  ASSUME CoreInv, NEW m \in SummaryMsg, NEW d \in Delivery(SummaryReceives),
         EndSummary(m, d), UNCHANGED agentVars,
         summaryQ[m].st # "absent", summaryQ[m].rc <= d.rc,
         \/ d.st \in {"visible", "dead"} /\ (d.st = "visible" => d.rc < SummaryReceives)
         \/ d.st = "deleted" /\ sumPc[m] = "return"
  PROVE  CoreInv'
<1> USE StoreAssumption DEF CoreInv, TypeOK
<1>1. /\ summaryQ' = [summaryQ EXCEPT ![m] = d]
      /\ sumPc' = [sumPc EXCEPT ![m] = "idle"]
      /\ polls' = [polls EXCEPT ![m] = 0]
      /\ seen' = [seen EXCEPT ![m] = EmptyTable]
      /\ UNCHANGED <<posts, comments, status, completions, items, replica>>
  BY DEF EndSummary, GoTo, boardVars
<1>2. AgentTypeOK' /\ AgentQueueInv' /\ WriteIdxInv' /\ WrittenInv' /\ AllPublished' = AllPublished
  BY <1>1, SummaryFrame
<1>3. StoreTypeOK'
  BY <1>1 DEF StoreTypeOK, Table
<1>4. SummaryTypeOK'
  <2>1. EmptyTable \in Table
    BY DEF EmptyTable, Table
  <2> QED
    BY <1>1, <2>1 DEF SummaryTypeOK, SummaryPc
<1>5. SummaryQueueInv'
  BY <1>1 DEF SummaryQueueInv, StoreTypeOK, SummaryTypeOK
<1>6. PublishOnceInv'
  <2>1. \A n \in SummaryMsg : summaryQ[n] = Absent => summaryQ'[n] = Absent
    BY <1>1 DEF StoreTypeOK, Absent
  <2> QED
    BY <2>1 DEF PublishOnceInv, agentVars, SummaryMsg
<1>7. PostsInv'
  <2> SUFFICES ASSUME NEW n \in SummaryMsg
               PROVE  /\ posts'[n] <= PostCopies * summaryQ'[n].rc
                      /\ sumPc'[n] \in {"query", "sleep", "post"} =>
                           posts'[n] + PostCopies <= PostCopies * summaryQ'[n].rc
                      /\ sumPc'[n] \in {"status", "complete", "return"} =>
                           posts'[n] >= 1 /\ seen'[n] \in comments'
                      /\ summaryQ'[n].st = "deleted" => posts'[n] >= 1
    BY DEF PostsInv
  <2>1. CASE n = m
    <3>1. posts[m] \in Nat /\ summaryQ[m].rc \in Nat /\ d.rc \in Nat
      BY DEF SummaryTypeOK, StoreTypeOK, Delivery
    <3>2. /\ PostCopies * summaryQ[m].rc <= PostCopies * d.rc
          /\ PostCopies * summaryQ[m].rc \in Nat /\ PostCopies * d.rc \in Nat
      BY <3>1, CopiesOfReceives
    <3> QED
      BY <1>1, <2>1, <3>1, <3>2 DEF PostsInv, StoreTypeOK, SummaryTypeOK
  <2>2. CASE n # m
    BY <1>1, <2>2 DEF PostsInv, StoreTypeOK, SummaryTypeOK
  <2> QED
    BY <2>1, <2>2
<1>8. CoverInv'
  <2> SUFFICES ASSUME ~ReadLag, AllPublished, items \notin comments
               PROVE  \E n \in SummaryMsg : Pending(n)'
    BY <1>1, <1>2 DEF CoverInv
  <2>1. PICK n \in SummaryMsg : Pending(n)
    BY DEF CoverInv
  <2>2. CASE n = m
    <3>1. d.st # "deleted"
      BY <2>1, <2>2 DEF Pending, SummaryQueueInv, StoreTypeOK, SummaryTypeOK
    <3> QED
      BY <1>1, <2>2, <3>1 DEF Pending, StoreTypeOK
  <2>3. CASE n # m
    BY <1>1, <2>1, <2>3 DEF Pending, StoreTypeOK, SummaryTypeOK
  <2> QED
    BY <2>2, <2>3
<1> QED
  BY <1>2, <1>3, <1>4, <1>5, <1>6, <1>7, <1>8

\* Receiving a findings event starts an invocation that has still to query.
LEMMA SummaryReceiveStep ==
  ASSUME CoreInv, NEW m \in SummaryMsg, SummaryReceive(m), UNCHANGED agentVars
  PROVE  CoreInv'
<1> USE StoreAssumption DEF CoreInv, TypeOK
<1> DEFINE d == Receive(summaryQ[m])
<1>1. /\ summaryQ[m].st = "visible"
      /\ summaryQ' = [summaryQ EXCEPT ![m] = d]
      /\ sumPc' = [sumPc EXCEPT ![m] = "query"]
      /\ UNCHANGED <<polls, seen, posts, comments, status, completions, items, replica>>
  BY DEF SummaryReceive, GoTo, boardVars
<1>2. summaryQ[m] \in Delivery(SummaryReceives) /\ summaryQ[m].rc < SummaryReceives
  BY <1>1 DEF StoreTypeOK, SummaryQueueInv
<1>3. d \in Delivery(SummaryReceives) /\ d.st = "inflight" /\ d.rc = summaryQ[m].rc + 1
  BY <1>2, DeliverySteps
<1> HIDE DEF d
<1>4. AgentTypeOK' /\ AgentQueueInv' /\ WriteIdxInv' /\ WrittenInv' /\ AllPublished' = AllPublished
  BY <1>1, SummaryFrame
<1>5. StoreTypeOK'
  BY <1>1, <1>3 DEF StoreTypeOK, Table
<1>6. SummaryTypeOK'
  BY <1>1 DEF SummaryTypeOK, SummaryPc, Table
<1>7. SummaryQueueInv'
  <2>1. d.rc >= 1
    BY <1>2, <1>3 DEF Delivery
  <2> QED
    BY <1>1, <1>3, <2>1 DEF SummaryQueueInv, StoreTypeOK, SummaryTypeOK
<1>8. PublishOnceInv'
  <2>1. \A n \in SummaryMsg : summaryQ[n] = Absent => summaryQ'[n] = Absent
    BY <1>1 DEF StoreTypeOK, Absent
  <2> QED
    BY <2>1 DEF PublishOnceInv, agentVars, SummaryMsg
<1>9. PostsInv'
  <2>1. posts[m] \in Nat /\ summaryQ[m].rc \in Nat
    BY <1>2 DEF SummaryTypeOK, Delivery
  <2>2. /\ PostCopies * d.rc = PostCopies * summaryQ[m].rc + PostCopies
        /\ PostCopies * summaryQ[m].rc \in Nat /\ PostCopies \in Nat
    BY <1>3, <2>1, CopiesOfReceives, SummaryAssumption
  <2> QED
    BY <1>1, <1>3, <2>1, <2>2 DEF PostsInv, StoreTypeOK, SummaryTypeOK
<1>10. CoverInv'
  <2>1. \A n \in SummaryMsg : Pending(n) => Pending(n)'
    BY <1>1 DEF Pending, StoreTypeOK, SummaryTypeOK
  <2> QED
    BY <1>1, <1>4, <2>1 DEF CoverInv
<1> QED
  BY <1>4, <1>5, <1>6, <1>7, <1>8, <1>9, <1>10

\* A step inside an invocation moves its program counter and leaves the queues
\* and the table alone.
LEMMA InsideStep ==
  ASSUME CoreInv, NEW m \in SummaryMsg, sumPc[m] # "idle",
         NEW pc \in SummaryPc \ {"idle"}, GoTo(m, pc),
         UNCHANGED <<agentVars, storeVars>>
  PROVE  /\ StoreTypeOK' /\ AgentTypeOK' /\ sumPc' \in [SummaryMsg -> SummaryPc]
         /\ AgentQueueInv' /\ WriteIdxInv' /\ WrittenInv' /\ SummaryQueueInv' /\ PublishOnceInv'
         /\ AllPublished' = AllPublished
<1> USE DEF CoreInv, TypeOK, storeVars
<1>1. AgentTypeOK' /\ AgentQueueInv' /\ WriteIdxInv' /\ WrittenInv' /\ AllPublished' = AllPublished
  BY SummaryFrame
<1>2. StoreTypeOK'
  BY DEF StoreTypeOK, Table
<1>3. sumPc' \in [SummaryMsg -> SummaryPc]
  BY DEF SummaryTypeOK, GoTo
<1>4. SummaryQueueInv'
  BY DEF SummaryQueueInv, SummaryTypeOK, GoTo
<1>5. PublishOnceInv'
  BY DEF PublishOnceInv, agentVars
<1> QED
  BY <1>1, <1>2, <1>3, <1>4, <1>5

\* With queries that are up to date, what a query returns is the table.
LEMMA QueryStep ==
  ASSUME CoreInv, NEW m \in SummaryMsg, Query(m), UNCHANGED agentVars
  PROVE  CoreInv'
<1> USE DEF CoreInv, TypeOK, storeVars, boardVars
<1>1. PICK answer \in QueryAnswers :
        /\ seen' = [seen EXCEPT ![m] = answer]
        /\ GoTo(m, IF Cardinality(SeenAgents(answer)) >= ExpectedAgents THEN "post" ELSE "sleep")
  BY DEF Query
<1>2. PICK pc \in {"post", "sleep"} : GoTo(m, pc)
  BY <1>1
<1>3. /\ sumPc[m] = "query"
      /\ polls' = [polls EXCEPT ![m] = polls[m] + 1]
      /\ UNCHANGED <<posts, comments, status, completions, items, replica, summaryQ>>
  BY DEF Query
<1>4. answer \in Table /\ (~ReadLag => answer = items)
  BY <1>1 DEF QueryAnswers, StoreTypeOK
<1>5. /\ StoreTypeOK' /\ AgentTypeOK' /\ sumPc' \in [SummaryMsg -> SummaryPc]
      /\ AgentQueueInv' /\ WriteIdxInv' /\ WrittenInv' /\ SummaryQueueInv' /\ PublishOnceInv'
      /\ AllPublished' = AllPublished
  BY <1>2, <1>3, InsideStep DEF SummaryPc
<1>6. sumPc' = [sumPc EXCEPT ![m] = pc]
  BY <1>2 DEF GoTo
<1>7. SummaryTypeOK'
  <2>1. seen' \in [SummaryMsg -> Table]
    BY <1>1, <1>4 DEF SummaryTypeOK
  <2>2. polls' \in [SummaryMsg -> Nat]
    BY <1>3 DEF SummaryTypeOK
  <2> QED
    BY <1>3, <1>5, <2>1, <2>2 DEF SummaryTypeOK, Table
<1>8. PostsInv'
  BY <1>1, <1>3, <1>6 DEF PostsInv, SummaryTypeOK
<1>9. CoverInv'
  <2>1. ~ReadLag => \A n \in SummaryMsg : Pending(n) => Pending(n)'
    BY <1>1, <1>3, <1>4, <1>6 DEF Pending, SummaryTypeOK
  <2> QED
    BY <1>3, <1>5, <2>1 DEF CoverInv
<1> QED
  BY <1>5, <1>7, <1>8, <1>9

\* Waking to poll again, or giving up: a query is still to come, or what was
\* seen last is what will be posted.
LEMMA AfterSleepStep ==
  ASSUME CoreInv, NEW m \in SummaryMsg, Wake(m) \/ PollTimesOut(m), UNCHANGED agentVars
  PROVE  CoreInv'
<1> USE DEF CoreInv, TypeOK, storeVars, boardVars
<1>1. PICK pc \in {"query", "post"} : GoTo(m, pc)
  BY DEF Wake, PollTimesOut
<1>2. /\ sumPc[m] = "sleep"
      /\ UNCHANGED <<polls, seen, posts, comments, status, completions, items, replica, summaryQ>>
  BY DEF Wake, PollTimesOut
<1>3. /\ StoreTypeOK' /\ AgentTypeOK' /\ sumPc' \in [SummaryMsg -> SummaryPc]
      /\ AgentQueueInv' /\ WriteIdxInv' /\ WrittenInv' /\ SummaryQueueInv' /\ PublishOnceInv'
      /\ AllPublished' = AllPublished
  BY <1>1, <1>2, InsideStep DEF SummaryPc
<1>4. sumPc' = [sumPc EXCEPT ![m] = pc]
  BY <1>1 DEF GoTo
<1>5. SummaryTypeOK'
  BY <1>2, <1>3 DEF SummaryTypeOK, Table
<1>6. PostsInv'
  BY <1>2, <1>4 DEF PostsInv, SummaryTypeOK
<1>7. CoverInv'
  <2>1. \A n \in SummaryMsg : Pending(n) => Pending(n)'
    BY <1>2, <1>4 DEF Pending, SummaryTypeOK
  <2> QED
    BY <1>2, <1>3, <2>1 DEF CoverInv
<1> QED
  BY <1>3, <1>5, <1>6, <1>7

\* The post: a pending event that has seen the table puts it in a comment.
LEMMA PostReviewStep ==
  ASSUME CoreInv, NEW m \in SummaryMsg, PostReview(m), UNCHANGED agentVars
  PROVE  CoreInv'
<1> USE DEF CoreInv, TypeOK, storeVars
<1> PICK copies \in 1 .. PostCopies : posts' = [posts EXCEPT ![m] = posts[m] + copies]
  BY DEF PostReview
<1>1. /\ sumPc[m] = "post"
      /\ GoTo(m, "status")
      /\ comments' = comments \cup {seen[m]}
      /\ posts' = [posts EXCEPT ![m] = posts[m] + copies]
      /\ UNCHANGED <<polls, seen, status, completions, items, replica, summaryQ>>
  BY DEF PostReview
<1>2. /\ StoreTypeOK' /\ AgentTypeOK' /\ sumPc' \in [SummaryMsg -> SummaryPc]
      /\ AgentQueueInv' /\ WriteIdxInv' /\ WrittenInv' /\ SummaryQueueInv' /\ PublishOnceInv'
      /\ AllPublished' = AllPublished
  BY <1>1, InsideStep DEF SummaryPc
<1>3. sumPc' = [sumPc EXCEPT ![m] = "status"]
  BY <1>1 DEF GoTo
<1>4. SummaryTypeOK'
  <2>1. comments' \subseteq Table /\ posts' \in [SummaryMsg -> Nat]
    BY <1>1 DEF SummaryTypeOK
  <2> QED
    BY <1>1, <1>2, <2>1 DEF SummaryTypeOK, Table
<1>5. PostsInv'
  <2>1. /\ posts[m] \in Nat /\ summaryQ[m].rc \in Nat
        /\ posts[m] + PostCopies <= PostCopies * summaryQ[m].rc
    BY <1>1 DEF SummaryTypeOK, StoreTypeOK, Delivery, PostsInv
  <2>2. PostCopies * summaryQ[m].rc \in Nat /\ PostCopies \in Nat
    BY <2>1, CopiesOfReceives, SummaryAssumption
  <2> QED
    BY <1>1, <1>3, <2>1, <2>2 DEF PostsInv, SummaryTypeOK
<1>6. CoverInv'
  <2> SUFFICES ASSUME ~ReadLag, AllPublished, items \notin comments'
               PROVE  \E n \in SummaryMsg : Pending(n)'
    BY <1>1, <1>2 DEF CoverInv
  <2>1. PICK n \in SummaryMsg : Pending(n)
    BY <1>1 DEF CoverInv
  <2>2. n # m
    BY <1>1, <2>1 DEF Pending, SummaryQueueInv
  <2> QED
    BY <1>1, <1>3, <2>1, <2>2 DEF Pending, SummaryTypeOK
<1> QED
  BY <1>2, <1>4, <1>5, <1>6

\* The two calls after the post concern neither the table nor the comments.
LEMMA AfterPostStep ==
  ASSUME CoreInv, NEW m \in SummaryMsg, SetStatus(m) \/ PublishComplete(m), UNCHANGED agentVars
  PROVE  CoreInv'
<1> USE DEF CoreInv, TypeOK, storeVars
<1>1. PICK pc \in {"complete", "return"} : GoTo(m, pc)
  BY DEF SetStatus, PublishComplete
<1>2. /\ sumPc[m] \in {"status", "complete"}
      /\ UNCHANGED <<polls, seen, posts, comments, items, replica, summaryQ>>
  BY DEF SetStatus, PublishComplete
<1>3. /\ status' \in {"none", "success", "failure"}
      /\ completions' \subseteq Verdicts
  BY DEF SetStatus, PublishComplete, SummaryTypeOK, StatusOf, Verdict, Verdicts
<1>4. /\ StoreTypeOK' /\ AgentTypeOK' /\ sumPc' \in [SummaryMsg -> SummaryPc]
      /\ AgentQueueInv' /\ WriteIdxInv' /\ WrittenInv' /\ SummaryQueueInv' /\ PublishOnceInv'
      /\ AllPublished' = AllPublished
  BY <1>1, <1>2, InsideStep DEF SummaryPc
<1>5. sumPc' = [sumPc EXCEPT ![m] = pc]
  BY <1>1 DEF GoTo
<1>6. SummaryTypeOK'
  BY <1>2, <1>3, <1>4 DEF SummaryTypeOK, Table
<1>7. PostsInv'
  BY <1>2, <1>5 DEF PostsInv, SummaryTypeOK
<1>8. CoverInv'
  <2>1. \A n \in SummaryMsg : Pending(n) => Pending(n)'
    BY <1>2, <1>5 DEF Pending, SummaryTypeOK, SummaryQueueInv
  <2> QED
    BY <1>2, <1>4, <2>1 DEF CoverInv
<1> QED
  BY <1>4, <1>6, <1>7, <1>8

\* Every step of a summary invocation preserves the inductive invariant.
LEMMA SummaryNextCore ==
  ASSUME CoreInv, SummaryNext, UNCHANGED agentVars
  PROVE  CoreInv'
<1>1. PICK m \in SummaryMsg : SummaryStep(m) \/ SummaryFail(m)
  BY DEF SummaryNext
<1>2. summaryQ[m] \in Delivery(SummaryReceives) /\ SummaryReceives \in Nat \ {0}
  BY StoreAssumption DEF CoreInv, TypeOK, StoreTypeOK
<1>3. summaryQ[m].rc \in Nat
  BY <1>2 DEF Delivery
<1>4. CASE SummaryReceive(m)
  BY <1>4, SummaryReceiveStep
<1>5. CASE SummaryInitError(m)
  <2> DEFINE d == Receive(summaryQ[m])
  <2>1. summaryQ[m].st = "visible" /\ EndSummary(m, Release(d, SummaryReceives))
    BY <1>5 DEF SummaryInitError
  <2>2. summaryQ[m].rc < SummaryReceives
    BY <2>1 DEF CoreInv, SummaryQueueInv
  <2>3. d \in Delivery(SummaryReceives) /\ d.rc = summaryQ[m].rc + 1
    BY <1>2, <2>2, DeliverySteps
  <2> HIDE DEF d
  <2>4. /\ Release(d, SummaryReceives) \in Delivery(SummaryReceives)
        /\ Release(d, SummaryReceives).rc = summaryQ[m].rc + 1
        /\ Release(d, SummaryReceives).st \in {"visible", "dead"}
        /\ Release(d, SummaryReceives).st = "visible" =>
             Release(d, SummaryReceives).rc < SummaryReceives
    BY <1>2, <2>3, DeliverySteps
  <2> QED
    BY <1>3, <2>1, <2>4, EndSummaryStep
<1>6. CASE Query(m)
  BY <1>6, QueryStep
<1>7. CASE Wake(m) \/ PollTimesOut(m)
  BY <1>7, AfterSleepStep
<1>8. CASE PostReview(m)
  BY <1>8, PostReviewStep
<1>9. CASE SetStatus(m) \/ PublishComplete(m)
  BY <1>9, AfterPostStep
<1>10. CASE SummaryReturn(m)
  <2>1. sumPc[m] = "return" /\ EndSummary(m, Delete(summaryQ[m]))
    BY <1>10 DEF SummaryReturn
  <2>2. summaryQ[m].st = "inflight"
    BY <2>1 DEF CoreInv, SummaryQueueInv
  <2> QED
    BY <1>2, <1>3, <2>1, <2>2, DeliverySteps, EndSummaryStep
<1>11. CASE SummaryFail(m)
  <2>1. summaryQ[m].st = "inflight" /\ EndSummary(m, Release(summaryQ[m], SummaryReceives))
    BY <1>11 DEF SummaryFail
  <2> QED
    BY <1>2, <1>3, <2>1, DeliverySteps, EndSummaryStep
<1> QED
  BY <1>1, <1>4, <1>5, <1>6, <1>7, <1>8, <1>9, <1>10, <1>11 DEF SummaryStep

\* A step that leaves all but the replica alone preserves the invariant.
LEMMA QuietCore ==
  ASSUME CoreInv, replica' \in Table, UNCHANGED <<items, summaryQ, agentVars, summaryVars>>
  PROVE  CoreInv'
<1> USE DEF CoreInv, TypeOK, agentVars
<1>1. SummaryTypeOK' /\ SummaryQueueInv' /\ PostsInv'
  BY AgentFrame
<1>2. AgentTypeOK' /\ AgentQueueInv' /\ WriteIdxInv' /\ WrittenInv' /\ AllPublished' = AllPublished
  BY SummaryFrame
<1>3. StoreTypeOK'
  BY DEF StoreTypeOK, Table
<1>4. PublishOnceInv'
  BY DEF PublishOnceInv
<1>5. CoverInv'
  BY <1>2 DEF CoverInv, Pending, summaryVars, boardVars
<1> QED
  BY <1>1, <1>2, <1>3, <1>4, <1>5

\* CoreInv is inductive.
LEMMA NextCore == CoreInv /\ [Next]_vars => CoreInv'
<1> SUFFICES ASSUME CoreInv, [Next]_vars PROVE CoreInv'
  OBVIOUS
<1>1. CASE AgentNext /\ UNCHANGED summaryVars
  BY <1>1, AgentNextCore
<1>2. CASE SummaryNext /\ UNCHANGED agentVars
  BY <1>2, SummaryNextCore
<1>3. items \in Table /\ replica \in Table
  BY DEF CoreInv, TypeOK, StoreTypeOK
<1>4. CASE CatchUp /\ UNCHANGED <<agentVars, summaryVars>>
  BY <1>3, <1>4, QuietCore DEF CatchUp
<1>5. CASE UNCHANGED vars
  BY <1>3, <1>5, QuietCore DEF vars, storeVars
<1> QED
  BY <1>1, <1>2, <1>4, <1>5 DEF Next, Rest

-----------------------------------------------------------------------------
(* The work an event may cause *)

\* At least one query fits in the timeout.
LEMMA MaxPollsPositive == MaxPolls \in Nat \ {0}
<1>1. \A t, i \in Nat \ {0} : (t + i - 1) \div i \in Nat \ {0}
  OBVIOUS
<1> QED
  BY <1>1, SummaryAssumption, Zenon DEF MaxPolls

\* The stages in order.
LEMMA AgentStages ==
  /\ \A i : AgentStage("analyze", i) = 0
  /\ \A i : AgentStage("write", i) = i
  /\ \A i : AgentStage("publish", i) = MaxItems + 1
  /\ \A i : AgentStage("return", i) = MaxItems + 2
  /\ \A i : AgentStage("idle", i) = MaxItems + 3
<1> QED
  BY DEF AgentStage

LEMMA SummaryStages ==
  /\ \A pc, n : SummaryStage("absent", pc, n) = 0
  /\ \A st, n :
       st # "absent" =>
         /\ SummaryStage(st, "query", n) = 2 * n
         /\ SummaryStage(st, "sleep", n) = 2 * n - 1
         /\ SummaryStage(st, "post", n) = 2 * MaxPolls
         /\ SummaryStage(st, "status", n) = 2 * MaxPolls + 1
         /\ SummaryStage(st, "complete", n) = 2 * MaxPolls + 2
         /\ SummaryStage(st, "return", n) = 2 * MaxPolls + 3
         /\ SummaryStage(st, "idle", n) = 2 * MaxPolls + 4
<1> QED
  BY DEF SummaryStage

\* No stage is beyond the last.
LEMMA StagesBounded == IInv => WorkBounded
<1> SUFFICES ASSUME IInv PROVE WorkBounded
  OBVIOUS
<1> USE StoreAssumption, MaxPollsPositive DEF IInv, CoreInv, TypeOK
<1>1. ASSUME NEW a \in Agents
      PROVE  agentQ[a].rc <= AgentReceives /\ AgentStage(agentPc[a], writeIdx[a]) <= MaxItems + 3
  <2>1. agentQ[a] \in Delivery(AgentReceives) /\ writeIdx[a] \in 1 .. MaxItems + 1
    BY DEF AgentTypeOK
  <2>2. agentPc[a] \in {"idle", "analyze", "write", "publish", "return"}
    BY DEF AgentTypeOK
  <2>3. AgentStage(agentPc[a], writeIdx[a]) <= MaxItems + 3
    BY <2>1, <2>2, AgentStages
  <2> QED
    BY <2>1, <2>3 DEF Delivery
<1>2. ASSUME NEW m \in SummaryMsg
      PROVE  summaryQ[m].rc <= SummaryReceives /\ SummaryStage(summaryQ[m].st, sumPc[m], polls[m]) <= 2 * MaxPolls + 4
  <2>1. summaryQ[m] \in Delivery(SummaryReceives) /\ sumPc[m] \in SummaryPc /\ polls[m] \in Nat
    BY DEF StoreTypeOK, SummaryTypeOK
  <2>2. /\ sumPc[m] = "query" => polls[m] < MaxPolls
        /\ sumPc[m] = "sleep" => polls[m] <= MaxPolls
    BY DEF PollsInv
  <2>3. CASE summaryQ[m].st = "absent"
    BY <2>1, <2>3, SummaryStages DEF Delivery
  <2>4. CASE summaryQ[m].st # "absent"
    BY <2>1, <2>2, <2>4, SummaryStages DEF Delivery, SummaryPc
  <2> QED
    BY <2>3, <2>4
<1> QED
  BY <1>1, <1>2 DEF WorkBounded

\* An agent's step leads its own event on and leaves the findings events alone,
\* but for the one it publishes.
LEMMA AgentWork ==
  ASSUME IInv, NEW a \in Agents, AgentStep(a) \/ AgentFail(a), UNCHANGED summaryVars
  PROVE  HandedOnInv' /\ PollsInv' /\ WorkAdvances
<1> USE StoreAssumption DEF IInv, CoreInv, TypeOK
<1> DEFINE
  Onward ==
    /\ \A b \in Agents \ {a} : UNCHANGED <<agentQ[b], agentPc[b], writeIdx[b]>>
    /\ AgentAdvances(a)
    /\ (agentPc'[a] = "return" \/ agentQ'[a].st = "deleted") =>
         <<a, agentQ'[a].rc>> \in SummaryMsg /\ summaryQ'[<<a, agentQ'[a].rc>>].st # "absent"
    /\ \A m \in SummaryMsg :
         summaryQ'[m] = summaryQ[m] \/ (summaryQ[m] = Absent /\ summaryQ'[m] = Sent)
<1>1. /\ agentQ[a] \in Delivery(AgentReceives) /\ agentQ[a].rc \in Nat
      /\ writeIdx[a] \in 1 .. MaxItems + 1 /\ MaxItems \in Nat
      /\ agentPc[a] = "write" => writeIdx[a] <= Len(found[a]) /\ Len(found[a]) <= MaxItems
      /\ agentPc[a] = "analyze" => writeIdx[a] = 1
      /\ Len(found[a]) \in Nat
  BY DEF AgentTypeOK, Delivery, WriteIdxInv, Findings
<1>2. PollsInv'
  BY DEF summaryVars, PollsInv
<1>3. Onward
  <2>1. CASE AgentReceive(a)
    BY <1>1, <2>1 DEF AgentReceive, AgentTypeOK, storeVars, Receive, AgentAdvances
  <2>2. CASE Analyze(a)
    <3>1. PICK pc \in {"publish", "write"} : agentPc' = [agentPc EXCEPT ![a] = pc]
      BY <2>2 DEF Analyze
    <3>2. agentPc[a] = "analyze" /\ UNCHANGED <<agentQ, writeIdx, summaryQ>>
      BY <2>2 DEF Analyze, storeVars
    <3>3. agentPc'[a] = pc /\ \A b \in Agents \ {a} : agentPc'[b] = agentPc[b]
      BY <3>1 DEF AgentTypeOK
    <3>4. AgentStage(agentPc[a], writeIdx[a]) = 0 /\ AgentStage(agentPc'[a], writeIdx'[a]) > 0
      BY <1>1, <3>2, <3>3, AgentStages
    <3>5. agentQ'[a].st # "deleted"
      BY <3>2 DEF AgentQueueInv
    <3> QED
      BY <3>2, <3>3, <3>4, <3>5 DEF AgentAdvances
  <2>3. CASE WriteFinding(a)
    <3>1. PICK pc \in {"publish", "write"} :
            /\ agentPc' = [agentPc EXCEPT ![a] = pc]
            /\ pc = "write" => writeIdx[a] # Len(found[a])
      BY <2>3 DEF WriteFinding
    <3>2. /\ agentPc[a] = "write" /\ UNCHANGED <<agentQ, summaryQ>>
          /\ writeIdx' = [writeIdx EXCEPT ![a] = writeIdx[a] + 1]
      BY <2>3 DEF WriteFinding
    <3>3. /\ agentPc'[a] = pc /\ writeIdx'[a] = writeIdx[a] + 1
          /\ \A b \in Agents \ {a} : agentPc'[b] = agentPc[b] /\ writeIdx'[b] = writeIdx[b]
      BY <3>1, <3>2 DEF AgentTypeOK
    <3>4. AgentStage(agentPc[a], writeIdx[a]) < AgentStage(agentPc'[a], writeIdx'[a])
      BY <1>1, <3>1, <3>2, <3>3, AgentStages
    <3>5. agentQ'[a].st # "deleted"
      BY <3>2 DEF AgentQueueInv
    <3> QED
      BY <3>2, <3>3, <3>4, <3>5 DEF AgentAdvances
  <2>4. CASE WriteFindingFails(a)
    <3>1. /\ agentPc[a] = "write" /\ UNCHANGED <<agentQ, writeIdx, summaryQ>>
          /\ agentPc' = [agentPc EXCEPT ![a] = "publish"]
      BY <2>4 DEF WriteFindingFails, storeVars
    <3>2. agentPc'[a] = "publish" /\ \A b \in Agents \ {a} : agentPc'[b] = agentPc[b]
      BY <3>1 DEF AgentTypeOK
    <3>3. AgentStage(agentPc[a], writeIdx[a]) < AgentStage(agentPc'[a], writeIdx'[a])
      BY <1>1, <3>1, <3>2, AgentStages
    <3>4. agentQ'[a].st # "deleted"
      BY <3>1 DEF AgentQueueInv
    <3> QED
      BY <3>1, <3>2, <3>3, <3>4 DEF AgentAdvances
  <2>5. CASE PublishFindings(a)
    <3> DEFINE m == <<a, agentQ[a].rc>>
    <3>1. /\ agentPc[a] = "publish" /\ UNCHANGED <<agentQ, writeIdx>>
          /\ agentPc' = [agentPc EXCEPT ![a] = "return"]
          /\ summaryQ' = [summaryQ EXCEPT ![m] = Sent]
      BY <2>5 DEF PublishFindings
    <3>2. agentPc'[a] = "return" /\ \A b \in Agents \ {a} : agentPc'[b] = agentPc[b]
      BY <3>1 DEF AgentTypeOK
    <3>3. AgentStage(agentPc[a], writeIdx[a]) < AgentStage(agentPc'[a], writeIdx'[a])
      BY <1>1, <3>1, <3>2, AgentStages
    <3>4. agentQ[a].rc \in 1 .. AgentReceives
      BY <3>1 DEF AgentQueueInv, AgentTypeOK, Delivery
    <3>5. m \in SummaryMsg /\ summaryQ[m] = Absent
      BY <3>1, <3>4 DEF SummaryMsg, PublishOnceInv
    <3>6. /\ summaryQ'[m] = Sent /\ Sent.st # "absent" /\ Absent.st = "absent"
          /\ \A n \in SummaryMsg \ {m} : summaryQ'[n] = summaryQ[n]
      BY <3>1, <3>5 DEF StoreTypeOK, Sent, Absent
    <3> QED
      BY <3>1, <3>2, <3>3, <3>5, <3>6 DEF AgentAdvances
  <2>6. ASSUME NEW d \in Delivery(AgentReceives), EndAgent(a, d), agentPc[a] # "idle",
               d.rc = agentQ[a].rc, d.st = "deleted" => agentPc[a] = "return"
        PROVE  Onward
    <3>1. /\ agentQ' = [agentQ EXCEPT ![a] = d] /\ agentPc' = [agentPc EXCEPT ![a] = "idle"]
          /\ writeIdx' = [writeIdx EXCEPT ![a] = 1] /\ summaryQ' = summaryQ
      BY <2>6 DEF EndAgent, storeVars
    <3>2. /\ agentQ'[a] = d /\ agentPc'[a] = "idle"
          /\ \A b \in Agents \ {a} : UNCHANGED <<agentQ[b], agentPc[b], writeIdx[b]>>
      BY <3>1 DEF AgentTypeOK
    <3>3. agentPc[a] \in {"idle", "analyze", "write", "publish", "return"}
      BY DEF AgentTypeOK
    <3>4. AgentStage(agentPc[a], writeIdx[a]) < AgentStage(agentPc'[a], writeIdx'[a])
      BY <1>1, <2>6, <3>2, <3>3, AgentStages
    <3>5. d.st = "deleted" => <<a, d.rc>> \in SummaryMsg /\ summaryQ[<<a, d.rc>>].st # "absent"
      BY <2>6 DEF HandedOnInv, Published
    <3> QED
      BY <2>6, <3>1, <3>2, <3>4, <3>5 DEF AgentAdvances
  <2>7. CASE AgentReturn(a)
    <3>1. EndAgent(a, Delete(agentQ[a])) /\ agentPc[a] = "return"
      BY <2>7 DEF AgentReturn
    <3> QED
      BY <1>1, <2>6, <3>1, DeliverySteps
  <2>8. CASE AgentFail(a)
    <3>1. EndAgent(a, Release(agentQ[a], AgentReceives)) /\ agentPc[a] # "idle"
      BY <2>8 DEF AgentFail, AgentQueueInv
    <3>2. /\ Release(agentQ[a], AgentReceives) \in Delivery(AgentReceives)
          /\ Release(agentQ[a], AgentReceives).st # "deleted"
          /\ Release(agentQ[a], AgentReceives).rc = agentQ[a].rc
      BY <1>1, DeliverySteps
    <3> QED
      BY <2>6, <3>1, <3>2
  <2> QED
    BY <2>1, <2>2, <2>3, <2>4, <2>5, <2>7, <2>8 DEF AgentStep
<1>4. ASSUME NEW b \in Agents PROVE AgentAdvances(b)
  BY <1>3 DEF AgentAdvances
<1>5. ASSUME NEW m \in SummaryMsg PROVE SummaryAdvances(m)
  <2>1. UNCHANGED <<sumPc[m], polls[m]>>
    BY DEF summaryVars
  <2>2. CASE summaryQ'[m] = summaryQ[m]
    BY <2>1, <2>2 DEF SummaryAdvances
  <2>3. CASE summaryQ[m] = Absent /\ summaryQ'[m] = Sent
    <3>1. sumPc[m] = "idle" /\ Sent.st # "absent" /\ Sent.rc = 0 /\ Absent.rc = 0 /\ Absent.st = "absent"
      BY <2>3 DEF SummaryQueueInv, Sent, Absent
    <3>3. SummaryStage(summaryQ[m].st, sumPc[m], polls[m]) = 0 /\ SummaryStage(summaryQ'[m].st, sumPc'[m], polls'[m]) = 2 * MaxPolls + 4
      BY <2>1, <2>3, <3>1, SummaryStages
    <3> QED
      BY <2>3, <3>1, <3>3, MaxPollsPositive DEF SummaryAdvances
  <2> QED
    BY <1>3, <2>2, <2>3
<1>6. HandedOnInv'
  <2> SUFFICES ASSUME NEW b \in Agents, agentPc'[b] = "return" \/ agentQ'[b].st = "deleted"
               PROVE  /\ <<b, agentQ'[b].rc>> \in SummaryMsg
                      /\ summaryQ'[<<b, agentQ'[b].rc>>].st # "absent"
    BY DEF HandedOnInv, Published, SummaryMsg
  <2>1. CASE b # a
    <3>1. <<b, agentQ[b].rc>> \in SummaryMsg /\ summaryQ[<<b, agentQ[b].rc>>].st # "absent"
      BY <1>3, <2>1 DEF HandedOnInv, Published
    <3> QED
      BY <1>3, <2>1, <3>1 DEF Absent
  <2> QED
    BY <1>3, <2>1
<1> QED
  BY <1>2, <1>4, <1>5, <1>6 DEF WorkAdvances

\* A summary invocation's step leads its event on and leaves the others alone.
LEMMA SummaryWork ==
  ASSUME IInv, NEW m \in SummaryMsg, SummaryStep(m) \/ SummaryFail(m), UNCHANGED agentVars
  PROVE  HandedOnInv' /\ PollsInv' /\ WorkAdvances
<1> USE StoreAssumption, MaxPollsPositive DEF IInv, CoreInv, TypeOK
<1> DEFINE Onward == /\ \A n \in SummaryMsg \ {m} : UNCHANGED <<summaryQ[n], sumPc[n], polls[n]>>
                     /\ SummaryAdvances(m)
                     /\ summaryQ'[m].st # "absent"
                     /\ sumPc'[m] = "query" => polls'[m] < MaxPolls
                     /\ sumPc'[m] = "sleep" => polls'[m] \in 1 .. MaxPolls
                     /\ sumPc'[m] = "idle" => polls'[m] = 0
<1>1. /\ summaryQ[m] \in Delivery(SummaryReceives) /\ summaryQ[m].rc \in Nat
      /\ sumPc[m] \in SummaryPc /\ polls[m] \in Nat
      /\ sumPc[m] = "query" => polls[m] < MaxPolls
      /\ sumPc[m] = "sleep" => polls[m] \in 1 .. MaxPolls
      /\ sumPc[m] = "idle" => polls[m] = 0
      /\ sumPc[m] = "idle" <=> summaryQ[m].st # "inflight"
  BY DEF StoreTypeOK, SummaryTypeOK, Delivery, PollsInv, SummaryQueueInv
<1>2. ASSUME NEW pc \in SummaryPc \ {"idle"}, NEW n \in Nat, sumPc[m] # "idle", GoTo(m, pc),
             polls' = [polls EXCEPT ![m] = n], UNCHANGED storeVars,
             pc = "query" => n < MaxPolls, pc = "sleep" => n \in 1 .. MaxPolls,
             SummaryStage(summaryQ[m].st, sumPc[m], polls[m]) < SummaryStage(summaryQ'[m].st, sumPc'[m], polls'[m])
      PROVE  Onward
  <2>1. summaryQ' = summaryQ /\ summaryQ[m].st = "inflight"
    BY <1>1, <1>2 DEF storeVars
  <2>2. /\ sumPc'[m] = pc /\ polls'[m] = n
        /\ \A k \in SummaryMsg \ {m} : sumPc'[k] = sumPc[k] /\ polls'[k] = polls[k]
    BY <1>2 DEF GoTo, SummaryTypeOK
  <2> QED
    BY <1>2, <2>1, <2>2 DEF SummaryAdvances
<1>3. ASSUME NEW pc \in SummaryPc \ {"idle"}, NEW n \in Nat, sumPc[m] # "idle", GoTo(m, pc),
             polls' = [polls EXCEPT ![m] = n], UNCHANGED storeVars
      PROVE  /\ summaryQ[m].st # "absent" /\ summaryQ'[m].st # "absent"
             /\ sumPc'[m] = pc /\ polls'[m] = n
  BY <1>1, <1>3 DEF storeVars, GoTo, SummaryTypeOK
<1>4. ASSUME sumPc[m] # "idle", UNCHANGED polls
      PROVE  polls' = [polls EXCEPT ![m] = polls[m]]
  BY <1>4 DEF SummaryTypeOK
<1>5. ASSUME NEW d \in Delivery(SummaryReceives), EndSummary(m, d), d.st # "absent",
             \/ summaryQ[m].rc < d.rc
             \/ summaryQ[m].st = "inflight" /\ summaryQ[m].rc = d.rc
      PROVE  Onward
  <2>1. /\ summaryQ'[m] = d /\ sumPc'[m] = "idle" /\ polls'[m] = 0
        /\ \A n \in SummaryMsg \ {m} : UNCHANGED <<summaryQ[n], sumPc[n], polls[n]>>
    BY <1>5 DEF EndSummary, GoTo, StoreTypeOK, SummaryTypeOK
  <2>2. SummaryStage(summaryQ'[m].st, sumPc'[m], polls'[m]) = 2 * MaxPolls + 4
    BY <1>5, <2>1, SummaryStages
  <2>3. summaryQ[m].st = "inflight" => SummaryStage(summaryQ[m].st, sumPc[m], polls[m]) < 2 * MaxPolls + 4
    BY <1>1, SummaryStages DEF SummaryPc
  <2>4. SummaryAdvances(m)
    BY <1>5, <2>1, <2>2, <2>3 DEF SummaryAdvances
  <2> QED
    BY <1>5, <2>1, <2>4
<1>6. ASSUME SummaryReceive(m) PROVE Onward
  <2>1. /\ summaryQ' = [summaryQ EXCEPT ![m] = Receive(summaryQ[m])] /\ summaryQ[m].st = "visible"
        /\ sumPc' = [sumPc EXCEPT ![m] = "query"] /\ polls' = polls
    BY <1>6 DEF SummaryReceive, GoTo
  <2>2. /\ summaryQ'[m].st = "inflight" /\ summaryQ'[m].rc = summaryQ[m].rc + 1
        /\ sumPc'[m] = "query" /\ polls'[m] = 0
        /\ \A n \in SummaryMsg \ {m} : UNCHANGED <<summaryQ[n], sumPc[n], polls[n]>>
    BY <1>1, <2>1 DEF Receive, StoreTypeOK, SummaryTypeOK
  <2>3. SummaryAdvances(m)
    BY <1>1, <2>2 DEF SummaryAdvances
  <2> QED
    BY <2>2, <2>3
<1>7. ASSUME SummaryInitError(m) PROVE Onward
  <2> DEFINE d == Receive(summaryQ[m])
             e == Release(d, SummaryReceives)
  <2>1. summaryQ[m].st = "visible" /\ EndSummary(m, e)
    BY <1>7 DEF SummaryInitError
  <2>2. summaryQ[m].rc < SummaryReceives
    BY <2>1 DEF SummaryQueueInv
  <2>3. d \in Delivery(SummaryReceives) /\ d.rc = summaryQ[m].rc + 1
    BY <1>1, <2>2, DeliverySteps
  <2> HIDE DEF d
  <2>4. e \in Delivery(SummaryReceives) /\ e.rc = summaryQ[m].rc + 1 /\ e.st # "absent"
    BY <2>3, DeliverySteps
  <2> HIDE DEF e
  <2>5. summaryQ[m].rc < e.rc
    BY <1>1, <2>4
  <2> QED
    BY <1>5, <2>1, <2>4, <2>5
<1>8. ASSUME Query(m) PROVE Onward
  <2>1. PICK pc \in {"post", "sleep"} : GoTo(m, pc)
    BY <1>8 DEF Query
  <2>2. /\ sumPc[m] = "query" /\ polls' = [polls EXCEPT ![m] = polls[m] + 1]
        /\ UNCHANGED storeVars
    BY <1>8 DEF Query
  <2>3. polls[m] + 1 \in Nat /\ polls[m] + 1 \in 1 .. MaxPolls
    BY <1>1, <2>2
  <2>4. /\ summaryQ[m].st # "absent" /\ summaryQ'[m].st # "absent"
        /\ sumPc'[m] = pc /\ polls'[m] = polls[m] + 1
    BY <1>3, <2>1, <2>2, <2>3 DEF SummaryPc
  <2>5. SummaryStage(summaryQ[m].st, sumPc[m], polls[m]) < SummaryStage(summaryQ'[m].st, sumPc'[m], polls'[m])
    BY <1>1, <2>2, <2>3, <2>4, SummaryStages
  <2> QED
    BY <1>2, <2>1, <2>2, <2>3, <2>5 DEF SummaryPc
<1>9. ASSUME Wake(m) \/ PollTimesOut(m) PROVE Onward
  <2>1. PICK pc \in {"post", "query"} : GoTo(m, pc) /\ (pc = "query" => polls[m] < MaxPolls)
    BY <1>9 DEF Wake, PollTimesOut
  <2>2. sumPc[m] = "sleep" /\ UNCHANGED <<polls, storeVars>>
    BY <1>9 DEF Wake, PollTimesOut
  <2>3. polls' = [polls EXCEPT ![m] = polls[m]]
    BY <1>4, <2>2
  <2>4. /\ summaryQ[m].st # "absent" /\ summaryQ'[m].st # "absent"
        /\ sumPc'[m] = pc /\ polls'[m] = polls[m]
    BY <1>1, <1>3, <2>1, <2>2, <2>3 DEF SummaryPc
  <2>5. SummaryStage(summaryQ[m].st, sumPc[m], polls[m]) < SummaryStage(summaryQ'[m].st, sumPc'[m], polls'[m])
    BY <1>1, <2>1, <2>2, <2>4, SummaryStages
  <2> QED
    BY <1>1, <1>2, <2>1, <2>2, <2>3, <2>5 DEF SummaryPc
<1>10. ASSUME PostReview(m) \/ SetStatus(m) \/ PublishComplete(m) PROVE Onward
  <2>1. PICK pc \in {"status", "complete", "return"} :
          /\ GoTo(m, pc)
          /\ pc = "status" => sumPc[m] = "post"
          /\ pc = "complete" => sumPc[m] = "status"
          /\ pc = "return" => sumPc[m] = "complete"
    BY <1>10 DEF PostReview, SetStatus, PublishComplete
  <2>2. sumPc[m] \in {"post", "status", "complete"} /\ UNCHANGED <<polls, storeVars>>
    BY <1>10 DEF PostReview, SetStatus, PublishComplete
  <2>3. polls' = [polls EXCEPT ![m] = polls[m]]
    BY <1>4, <2>2
  <2>4. /\ summaryQ[m].st # "absent" /\ summaryQ'[m].st # "absent"
        /\ sumPc'[m] = pc /\ polls'[m] = polls[m]
    BY <1>1, <1>3, <2>1, <2>2, <2>3 DEF SummaryPc
  <2>5. SummaryStage(summaryQ[m].st, sumPc[m], polls[m]) < SummaryStage(summaryQ'[m].st, sumPc'[m], polls'[m])
    BY <1>1, <2>1, <2>2, <2>4, SummaryStages
  <2> QED
    BY <1>1, <1>2, <2>1, <2>2, <2>3, <2>5 DEF SummaryPc
<1>11. ASSUME SummaryReturn(m) PROVE Onward
  <2>1. sumPc[m] = "return" /\ EndSummary(m, Delete(summaryQ[m])) /\ summaryQ[m].st = "inflight"
    BY <1>1, <1>11 DEF SummaryReturn
  <2>2. /\ Delete(summaryQ[m]) \in Delivery(SummaryReceives)
        /\ Delete(summaryQ[m]).st # "absent" /\ Delete(summaryQ[m]).rc = summaryQ[m].rc
    BY <1>1, DeliverySteps
  <2> QED
    BY <1>5, <2>1, <2>2
<1>12. ASSUME SummaryFail(m) PROVE Onward
  <2>1. EndSummary(m, Release(summaryQ[m], SummaryReceives)) /\ summaryQ[m].st = "inflight"
    BY <1>12 DEF SummaryFail
  <2>2. /\ Release(summaryQ[m], SummaryReceives) \in Delivery(SummaryReceives)
        /\ Release(summaryQ[m], SummaryReceives).st # "absent"
        /\ Release(summaryQ[m], SummaryReceives).rc = summaryQ[m].rc
    BY <1>1, DeliverySteps
  <2> QED
    BY <1>5, <2>1, <2>2
<1>13. Onward
  BY <1>6, <1>7, <1>8, <1>9, <1>10, <1>11, <1>12 DEF SummaryStep
<1>14. PollsInv'
  <2> SUFFICES ASSUME NEW n \in SummaryMsg
               PROVE  /\ sumPc'[n] = "query" => polls'[n] < MaxPolls
                      /\ sumPc'[n] = "sleep" => polls'[n] \in 1 .. MaxPolls
                      /\ sumPc'[n] = "idle" => polls'[n] = 0
    BY DEF PollsInv, MaxPolls
  <2>1. CASE n = m
    BY <1>13, <2>1
  <2>2. CASE n # m
    BY <1>13, <2>2 DEF PollsInv
  <2> QED
    BY <2>1, <2>2
<1>15. HandedOnInv'
  BY <1>13 DEF HandedOnInv, Published, agentVars
<1>16. WorkAdvances
  <2>1. \A a \in Agents : AgentAdvances(a)
    BY DEF AgentAdvances, agentVars
  <2>2. \A n \in SummaryMsg : SummaryAdvances(n)
    BY <1>13 DEF SummaryAdvances
  <2> QED
    BY <2>1, <2>2 DEF WorkAdvances
<1> QED
  BY <1>14, <1>15, <1>16

\* A step that touches neither queues nor invocations.
LEMMA QuietWork ==
  ASSUME IInv, UNCHANGED <<summaryQ, agentVars, summaryVars>>
  PROVE  HandedOnInv' /\ PollsInv' /\ WorkAdvances
<1>1. HandedOnInv' /\ PollsInv'
  BY DEF IInv, HandedOnInv, Published, PollsInv, agentVars, summaryVars
<1>2. WorkAdvances
  BY DEF WorkAdvances, AgentAdvances, SummaryAdvances, agentVars, summaryVars
<1> QED
  BY <1>1, <1>2

\* Every step leads the events it handles on.
LEMMA NextWork ==
  ASSUME IInv, [Next]_vars
  PROVE  HandedOnInv' /\ PollsInv' /\ WorkAdvances
<1>1. CASE AgentNext /\ UNCHANGED summaryVars
  BY <1>1, AgentWork DEF AgentNext
<1>2. CASE SummaryNext /\ UNCHANGED agentVars
  BY <1>2, SummaryWork DEF SummaryNext
<1>3. CASE CatchUp /\ UNCHANGED <<agentVars, summaryVars>>
  BY <1>3, QuietWork DEF CatchUp
<1>4. CASE UNCHANGED vars
  BY <1>4, QuietWork DEF vars, storeVars
<1> QED
  BY <1>1, <1>2, <1>3, <1>4 DEF Next, Rest

\* Every initial state satisfies the inductive invariant.
LEMMA InitIInv == Init => IInv
<1> SUFFICES ASSUME Init PROVE HandedOnInv /\ PollsInv
  BY InitCore DEF IInv
<1> QED
  BY DEF Init, StoreInit, AgentInit, SummaryInit, HandedOnInv, Published, PollsInv, Sent

\* IInv is inductive.
LEMMA NextIInv == IInv /\ [Next]_vars => IInv'
  BY NextCore, NextWork DEF IInv

-----------------------------------------------------------------------------
(* The theorems *)

\* IInv holds in every reachable state.
THEOREM InductiveInvariant == Spec => []IInv
<1> QED
  BY InitIInv, NextIInv, PTL DEF Spec

\* Type correctness.
THEOREM TypeCorrect == Spec => []TypeOK
<1>1. IInv => TypeOK
  BY DEF IInv, CoreInv
<1> QED
  BY <1>1, InductiveInvariant, PTL

\* The comments a findings event leaves are at most those its receives can leave,
\* for any number of copies a repeated POST may make of one, and the event is
\* never acknowledged before it was posted.
THEOREM CopiesMatchReceives == Spec => []CopiesPerReceive
<1>1. IInv => CopiesPerReceive
  BY DEF IInv, CoreInv, PostsInv, CopiesPerReceive
<1> QED
  BY <1>1, InductiveInvariant, PTL

\* When everything is acknowledged and queries are up to date, a review with the
\* final table has been posted: the event CoverInv promises is not pending.
THEOREM Complete == Spec => []CompleteAtQuiescence
<1>1. IInv => CompleteAtQuiescence
  <2> SUFFICES ASSUME IInv, ~ReadLag, Quiescent PROVE items \in comments
    BY DEF CompleteAtQuiescence
  <2>1. AllPublished
    BY DEF AllPublished, Quiescent
  <2>2. \A m \in SummaryMsg : ~Pending(m)
    BY DEF Pending, Quiescent, Published, IInv, CoreInv, SummaryQueueInv
  <2> QED
    BY <2>1, <2>2 DEF IInv, CoreInv, CoverInv
<1> QED
  BY <1>1, InductiveInvariant, PTL

\* What an agent finds in every run of a diff reaches the pull request.
THEOREM CriticalFindingsReported == Spec => []CriticalReported
<1>1. IInv => CriticalReported
  <2> SUFFICES ASSUME IInv, ~ReadLag, ~WriteFaults, Quiescent,
                      NEW a \in Agents, AlwaysFinds(a, "critical")
               PROVE  \E c \in comments : Verdict(c) = "request_changes"
    BY DEF CriticalReported
  <2>1. AllPublished
    BY DEF AllPublished, Quiescent
  <2>2. \A m \in SummaryMsg : ~Pending(m)
    BY DEF Pending, Quiescent, Published, IInv, CoreInv, SummaryQueueInv
  <2>3. items \in comments
    BY <2>1, <2>2 DEF IInv, CoreInv, CoverInv
  <2>4. \E i \in Index : items[a][i] = "critical"
    BY DEF IInv, CoreInv, WrittenInv, Quiescent
  <2>5. Verdict(items) = "request_changes"
    BY <2>4 DEF Verdict, HasSeverity
  <2> QED
    BY <2>3, <2>5
<1> QED
  BY <1>1, InductiveInvariant, PTL

\* An acknowledged agent's findings event is never lost without a trace: it is on
\* its queue, dead-lettered, or has had a review posted.
THEOREM AgentsAnswered == Spec => []AnsweredUnlessDead
<1>1. IInv => AnsweredUnlessDead
  <2> SUFFICES ASSUME IInv, NEW a \in Agents, agentQ[a].st = "deleted"
               PROVE  \/ posts[<<a, agentQ[a].rc>>] >= 1
                      \/ summaryQ[<<a, agentQ[a].rc>>].st \in {"visible", "inflight", "dead"}
    BY DEF AnsweredUnlessDead
  <2> DEFINE m == <<a, agentQ[a].rc>>
  <2>1. m \in SummaryMsg /\ summaryQ[m].st # "absent"
    BY DEF IInv, HandedOnInv, Published
  <2>2. summaryQ[m].st \in {"absent", "visible", "inflight", "deleted", "dead"}
    BY <2>1 DEF IInv, CoreInv, TypeOK, StoreTypeOK, Delivery
  <2>3. summaryQ[m].st = "deleted" => posts[m] >= 1
    BY <2>1 DEF IInv, CoreInv, PostsInv
  <2> QED
    BY <2>1, <2>2, <2>3
<1> QED
  BY <1>1, InductiveInvariant, PTL

\* Whatever fails and whatever the table shows, an event is received a bounded
\* number of times and each receive passes through a bounded number of stages.
THEOREM EventsBounded == Spec => NoEventRunsForever
<1>1. IInv => WorkBounded
  BY StagesBounded
<1>2. IInv /\ [Next]_vars => [WorkAdvances]_vars
  BY NextWork
<1> QED
  BY <1>1, <1>2, InductiveInvariant, PTL DEF Spec, NoEventRunsForever

-----------------------------------------------------------------------------
(* ArgusReview implements ReviewBoard *)

\* The part of the state ReviewBoard sees.
BoardUnchanged == UNCHANGED <<comments, status, completions>>

\* Only three actions of a summary invocation touch the board.
LEMMA OtherStepsLeaveBoard ==
  ASSUME NEW m \in SummaryMsg, SummaryStep(m) \/ SummaryFail(m)
  PROVE  PostReview(m) \/ SetStatus(m) \/ PublishComplete(m) \/ BoardUnchanged
<1> QED
  BY DEF SummaryStep, SummaryReceive, SummaryInitError, Query, Wake, PollTimesOut,
         SummaryReturn, SummaryFail, EndSummary, boardVars, BoardUnchanged

\* A step of ArgusReview posts, marks, announces or stutters on the board.
LEMMA BoardStep ==
  ASSUME IInv, [Next]_vars
  PROVE  [Board!BoardNext]_Board!boardState
<1> USE DEF Board!boardState
<1>1. BoardUnchanged => UNCHANGED Board!boardState
  BY DEF BoardUnchanged
<1>2. CASE SummaryNext
  <2>1. PICK m \in SummaryMsg : SummaryStep(m) \/ SummaryFail(m)
    BY <1>2 DEF SummaryNext
  <2>2. CASE PostReview(m)
    <3>1. comments' = comments \cup {seen[m]} /\ UNCHANGED <<status, completions>>
      BY <2>2 DEF PostReview
    <3>2. Verdict(seen[m]) \in Verdicts
      BY DEF Verdict, Verdicts
    <3>3. {Verdict(c) : c \in comments'} = {Verdict(c) : c \in comments} \cup {Verdict(seen[m])}
      BY <3>1
    <3>4. Board!Post
      BY <3>1, <3>2, <3>3 DEF Board!Post
    <3> QED
      BY <3>4 DEF Board!BoardNext
  <2>3. CASE SetStatus(m)
    <3>1. status' = StatusOf(Verdict(seen[m])) /\ UNCHANGED <<comments, completions>>
      BY <2>3 DEF SetStatus
    <3>2. seen[m] \in comments
      BY <2>3 DEF SetStatus, IInv, CoreInv, PostsInv
    <3>3. Board!Mark
      BY <3>1, <3>2 DEF Board!Mark
    <3> QED
      BY <3>3 DEF Board!BoardNext
  <2>4. CASE PublishComplete(m)
    <3>1. completions' = completions \cup {Verdict(seen[m])} /\ UNCHANGED <<comments, status>>
      BY <2>4 DEF PublishComplete
    <3>2. seen[m] \in comments
      BY <2>4 DEF PublishComplete, IInv, CoreInv, PostsInv
    <3>3. Board!Announce
      BY <3>1, <3>2 DEF Board!Announce
    <3> QED
      BY <3>3 DEF Board!BoardNext
  <2> QED
    BY <1>1, <2>1, <2>2, <2>3, <2>4, OtherStepsLeaveBoard
<1>3. CASE UNCHANGED summaryVars
  BY <1>1, <1>3 DEF summaryVars, boardVars, BoardUnchanged
<1>4. CASE UNCHANGED vars
  BY <1>3, <1>4 DEF vars
<1> QED
  BY <1>2, <1>3, <1>4 DEF Next, Rest

\* Every behaviour of the review is a behaviour of the abstract board: a status
\* or a completion event never carries a verdict that was not posted before.
THEOREM Refinement == Spec => RefinesReviewBoard
<1>1. Init => Board!BoardInit
  BY DEF Init, SummaryInit, Board!BoardInit
<1>2. IInv /\ [Next]_vars => [Board!BoardNext]_Board!boardState
  BY BoardStep
<1> QED
  BY <1>1, <1>2, InductiveInvariant, PTL DEF Spec, RefinesReviewBoard, Board!BoardSpec
=============================================================================
