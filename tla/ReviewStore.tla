---------------------------- MODULE ReviewStore -----------------------------
(***************************************************************************)
(* What the review agents and the summary agent share for one review: the  *)
(* FINDING# items under the partition key REV#<review_id> of the DynamoDB  *)
(* table, and the summary queue, subscribed to the review.findings topic.  *)
(*                                                                         *)
(* A finding is its severity.  Which of several findings on one line is    *)
(* kept is the subject of SummaryDedup, whose invariants say that the      *)
(* verdict computed from the severities alone is the verdict the code      *)
(* computes after deduplication.                                           *)
(***************************************************************************)
EXTENDS SqsQueue, FiniteSets

CONSTANTS
  Agents,           \* the review agents the pr.parsed topic fans out to
  AgentReceives,    \* maxReceiveCount of the agents' queues; 3 in messaging-stack.ts
  SummaryReceives,  \* maxReceiveCount of the summary queue; 3 in messaging-stack.ts
  MaxItems,         \* bound: the most findings one agent run reports
  ReadLag           \* whether a query may be answered by a replica that lags

ASSUME StoreAssumption ==
  /\ Agents # {}
  /\ AgentReceives \in Nat \ {0}
  /\ SummaryReceives \in Nat \ {0}
  /\ MaxItems \in Nat
  /\ ReadLag \in BOOLEAN

VARIABLES
  items,      \* items[a][i]: the severity under FINDING#<a>#<i-1>, or NoItem
  replica,    \* the copy of items a lagging replica answers queries from
  summaryQ    \* summaryQ[<<a, n>>]: the event agent a published in its n-th delivery

storeVars == <<items, replica, summaryQ>>

Severity == {"critical", "warning", "info"}
NoItem == "none"
Index == 1 .. MaxItems

Table == [Agents -> [Index -> Severity \cup {NoItem}]]
EmptyTable == [a \in Agents |-> [i \in Index |-> NoItem]]

SummaryMsg == Agents \X (1 .. AgentReceives)

StoreTypeOK ==
  /\ items \in Table
  /\ replica \in Table
  /\ summaryQ \in [SummaryMsg -> Delivery(SummaryReceives)]

StoreInit ==
  /\ items = EmptyTable
  /\ replica = EmptyTable
  /\ summaryQ = [m \in SummaryMsg |-> Absent]

\* table.put_item on the item with index i of agent a: creates or overwrites.
Put(a, i, severity) == items' = [items EXCEPT ![a][i] = severity]

\* table.query without ConsistentRead: the answer may be that of a replica
\* which has not applied the most recent writes.
QueryAnswers == IF ReadLag THEN {items, replica} ELSE {items}

\* The replica catches up with the table.
CatchUp ==
  /\ ReadLag
  /\ replica # items
  /\ replica' = items
  /\ UNCHANGED <<items, summaryQ>>
=============================================================================
