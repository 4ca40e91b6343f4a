---------------------------- MODULE ReviewAgent -----------------------------
(***************************************************************************)
(* The Lambda of one review agent (security, performance, style, test: the *)
(* four handlers have the same steps) working on one ParsedPREvent from    *)
(* its own queue: analyse, write the findings one put_item at a time,      *)
(* publish the findings event, return.                                     *)
(***************************************************************************)
EXTENDS ReviewStore, Sequences

CONSTANTS
  Results,      \* Results[a]: the finding sequences a run of agent a may end with
  WriteFaults   \* whether a put_item may raise

Findings == {s \in Seq(Severity) : Len(s) <= MaxItems}

ASSUME AgentAssumption ==
  /\ Results \in [Agents -> SUBSET Findings]
  /\ WriteFaults \in BOOLEAN

VARIABLES
  agentQ,     \* the parsed event on each agent's queue
  agentPc,    \* where the agent's invocation is
  found,      \* all_findings of the invocation
  writeIdx    \* the next finding _write_findings puts, counted from 1

agentVars == <<agentQ, agentPc, found, writeIdx>>

AgentTypeOK ==
  /\ agentQ \in [Agents -> Delivery(AgentReceives)]
  /\ agentPc \in [Agents -> {"idle", "analyze", "write", "publish", "return"}]
  /\ found \in [Agents -> Findings]
  /\ writeIdx \in [Agents -> 1 .. MaxItems + 1]

\* The parser has published; SNS has put a copy on every agent's queue.
AgentInit ==
  /\ agentQ = [a \in Agents |-> Sent]
  /\ agentPc = [a \in Agents |-> "idle"]
  /\ found = [a \in Agents |-> <<>>]
  /\ writeIdx = [a \in Agents |-> 1]

\* The invocation of agent a ends: its message becomes d, its locals are gone.
EndAgent(a, d) ==
  /\ agentQ' = [agentQ EXCEPT ![a] = d]
  /\ agentPc' = [agentPc EXCEPT ![a] = "idle"]
  /\ found' = [found EXCEPT ![a] = <<>>]
  /\ writeIdx' = [writeIdx EXCEPT ![a] = 1]
  /\ UNCHANGED storeVars

AgentReceive(a) ==
  /\ agentQ[a].st = "visible"
  /\ agentQ' = [agentQ EXCEPT ![a] = Receive(@)]
  /\ agentPc' = [agentPc EXCEPT ![a] = "analyze"]
  /\ UNCHANGED <<found, writeIdx, storeVars>>

\* The regex scan and the chunk loop.  A model call that raises and a reply
\* that does not parse contribute no findings and end nothing, so any result
\* the agent can reach is possible and two runs on one event may differ.
Analyze(a) ==
  /\ agentPc[a] = "analyze"
  /\ \E r \in Results[a] :
       /\ found' = [found EXCEPT ![a] = r]
       /\ agentPc' = [agentPc EXCEPT ![a] = IF r = <<>> THEN "publish" ELSE "write"]
  /\ UNCHANGED <<agentQ, writeIdx, storeVars>>

\* One turn of the put_item loop.
WriteFinding(a) ==
  /\ agentPc[a] = "write"
  /\ Put(a, writeIdx[a], found[a][writeIdx[a]])
  /\ writeIdx' = [writeIdx EXCEPT ![a] = @ + 1]
  /\ agentPc' = [agentPc EXCEPT ![a] = IF writeIdx[a] = Len(found[a]) THEN "publish" ELSE "write"]
  /\ UNCHANGED <<agentQ, found, replica, summaryQ>>

\* put_item raises: the rest of the loop is skipped, the error is only logged.
WriteFindingFails(a) ==
  /\ WriteFaults
  /\ agentPc[a] = "write"
  /\ agentPc' = [agentPc EXCEPT ![a] = "publish"]
  /\ UNCHANGED <<agentQ, found, writeIdx, storeVars>>

PublishFindings(a) ==
  /\ agentPc[a] = "publish"
  /\ summaryQ' = [summaryQ EXCEPT ![<<a, agentQ[a].rc>>] = Sent]
  /\ agentPc' = [agentPc EXCEPT ![a] = "return"]
  /\ UNCHANGED <<agentQ, found, writeIdx, items, replica>>

AgentReturn(a) ==
  /\ agentPc[a] = "return"
  /\ EndAgent(a, Delete(agentQ[a]))

\* Mutant of AgentFail: the handler logs the exception and returns.
AgentFailSwallowed(a) ==
  /\ agentQ[a].st = "inflight"
  /\ EndAgent(a, Delete(agentQ[a]))

\* The handler raises (event does not validate, publish fails) or the
\* invocation is cut off, at any point.
AgentFail(a) ==
  /\ agentQ[a].st = "inflight"
  /\ EndAgent(a, Release(agentQ[a], AgentReceives))

AgentStep(a) ==
  \/ AgentReceive(a)
  \/ Analyze(a)
  \/ WriteFinding(a)
  \/ WriteFindingFails(a)
  \/ PublishFindings(a)
  \/ AgentReturn(a)

AgentNext == \E a \in Agents : AgentStep(a) \/ AgentFail(a)

AgentsSettled == \A a \in Agents : Settled(agentQ[a])
=============================================================================
