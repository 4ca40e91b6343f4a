---------------------------- MODULE AgentAnalysis ----------------------------
(***************************************************************************)
(* What process() of a review agent makes of a pull request: the security  *)
(* agent's scan of the added lines for secrets, the loop over the chunks   *)
(* with a model call each, the parsing of the replies, and the security    *)
(* agent's _deduplicate.  The other three agents ("plain") share one text: *)
(* no scan, no deduplication, and a reply is parsed up to its first        *)
(* malformed finding, where the security agent gives the chunk up.         *)
(***************************************************************************)
EXTENDS BedrockClient, Sequences

CONSTANTS
  Kinds,        \* a subset of {"security", "plain"}
  Categories,   \* the categories of findings
  Malformed,    \* a finding in a reply that Finding(...) does not accept
  Diffs,        \* the added lines: for each the patterns of SECRET_PATTERNS it matches
  Chunks,       \* number of chunks
  Replies       \* the "findings" of a reply; <<>> also for a reply that is no JSON

Severity == {"critical", "warning", "info"}
Secret == "hardcoded_secret"
\* line stands for the file and the line in it.
Finding == [line : Nat, category : Categories, severity : Severity]

\* The severities of SECRET_PATTERNS, in its order.
PatternSeverity == <<"critical", "critical", "critical", "warning",
                     "critical", "critical", "warning", "critical">>

ASSUME AnalysisAssumption ==
  /\ Chunks \in Nat
  /\ Kinds \subseteq {"security", "plain"}
  /\ Secret \in Categories
  /\ Malformed \notin Finding
  /\ Diffs \subseteq Seq(SUBSET (1 .. 8))
  /\ Replies \subseteq Seq(Finding \cup {Malformed})

VARIABLES
  kind,         \* which agent this is
  diff,         \* the added lines of the pull request
  pc,           \* "scan", "chunks", "dedup", "done" or "cut"
  pos,          \* the line, chunk or finding the loop at pc is at
  found,        \* all_findings
  answers,      \* history: the replies got so far, <<Malformed>> for a call that raised
  kept          \* the positions in found of the findings reported

vars == <<bedrockVars, kind, diff, pc, pos, found, answers, kept>>

Init ==
  /\ BedrockInit
  /\ kind \in Kinds
  /\ diff \in Diffs
  /\ pc = IF kind = "security" THEN "scan" ELSE "chunks"
  /\ pos = 1
  /\ found = <<>>
  /\ answers = <<>>
  /\ kept = {}

GoOn(next) ==
  /\ pc' = next
  /\ pos' = 1

\* The first pattern of those a line matches makes its only finding.
SecretAt(line, matched) ==
  {[line |-> line, category |-> Secret, severity |-> PatternSeverity[p]] :
     p \in {q \in matched : \A r \in matched : q <= r}}

ScanLine ==
  /\ pc = "scan"
  /\ pos <= Len(diff)
  /\ \/ SecretAt(pos, diff[pos]) = {} /\ UNCHANGED found
     \/ \E f \in SecretAt(pos, diff[pos]) : found' = Append(found, f)
  /\ pos' = pos + 1
  /\ UNCHANGED <<bedrockVars, kind, diff, pc, answers, kept>>

ScanEnd ==
  /\ pc = "scan"
  /\ pos > Len(diff)
  /\ GoOn("chunks")
  /\ UNCHANGED <<bedrockVars, kind, diff, found, answers, kept>>

AtChunk == pc = "chunks" /\ pos <= Chunks

NextChunk(reply) ==
  /\ answers' = Append(answers, reply)
  /\ pos' = pos + 1
  /\ UNCHANGED <<kind, diff, pc, kept>>

\* The findings _parse_llm_response returns are those before the n-th.
Usable(reply, n) ==
  /\ \A i \in 1 .. n : reply[i] # Malformed
  /\ n < Len(reply) => kind = "plain" /\ reply[n + 1] = Malformed

\* Mutant of Extend: the model's findings go before the secrets.
ExtendFront(list) == found' = list \o found

Extend(list) == found' = found \o list

ChunkAnswered ==
  /\ AtChunk
  /\ Answered
  /\ \E reply \in Replies :
       /\ \E n \in 0 .. Len(reply) :
            /\ Usable(reply, n)
            /\ Extend(SubSeq(reply, 1, n))
       /\ NextChunk(reply)

ChunkThrottled ==
  /\ AtChunk
  /\ Throttled
  /\ UNCHANGED <<kind, diff, pc, pos, found, answers, kept>>

\* Mutant of ChunkFailed: the exception ends the loop with nothing found.
ChunkFailedReset ==
  /\ AtChunk
  /\ Raised
  /\ found' = <<>>
  /\ NextChunk(<<Malformed>>)

\* invoke() raised, or the security agent met a malformed finding: the chunk's
\* findings are lost, and the loop goes on.
ChunkFailed ==
  /\ AtChunk
  /\ \/ Raised /\ NextChunk(<<Malformed>>)
     \/ /\ kind = "security"
        /\ Answered
        /\ \E reply \in Replies :
             /\ \E i \in 1 .. Len(reply) : reply[i] = Malformed
             /\ NextChunk(reply)
  /\ UNCHANGED found

ChunksEnd ==
  /\ pc = "chunks"
  /\ pos > Chunks
  /\ GoOn(IF kind = "security" THEN "dedup" ELSE "done")
  /\ kept' = IF kind = "security" THEN {} ELSE 1 .. Len(found)
  /\ UNCHANGED <<bedrockVars, kind, diff, found, answers>>

Key(f) == <<f.line, f.category>>

\* Mutant of Deduplicate: the key is not added to seen.
DeduplicateUnseen ==
  /\ pc = "dedup"
  /\ pos <= Len(found)
  /\ kept' = kept \cup {pos}
  /\ pos' = pos + 1
  /\ UNCHANGED <<bedrockVars, kind, diff, pc, found, answers>>

\* A finding whose key is not in seen yet, or one that is dropped.
Deduplicate ==
  /\ pc = "dedup"
  /\ pos <= Len(found)
  /\ kept' = IF \E i \in kept : Key(found[i]) = Key(found[pos]) THEN kept ELSE kept \cup {pos}
  /\ pos' = pos + 1
  /\ UNCHANGED <<bedrockVars, kind, diff, pc, found, answers>>

DedupEnd ==
  /\ pc = "dedup"
  /\ pos > Len(found)
  /\ GoOn("done")
  /\ UNCHANGED <<bedrockVars, kind, diff, found, answers, kept>>

\* Lambda's timeout ends the invocation; nothing has been written yet.
CutOff ==
  /\ AtChunk
  /\ OutOfTime
  /\ pc' = "cut"
  /\ UNCHANGED <<bedrockVars, kind, diff, pos, found, answers, kept>>

Ended == pc \in {"done", "cut"} /\ UNCHANGED vars

Next ==
  \/ ScanLine \/ ScanEnd
  \/ ChunkAnswered \/ ChunkThrottled \/ ChunkFailed \/ ChunksEnd
  \/ Deduplicate \/ DedupEnd
  \/ CutOff \/ Ended

Spec == Init /\ [][Next]_vars

-----------------------------------------------------------------------------
(* Properties *)

TypeOK ==
  /\ attempt \in 0 .. MaxRetries - 1
  /\ elapsed \in 0 .. Timeout
  /\ kind \in Kinds
  /\ diff \in Seq(SUBSET (1 .. 8))
  /\ pc \in {"scan", "chunks", "dedup", "done", "cut"}
  /\ pos \in Nat \ {0}
  /\ found \in Seq(Finding)
  /\ answers \in Seq(Seq(Finding \cup {Malformed}))
  /\ kept \subseteq 1 .. Len(found)

Reported == {found[i] : i \in kept}
Secrets(agent, lines, n) ==
  IF agent = "security" THEN UNION {SecretAt(i, lines[i]) : i \in 1 .. n} ELSE {}

\* What counts of a reply: everything before its first malformed finding, and
\* for the security agent nothing if there is one.
Counts(agent, reply) ==
  {reply[i] : i \in {j \in 1 .. Len(reply) :
     \A m \in 1 .. IF agent = "plain" THEN j ELSE Len(reply) : reply[m] # Malformed}}

AllCounted == UNION {Counts(kind, answers[c]) : c \in 1 .. Len(answers)}

\* A chunk whose call or reply fails costs its own findings and no other's: what
\* the agent reports is what the scan and the other replies found, up to the
\* merging of findings with one key by the security agent, and nothing else
\* (process() of security/agent.py and its siblings).
EveryAnswerCounts ==
  pc = "done" =>
    /\ Reported \subseteq Secrets(kind, diff, Len(diff)) \cup AllCounted
    /\ \A f \in AllCounted : \E g \in Reported :
         /\ f.line = g.line /\ f.category = g.category
         /\ kind = "plain" => f = g

\* The secrets found by the scan are reported with the scan's severity whatever
\* the model says of the same lines, for the scan comes first in all_findings
\* and _deduplicate keeps the first.
SecretsKept == pc = "done" => Secrets(kind, diff, Len(diff)) \subseteq Reported

\* A line whose first matching pattern is a critical one.
HoldsCritical(lines) ==
  \E i \in 1 .. Len(lines) : \E p \in lines[i] :
    PatternSeverity[p] = "critical" /\ \A q \in lines[i] : p <= q

\* A diff with such a line has a critical finding in every finished run of the
\* security agent, with whatever replies and failures of the model: for it what
\* CriticalReported (ArgusReview) asks of all runs, AlwaysFinds, holds.
SecretsAlwaysCritical ==
  pc = "done" /\ kind = "security" /\ HoldsCritical(diff) =>
    \E f \in Reported : f.severity = "critical"

\* The security agent reports a key once, so no two of its FINDING# items have
\* the same file, line and category.
OnePerKey ==
  kind = "security" => \A i, j \in kept : Key(found[i]) = Key(found[j]) => i = j

\* The longest an invoke takes: every attempt throttled, every sleep slept.
InvokeTime == MaxRetries * CallTime + Slept(MaxRetries)

\* Lambda's timeout cuts the analysis off at the k-th chunk only if k invokes at
\* their slowest exceed it: with a timeout of Chunks times InvokeTime, throttling
\* never costs more than the throttled chunks.
CutOnlyWhenSlow == pc = "cut" => pos * InvokeTime > Timeout

-----------------------------------------------------------------------------
(* The inductive invariant behind them *)

LoopInv ==
  /\ pc \in {"scan", "dedup"} => kind = "security"
  /\ pc = "scan" => pos <= Len(diff) + 1 /\ answers = <<>>
  /\ pc = "chunks" => pos <= Chunks + 1
  /\ pc = "dedup" => pos <= Len(found) + 1 /\ kept \subseteq 1 .. pos - 1
  /\ pc \in {"scan", "chunks", "cut"} => kept = {}

FoundIs(n) ==
  {found[i] : i \in 1 .. Len(found)} = Secrets(kind, diff, n) \cup AllCounted

FoundInv ==
  IF pc = "scan" THEN FoundIs(pos - 1) ELSE FoundIs(Len(diff))

\* A secret stands in all_findings before every other finding with its key.
SecretsFirst ==
  /\ pc = "scan" => \A i \in 1 .. Len(found) : found[i].line < pos
  /\ \A f \in Secrets(kind, diff, IF pc = "scan" THEN pos - 1 ELSE Len(diff)) :
       \E i \in 1 .. Len(found) : found[i] = f /\ \A j \in 1 .. i - 1 : Key(found[j]) # Key(found[i])

\* _deduplicate keeps the first finding of each key it has passed.
KeptInv ==
  LET passed == IF pc = "dedup" THEN 1 .. pos - 1 ELSE 1 .. Len(found) IN
  /\ OnePerKey
  /\ kind = "plain" /\ pc = "done" => kept = passed
  /\ kind = "security" /\ pc \in {"dedup", "done"} =>
       /\ \A i \in passed : \E j \in kept : Key(found[j]) = Key(found[i])
       /\ \A i \in passed : (\A j \in 1 .. i - 1 : Key(found[j]) # Key(found[i])) => i \in kept

TimeInv ==
  /\ pc = "scan" => attempt = 0 /\ elapsed = 0
  /\ pc = "chunks" => elapsed <= (pos - 1) * InvokeTime + attempt * CallTime + Slept(attempt)
  /\ CutOnlyWhenSlow

IInv ==
  /\ TypeOK
  /\ LoopInv
  /\ FoundInv
  /\ SecretsFirst
  /\ KeptInv
  /\ TimeInv
=============================================================================
