---------------------------- MODULE SummaryDedup ----------------------------
(***************************************************************************)
(* What SummaryAgent.process makes of the findings its last query returned *)
(* before it formats the comment: the loop of _deduplicate, _rank_findings *)
(* and the verdict.                                                        *)
(*                                                                         *)
(* The list unique is kept as the set of the positions its findings have   *)
(* in the input: the loop only ever appends the finding it is at, so the   *)
(* list is that set in increasing order.                                   *)
(***************************************************************************)
EXTENDS Naturals, Sequences

CONSTANTS
  Keys,         \* the file:line pairs of findings
  Categories,   \* what a finding is about: security, performance, style or test
  Inputs        \* lists of findings a query may return

Severity == {"critical", "warning", "info"}

Finding == [key : Keys, category : Categories, severity : Severity]

ASSUME DedupAssumption == Inputs \subseteq Seq(Finding)

VARIABLES
  findings,     \* the input, in the order of the table's sort keys
  next,         \* the position the loop is at
  unique,       \* positions of the findings kept
  seenKeys,     \* seen_keys
  ranked,       \* positions of the findings kept, by severity
  verdict       \* the verdict, or "none" while there is none

vars == <<findings, next, unique, seenKeys, ranked, verdict>>

NoRanking == [s \in Severity |-> {}]

Init ==
  /\ findings \in Inputs
  /\ next = 1
  /\ unique = {}
  /\ seenKeys = {}
  /\ ranked = NoRanking
  /\ verdict = "none"

Key(i) == findings[i].key

Looping == next <= Len(findings)

\* The first finding with its key.
KeepNew ==
  /\ Looping
  /\ Key(next) \notin seenKeys
  /\ seenKeys' = seenKeys \cup {Key(next)}
  /\ unique' = unique \cup {next}
  /\ next' = next + 1
  /\ UNCHANGED <<findings, ranked, verdict>>

\* The entry of unique the inner loop stops at: the first with the key.
IsExisting(e) ==
  /\ e \in unique
  /\ Key(e) = Key(next)
  /\ \A other \in unique : Key(other) = Key(next) => e <= other

\* Mutant of Overlap: the later finding is always dropped.
OverlapKeepsFirst ==
  /\ Looping
  /\ Key(next) \in seenKeys
  /\ next' = next + 1
  /\ UNCHANGED <<findings, unique, seenKeys, ranked, verdict>>

\* A finding on a line that has one: it replaces the one kept only when it is
\* critical and that one is not.
Overlap ==
  /\ Looping
  /\ Key(next) \in seenKeys
  /\ \E e \in unique :
       /\ IsExisting(e)
       /\ unique' =
            IF findings[e].severity # "critical" /\ findings[next].severity = "critical"
            THEN (unique \ {e}) \cup {next}
            ELSE unique
  /\ next' = next + 1
  /\ UNCHANGED <<findings, seenKeys, ranked, verdict>>

\* _rank_findings and the verdict of process().
RankAndJudge ==
  /\ ~Looping
  /\ verdict = "none"
  /\ ranked' = [s \in Severity |-> {i \in unique : findings[i].severity = s}]
  /\ verdict' = IF ranked'["critical"] # {} THEN "request_changes"
                ELSE IF ranked'["warning"] # {} \/ ranked'["info"] # {} THEN "comment"
                ELSE "approve"
  /\ UNCHANGED <<findings, next, unique, seenKeys>>

Done == verdict # "none" /\ UNCHANGED vars

Next == KeepNew \/ Overlap \/ RankAndJudge \/ Done

Spec == Init /\ [][Next]_vars

-----------------------------------------------------------------------------
(* Properties *)

TypeOK ==
  /\ findings \in Seq(Finding)
  /\ next \in 1 .. Len(findings) + 1
  /\ unique \subseteq 1 .. next - 1
  /\ seenKeys \subseteq Keys
  /\ ranked \in [Severity -> SUBSET (1 .. next - 1)]
  /\ verdict \in {"none", "approve", "comment", "request_changes"}

\* A line with a critical finding shows a critical finding, in whatever order
\* the agents' findings come, whatever else there is on the line
\* (summary/agent.py, the loop of _deduplicate).
CriticalKept ==
  \A i \in 1 .. next - 1 :
    findings[i].severity = "critical" =>
      \E e \in unique : Key(e) = Key(i) /\ findings[e].severity = "critical"

\* The verdict a list of findings calls for, whatever lines they are on.
VerdictOf(list) ==
  IF \E i \in 1 .. Len(list) : list[i].severity = "critical" THEN "request_changes"
  ELSE IF Len(list) > 0 THEN "comment"
  ELSE "approve"

\* Removing duplicates never changes the verdict: the summary's verdict is the
\* one the findings stored by the agents call for.
VerdictUnchanged == verdict # "none" => verdict = VerdictOf(findings)

-----------------------------------------------------------------------------
(* What the comments of _deduplicate say and the code does not do *)

\* summary/agent.py, file+line+category is what makes a finding unique: for each
\* finding passed, one of its line and category is kept.
CategoryKept ==
  \A i \in 1 .. next - 1 :
    \E e \in unique : Key(e) = Key(i) /\ findings[e].category = findings[i].category

Rank == [info |-> 1, warning |-> 2, critical |-> 3]

\* summary/agent.py, an overlap is resolved by keeping the higher severity: of
\* each line passed a finding of its highest severity is kept.
HigherKept ==
  \A i \in 1 .. next - 1 :
    \E e \in unique :
      Key(e) = Key(i) /\ Rank[findings[i].severity] <= Rank[findings[e].severity]

\* The weakest reading of the two comments, that at least one of them holds; a
\* list that refutes it refutes both.
OverlapAsCommented == CategoryKept \/ HigherKept

-----------------------------------------------------------------------------
(* The inductive invariant behind the safety properties *)

Critical(i) == findings[i].severity = "critical"

\* Of the first n findings, i is the first critical one of its line, or the first
\* of a line without critical ones.
Chosen(i, n) ==
  \/ Critical(i) /\ \A j \in 1 .. n : Key(j) = Key(i) /\ Critical(j) => i <= j
  \/ \A j \in 1 .. n : Key(j) = Key(i) => i <= j /\ ~Critical(j)

\* What the loop keeps, whichever severities and categories the comments have in
\* mind: each line's first critical finding, else its first finding.
WhichKept == unique = {i \in 1 .. next - 1 : Chosen(i, next - 1)}

SeenInv == seenKeys = {Key(i) : i \in 1 .. next - 1}

\* No two findings kept are on one line, every line seen has one.
KeptInv ==
  /\ \A d, e \in unique : Key(d) = Key(e) => d = e
  /\ \A k \in seenKeys : \E e \in unique : Key(e) = k

JudgedInv ==
  verdict # "none" => next = Len(findings) + 1 /\ VerdictUnchanged

IInv == TypeOK /\ SeenInv /\ KeptInv /\ WhichKept /\ JudgedInv
=============================================================================
