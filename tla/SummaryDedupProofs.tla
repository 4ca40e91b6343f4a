------------------------- MODULE SummaryDedupProofs -------------------------
(***************************************************************************)
(* Proofs about SummaryDedup for every set of lines and for lists of       *)
(* findings of any length.                                                 *)
(***************************************************************************)
EXTENDS SummaryDedup, TLAPS

\* The inductive invariant holds before the loop.
LEMMA InitIInv == Init => IInv
<1> SUFFICES ASSUME Init PROVE IInv
  OBVIOUS
<1>1. findings \in Seq(Finding) /\ Len(findings) \in Nat
  BY DedupAssumption DEF Init
<1>2. TypeOK
  BY <1>1 DEF Init, TypeOK, NoRanking
<1> QED
  BY <1>1, <1>2 DEF Init, IInv, SeenInv, KeptInv, WhichKept, JudgedInv

\* What the loop reads at its position.
LEMMA AtNext ==
  ASSUME TypeOK, Looping
  PROVE  /\ next \in 1 .. Len(findings) /\ next \notin unique
         /\ findings[next] \in Finding /\ Len(findings) \in Nat
         /\ next \in Nat /\ next + 1 \in 1 .. Len(findings) + 1
         /\ 1 .. (next + 1) - 1 = (1 .. next - 1) \cup {next}
         /\ \A i \in 1 .. next - 1 : findings[i] \in Finding /\ i # next
<1> QED
  BY DEF TypeOK, Looping

\* Which findings are chosen depends on the list alone.
LEMMA ChosenFrame ==
  ASSUME UNCHANGED findings
  PROVE  \A i, n : Chosen(i, n)' <=> Chosen(i, n)
<1> QED
  BY DEF Chosen, Critical, Key

\* A line with a critical finding among those passed keeps a critical one: what
\* is kept of it would not be chosen otherwise.
LEMMA CriticalIsKept == IInv => CriticalKept
<1> SUFFICES ASSUME IInv, NEW i \in 1 .. next - 1, Critical(i)
             PROVE  \E e \in unique : Key(e) = Key(i) /\ Critical(e)
  BY DEF CriticalKept, Critical
<1>1. PICK e \in unique : Key(e) = Key(i)
  BY DEF IInv, SeenInv, KeptInv
<1>2. Chosen(e, next - 1)
  BY DEF IInv, WhichKept
<1> QED
  BY <1>1, <1>2 DEF Chosen

\* The first finding of its line.
LEMMA KeepNewStep ==
  ASSUME IInv, KeepNew
  PROVE  IInv'
<1> USE DEF IInv
<1>1. /\ Looping /\ Key(next) \notin seenKeys
      /\ seenKeys' = seenKeys \cup {Key(next)} /\ unique' = unique \cup {next}
      /\ next' = next + 1 /\ findings' = findings /\ ranked' = ranked /\ verdict' = verdict
  BY DEF KeepNew
<1>2. 1 .. next' - 1 = (1 .. next - 1) \cup {next}
  BY <1>1, AtNext
<1>3. TypeOK'
  <2>1. unique' \subseteq 1 .. next' - 1 /\ unique \subseteq unique'
    BY <1>1, <1>2 DEF TypeOK
  <2>2. Key(next) \in Keys
    BY <1>1, AtNext DEF Key, Finding
  <2>3. ranked' \in [Severity -> SUBSET (1 .. next' - 1)]
    BY <1>1, <1>2 DEF TypeOK
  <2> QED
    BY <1>1, <2>1, <2>2, <2>3, AtNext DEF TypeOK
<1>4. SeenInv'
  BY <1>1, <1>2 DEF SeenInv, Key
<1>5. KeptInv'
  <2>1. \A e \in unique : Key(e) \in seenKeys
    BY DEF SeenInv, TypeOK
  <2> QED
    BY <1>1, <2>1 DEF KeptInv, Key
<1>6. WhichKept'
  <2>1. \A j \in 1 .. next - 1 : Key(j) # Key(next)
    BY <1>1 DEF SeenInv
  <2>2. Chosen(next, next)
    <3>1. \A j \in 1 .. next : Key(j) = Key(next) => j = next
      BY <1>2, <1>1, <2>1
    <3> QED
      BY <3>1, <1>1, AtNext DEF Chosen
  <2>3. ASSUME NEW i \in 1 .. next - 1
        PROVE  Chosen(i, next) <=> Chosen(i, next - 1)
    BY <1>1, <1>2, <2>1 DEF Chosen
  <2> QED
    BY <1>1, <1>2, <2>2, <2>3, AtNext, ChosenFrame DEF WhichKept
<1>7. JudgedInv'
  <2>1. verdict = "none"
    BY <1>1, AtNext DEF JudgedInv
  <2> QED
    BY <1>1, <2>1 DEF JudgedInv
<1> QED
  BY <1>3, <1>4, <1>5, <1>6, <1>7

\* A further finding of a line: the entry kept stays or gives way to it.
LEMMA OverlapStep ==
  ASSUME IInv, Overlap
  PROVE  IInv'
<1> USE DEF IInv
<1>1. /\ Looping /\ Key(next) \in seenKeys
      /\ next' = next + 1 /\ findings' = findings /\ seenKeys' = seenKeys
      /\ ranked' = ranked /\ verdict' = verdict
  BY DEF Overlap
<1>2. PICK e \in unique :
        /\ IsExisting(e)
        /\ unique' =
             IF findings[e].severity # "critical" /\ findings[next].severity = "critical"
             THEN (unique \ {e}) \cup {next}
             ELSE unique
  BY DEF Overlap
<1>3. 1 .. next' - 1 = (1 .. next - 1) \cup {next}
  BY <1>1, AtNext
<1>4. Key(e) = Key(next) /\ \A d \in unique : Key(d) = Key(next) => d = e
  BY <1>2 DEF IsExisting, KeptInv
<1>5. TypeOK'
  <2>1. unique' \subseteq 1 .. next' - 1
    BY <1>2, <1>3 DEF TypeOK
  <2>2. ranked' \in [Severity -> SUBSET (1 .. next' - 1)]
    BY <1>1, <1>3 DEF TypeOK
  <2> QED
    BY <1>1, <2>1, <2>2, AtNext DEF TypeOK
<1>6. SeenInv'
  BY <1>1, <1>3 DEF SeenInv, Key
<1>7. KeptInv'
  BY <1>1, <1>2, <1>4, AtNext DEF KeptInv, Key
<1>8. WhichKept'
  <2>1. /\ e \in 1 .. next - 1 /\ Key(e) = Key(next) /\ Chosen(e, next - 1)
        /\ next \in Nat /\ e < next
    BY <1>1, <1>4, AtNext DEF WhichKept, TypeOK
  <2>2. Chosen(next, next) <=> Critical(next) /\ ~Critical(e)
    <3>1. CASE Critical(e)
      BY <2>1, <3>1, <1>3, <1>1 DEF Chosen
    <3>2. CASE ~Critical(e)
      <4>1. \A j \in 1 .. next - 1 : Key(j) = Key(next) => ~Critical(j)
        BY <2>1, <3>2 DEF Chosen
      <4> QED
        BY <2>1, <3>2, <4>1, <1>3, <1>1 DEF Chosen
    <3> QED
      BY <3>1, <3>2
  <2>3. ASSUME NEW i \in 1 .. next - 1
        PROVE  Chosen(i, next) <=>
                 Chosen(i, next - 1) /\ ~(i = e /\ Critical(next) /\ ~Critical(e))
    <3>1. \A j \in 1 .. next : j \in 1 .. next - 1 \/ j = next
      BY <1>1, <1>3
    <3>2. \A j \in 1 .. next - 1 : j \in 1 .. next /\ j < next /\ j \in Nat
      BY <1>1, <1>3, <2>1
    <3>3. CASE Key(i) # Key(next)
      BY <2>1, <3>1, <3>2, <3>3 DEF Chosen
    <3>4. CASE Key(i) = Key(next)
      <4>1. Chosen(i, next - 1) => i = e
        BY <2>1, <3>2, <3>4, <1>4 DEF WhichKept
      <4>2. CASE Critical(e)
        BY <2>1, <3>1, <3>2, <3>4, <4>1, <4>2 DEF Chosen
      <4>3. CASE ~Critical(e)
        <5>1. \A j \in 1 .. next - 1 : Key(j) = Key(next) => e <= j /\ ~Critical(j)
          BY <2>1, <4>3 DEF Chosen
        <5> QED
          BY <2>1, <3>1, <3>2, <3>4, <4>1, <4>3, <5>1 DEF Chosen
      <4> QED
        BY <4>2, <4>3
    <3> QED
      BY <3>3, <3>4
  <2>4. unique' = IF Critical(next) /\ ~Critical(e) THEN (unique \ {e}) \cup {next} ELSE unique
    BY <1>2 DEF Critical
  <2> QED
    BY <1>1, <1>3, <2>1, <2>2, <2>3, <2>4, AtNext, ChosenFrame DEF WhichKept
<1>9. JudgedInv'
  <2>1. verdict = "none"
    BY <1>1, AtNext DEF JudgedInv
  <2> QED
    BY <1>1, <2>1 DEF JudgedInv
<1> QED
  BY <1>5, <1>6, <1>7, <1>8, <1>9

\* Ranking and the verdict: the kept findings have a critical one exactly when
\* the input has, and are empty exactly when it is.
LEMMA JudgeStep ==
  ASSUME IInv, RankAndJudge
  PROVE  IInv'
<1> USE DEF IInv
<1>1. /\ ~Looping /\ verdict = "none"
      /\ ranked' = [s \in Severity |-> {i \in unique : findings[i].severity = s}]
      /\ UNCHANGED <<findings, next, unique, seenKeys>>
  BY DEF RankAndJudge
<1>2. next = Len(findings) + 1 /\ Len(findings) \in Nat
  BY <1>1 DEF TypeOK, Looping
<1>3. \A i \in 1 .. Len(findings) : findings[i] \in Finding
  BY DEF TypeOK
<1>4. /\ ranked'["critical"] = {i \in unique : findings[i].severity = "critical"}
      /\ ranked'["warning"] = {i \in unique : findings[i].severity = "warning"}
      /\ ranked'["info"] = {i \in unique : findings[i].severity = "info"}
  BY <1>1 DEF Severity
<1>5. unique \subseteq 1 .. Len(findings)
  BY <1>2 DEF TypeOK
<1>6. ranked'["critical"] # {} <=>
        \E i \in 1 .. Len(findings) : findings[i].severity = "critical"
  BY <1>2, <1>4, <1>5, CriticalIsKept DEF CriticalKept
<1>7. ranked'["critical"] = {} =>
        ((ranked'["warning"] # {} \/ ranked'["info"] # {}) <=> Len(findings) > 0)
  <2>1. unique # {} <=> Len(findings) > 0
    <3>1. ASSUME Len(findings) > 0 PROVE unique # {}
      <4>1. 1 \in 1 .. next - 1
        BY <1>2, <3>1
      <4>2. Key(1) \in seenKeys
        BY <4>1 DEF SeenInv
      <4> QED
        BY <4>2 DEF KeptInv
    <3>2. ASSUME unique # {} PROVE Len(findings) > 0
      <4>1. PICK e \in unique : e \in 1 .. Len(findings)
        BY <1>5, <3>2
      <4> QED
        BY <1>2, <4>1
    <3> QED
      BY <3>1, <3>2
  <2>2. \A i \in unique : findings[i].severity \in Severity
    BY <1>3, <1>5 DEF Finding
  <2> QED
    BY <1>4, <2>1, <2>2 DEF Severity
<1>8. /\ verdict' = VerdictOf(findings)
      /\ verdict' \in {"approve", "comment", "request_changes"}
  BY <1>6, <1>7 DEF RankAndJudge, VerdictOf
<1>9. TypeOK'
  <2>1. ranked' \in [Severity -> SUBSET (1 .. next' - 1)]
    BY <1>1 DEF TypeOK
  <2> QED
    BY <1>1, <1>8, <2>1 DEF TypeOK
<1>10. SeenInv' /\ KeptInv' /\ WhichKept'
  BY <1>1, ChosenFrame DEF SeenInv, KeptInv, WhichKept, Key
<1>11. JudgedInv'
  BY <1>1, <1>2, <1>8 DEF JudgedInv, VerdictUnchanged, VerdictOf
<1> QED
  BY <1>9, <1>10, <1>11

\* IInv is inductive.
LEMMA NextIInv == IInv /\ [Next]_vars => IInv'
<1> SUFFICES ASSUME IInv, [Next]_vars PROVE IInv'
  OBVIOUS
<1>1. CASE UNCHANGED vars
  BY <1>1, ChosenFrame DEF vars, IInv, TypeOK, SeenInv, KeptInv, WhichKept, JudgedInv,
              VerdictUnchanged, VerdictOf, Key
<1> QED
  BY <1>1, KeepNewStep, OverlapStep, JudgeStep DEF Next, Done

\* Each finding seen has its line among the kept ones, no line is kept twice and
\* what is kept of it is what should be, at every turn of the loop of
\* _deduplicate, for lists of any length.
THEOREM DedupInvariant == Spec => []IInv
  BY InitIInv, NextIInv, PTL DEF Spec

\* A line with a critical finding shows one after _deduplicate.
THEOREM CriticalLinesKept == Spec => []CriticalKept
<1> QED
  BY CriticalIsKept, DedupInvariant, PTL

\* What _deduplicate keeps is exactly the first critical finding of each line that
\* has one and the first finding of each other line, so that a warning gives way
\* to an info met before it.
THEOREM FirstCriticalKept == Spec => []WhichKept
<1>1. IInv => WhichKept
  BY DEF IInv
<1> QED
  BY <1>1, DedupInvariant, PTL

\* The verdict of process() is the one the stored findings call for, which is
\* what lets Summary and ReviewStore treat a finding as its severity.
THEOREM VerdictPreserved == Spec => []VerdictUnchanged
<1>1. IInv => VerdictUnchanged
  BY DEF IInv, JudgedInv, VerdictUnchanged
<1> QED
  BY <1>1, DedupInvariant, PTL
=============================================================================
