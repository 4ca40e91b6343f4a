------------------------- MODULE AgentAnalysisProofs -------------------------
(***************************************************************************)
(* Proofs that AgentAnalysis keeps its safety properties for any diff,     *)
(* any number of chunks, any replies and any Lambda timeout.               *)
(***************************************************************************)
EXTENDS AgentAnalysis, SequenceTheorems, TLAPS

\* The elements of a sequence.
Elements(s) == {s[i] : i \in 1 .. Len(s)}

\* The elements of one list after the other are those of both.
LEMMA ConcatRange ==
  ASSUME NEW s, NEW t, NEW u,
         Len(s) \in Nat, Len(t) \in Nat, Len(u) = Len(s) + Len(t),
         \A i \in 1 .. Len(s) : u[i] = s[i],
         \A i \in 1 .. Len(t) : u[Len(s) + i] = t[i]
  PROVE  Elements(u) = Elements(s) \cup Elements(t)
<1>2. ASSUME NEW i \in 1 .. Len(u)
      PROVE  u[i] \in {s[k] : k \in 1 .. Len(s)} \cup {t[k] : k \in 1 .. Len(t)}
  <2>1. CASE i <= Len(s)
    BY <2>1
  <2>2. CASE i > Len(s)
    <3>1. i - Len(s) \in 1 .. Len(t) /\ Len(s) + (i - Len(s)) = i
      BY <2>2
    <3>2. u[i] = t[i - Len(s)]
      BY <3>1
    <3> QED
      BY <3>1, <3>2
  <2> QED
    BY <2>1, <2>2
<1>3. ASSUME NEW i \in 1 .. Len(s) PROVE s[i] \in {u[k] : k \in 1 .. Len(u)}
  OBVIOUS
<1>4. ASSUME NEW i \in 1 .. Len(t) PROVE t[i] \in {u[k] : k \in 1 .. Len(u)}
  <2>1. Len(s) + i \in 1 .. Len(u)
    OBVIOUS
  <2> QED
    BY <2>1
<1> QED
  BY <1>2, <1>3, <1>4 DEF Elements

\* One element more.
LEMMA AppendRange ==
  ASSUME NEW S, NEW s \in Seq(S), NEW e \in S
  PROVE  {Append(s, e)[i] : i \in 1 .. Len(Append(s, e))} = {s[i] : i \in 1 .. Len(s)} \cup {e}
<1> DEFINE u == Append(s, e)
<1>1. /\ Len(u) = Len(s) + 1 /\ Len(s) \in Nat
      /\ \A i \in 1 .. Len(s) : u[i] = s[i]
      /\ u[Len(s) + 1] = e
  BY AppendProperties
<1> HIDE DEF u
<1>2. 1 .. Len(u) = (1 .. Len(s)) \cup {Len(s) + 1}
  BY <1>1
<1>3. {u[i] : i \in 1 .. Len(u)} = {s[i] : i \in 1 .. Len(s)} \cup {e}
  BY <1>1, <1>2
<1> QED
  BY <1>3 DEF u

\* A line's pattern makes at most one finding, a well-formed one on that line.
LEMMA SecretAtLine ==
  ASSUME NEW i \in Nat, NEW matched \in SUBSET (1 .. 8)
  PROVE  /\ SecretAt(i, matched) \subseteq Finding
         /\ \A f \in SecretAt(i, matched) : f.line = i /\ SecretAt(i, matched) = {f}
<1>1. \A p \in 1 .. 8 : PatternSeverity[p] \in Severity
  BY DEF PatternSeverity, Severity
<1>2. SecretAt(i, matched) \subseteq Finding
  BY <1>1, AnalysisAssumption DEF SecretAt, Finding
<1>3. \A p, q \in matched :
        (\A r \in matched : p <= r) /\ (\A r \in matched : q <= r) => p = q
  OBVIOUS
<1>4. \A f \in SecretAt(i, matched) : f.line = i
  BY DEF SecretAt
<1>5. \A f, g \in SecretAt(i, matched) : f = g
  BY <1>3 DEF SecretAt
<1> QED
  BY <1>2, <1>4, <1>5

\* The secrets of the first n lines, and of one line more.
LEMMA SecretsOfLines ==
  ASSUME NEW lines \in Seq(SUBSET (1 .. 8)), NEW n \in 0 .. Len(lines), NEW agent
  PROVE  /\ Secrets(agent, lines, n) \subseteq Finding
         /\ \A f \in Secrets(agent, lines, n) : f.line \in 1 .. n
         /\ Secrets(agent, lines, 0) = {}
         /\ agent = "security" /\ n < Len(lines) =>
              Secrets(agent, lines, n + 1) = Secrets(agent, lines, n) \cup SecretAt(n + 1, lines[n + 1])
<1>1. \A i \in 1 .. n : SecretAt(i, lines[i]) \subseteq Finding /\ \A f \in SecretAt(i, lines[i]) : f.line = i
  BY SecretAtLine
<1>2. 1 .. n + 1 = (1 .. n) \cup {n + 1} /\ 1 .. 0 = {}
  OBVIOUS
<1> QED
  BY <1>1, <1>2 DEF Secrets

\* What the agent takes from a reply is what counts of it.
LEMMA UsableCounts ==
  ASSUME NEW reply \in Seq(Finding \cup {Malformed}), NEW n \in 0 .. Len(reply),
         Usable(reply, n), kind \in {"security", "plain"}
  PROVE  /\ SubSeq(reply, 1, n) \in Seq(Finding)
         /\ Len(SubSeq(reply, 1, n)) = n
         /\ \A i \in 1 .. n : SubSeq(reply, 1, n)[i] = reply[i]
         /\ {reply[i] : i \in 1 .. n} = Counts(kind, reply)
<1>1. \A i \in 1 .. n : reply[i] \in Finding
  BY DEF Usable
<1>2. /\ SubSeq(reply, 1, n) = [i \in 1 .. n |-> reply[i]]
      /\ Len(SubSeq(reply, 1, n)) = n
  OBVIOUS
<1>3. SubSeq(reply, 1, n) \in Seq(Finding)
  BY <1>1, SubSeqProperties
<1>4. {j \in 1 .. Len(reply) : \A m \in 1 .. IF kind = "plain" THEN j ELSE Len(reply) :
         reply[m] # Malformed} = 1 .. n
  BY DEF Usable
<1> QED
  BY <1>2, <1>3, <1>4 DEF Counts

\* A reply that costs its chunk counts for nothing.
LEMMA LostReply ==
  ASSUME kind \in {"security", "plain"}
  PROVE  /\ Counts(kind, <<Malformed>>) = {}
         /\ kind = "security" => \A reply \in Seq(Finding \cup {Malformed}) :
              (\E i \in 1 .. Len(reply) : reply[i] = Malformed) => Counts(kind, reply) = {}
<1> QED
  BY DEF Counts

\* One more reply adds what counts of it.
LEMMA OneMoreAnswer ==
  ASSUME answers \in Seq(Seq(Finding \cup {Malformed})),
         NEW reply \in Seq(Finding \cup {Malformed}),
         answers' = Append(answers, reply), kind' = kind
  PROVE  /\ AllCounted' = AllCounted \cup Counts(kind, reply)
         /\ answers' \in Seq(Seq(Finding \cup {Malformed}))
<1>1. /\ Len(answers') = Len(answers) + 1
      /\ answers'[Len(answers) + 1] = reply
      /\ \A c \in 1 .. Len(answers) : answers'[c] = answers[c]
      /\ answers' \in Seq(Seq(Finding \cup {Malformed}))
  BY AppendProperties
<1>2. 1 .. Len(answers') = (1 .. Len(answers)) \cup {Len(answers) + 1}
  BY <1>1
<1> QED
  BY <1>1, <1>2 DEF AllCounted

\* What a call costs, from a bound on the time before its invoke.
LEMMA CallCosts ==
  ASSUME attempt \in 0 .. MaxRetries - 1, elapsed \in 0 .. Timeout, NEW before \in Nat,
         elapsed <= before + attempt * CallTime + Slept(attempt)
  PROVE  /\ Answered \/ Raised =>
              /\ attempt' = 0
              /\ elapsed' \in 0 .. Timeout
              /\ elapsed' <= before + InvokeTime
         /\ Throttled =>
              /\ attempt' \in 0 .. MaxRetries - 1
              /\ elapsed' \in 0 .. Timeout
              /\ elapsed' <= before + attempt' * CallTime + Slept(attempt')
         /\ OutOfTime => before + InvokeTime > Timeout
<1> USE TimeAssumption DEF MaxRetries, InvokeTime, Slept, Backoff
<1>1. /\ attempt * CallTime \in Nat
      /\ attempt = 0 => attempt * CallTime = 0
      /\ attempt = 1 => attempt * CallTime = CallTime
      /\ attempt = 2 => attempt * CallTime = CallTime + CallTime
      /\ 3 * CallTime = CallTime + CallTime + CallTime
  OBVIOUS
<1>2. attempt \in {0, 1, 2}
  OBVIOUS
<1>3. CASE attempt = 0
  BY <1>1, <1>3 DEF Answered, Raised, Throttled, OutOfTime, Call
<1>4. CASE attempt = 1
  BY <1>1, <1>4 DEF Answered, Raised, Throttled, OutOfTime, Call
<1>5. CASE attempt = 2
  BY <1>1, <1>5 DEF Answered, Raised, Throttled, OutOfTime, Call
<1> QED
  BY <1>2, <1>3, <1>4, <1>5

\* The slowest invokes of n chunks.
LEMMA InvokesTime ==
  ASSUME NEW n \in Nat \ {0}
  PROVE  /\ InvokeTime \in Nat /\ (n - 1) * InvokeTime \in Nat /\ n * InvokeTime \in Nat
         /\ n * InvokeTime = (n - 1) * InvokeTime + InvokeTime
<1>1. InvokeTime \in Nat
  BY TimeAssumption DEF InvokeTime, MaxRetries, Slept
<1>2. \A m, t \in Nat : m * t \in Nat /\ (m + 1) * t = m * t + t
  OBVIOUS
<1>3. n - 1 \in Nat /\ (n - 1) + 1 = n
  OBVIOUS
<1>4. /\ (n - 1) * InvokeTime \in Nat
      /\ ((n - 1) + 1) * InvokeTime = (n - 1) * InvokeTime + InvokeTime
  BY <1>1, <1>2, <1>3, Zenon
<1>5. n * InvokeTime \in Nat
  BY <1>1, <1>2, Zenon
<1> QED
  BY <1>1, <1>3, <1>4, <1>5

\* A chunk is over: list is what it adds to all_findings, all that counts of its
\* reply.
LEMMA ChunkStep ==
  ASSUME IInv, AtChunk, Answered \/ Raised,
         NEW reply \in Seq(Finding \cup {Malformed}), NextChunk(reply),
         NEW list \in Seq(Finding), Extend(list),
         {list[i] : i \in 1 .. Len(list)} = Counts(kind, reply)
  PROVE  IInv'
<1> USE AnalysisAssumption, TimeAssumption DEF IInv
<1>1. /\ pc = "chunks" /\ pos \in 1 .. Chunks /\ kept = {}
      /\ pc' = pc /\ pos' = pos + 1 /\ kind' = kind /\ diff' = diff /\ kept' = kept
      /\ kind \in {"security", "plain"} /\ diff \in Seq(SUBSET (1 .. 8)) /\ found \in Seq(Finding)
  BY DEF AtChunk, NextChunk, TypeOK, LoopInv
<1>2. /\ found' \in Seq(Finding) /\ Len(found') = Len(found) + Len(list)
      /\ \A i \in 1 .. Len(found) : found'[i] = found[i]
      /\ \A i \in 1 .. Len(list) : found'[Len(found) + i] = list[i]
  BY <1>1, ConcatProperties DEF Extend
<1>3. /\ AllCounted' = AllCounted \cup Counts(kind, reply)
      /\ answers' \in Seq(Seq(Finding \cup {Malformed}))
  BY OneMoreAnswer DEF NextChunk, TypeOK
<1>4. attempt' = 0 /\ elapsed' \in 0 .. Timeout /\ elapsed' <= (pos - 1) * InvokeTime + InvokeTime
  <2>1. (pos - 1) * InvokeTime \in Nat
    BY <1>1, InvokesTime, Zenon DEF TypeOK
  <2> QED
    BY <1>1, <2>1, CallCosts DEF TypeOK, TimeInv
<1>5. TypeOK'
  BY <1>1, <1>2, <1>3, <1>4 DEF TypeOK, MaxRetries
<1>6. LoopInv'
  BY <1>1 DEF LoopInv
<1>7. Secrets(kind', diff', Len(diff')) = Secrets(kind, diff, Len(diff))
  BY <1>1
<1>8. Elements(found') = Elements(found) \cup Elements(list)
  <2>1. Len(found) \in Nat /\ Len(list) \in Nat
    BY <1>1
  <2> QED
    BY <1>2, <2>1, ConcatRange
<1>9. FoundInv'
  BY <1>1, <1>3, <1>7, <1>8 DEF FoundInv, FoundIs, Elements
<1>10. SecretsFirst'
  <2>1. \A i \in 1 .. Len(found) : Key(found'[i]) = Key(found[i])
    BY <1>2
  <2>2. ASSUME NEW f \in Secrets(kind, diff, Len(diff))
        PROVE  \E i \in 1 .. Len(found') : found'[i] = f /\ \A j \in 1 .. i - 1 : Key(found'[j]) # Key(found'[i])
    <3>1. PICK i \in 1 .. Len(found) : found[i] = f /\ \A j \in 1 .. i - 1 : Key(found[j]) # Key(found[i])
      BY <1>1 DEF SecretsFirst
    <3>2. \A j \in 1 .. i - 1 : Key(found'[j]) # Key(found'[i])
      <4>1. \A j \in 1 .. i - 1 : j \in 1 .. Len(found)
        BY <1>1, <3>1
      <4> QED
        BY <2>1, <3>1, <4>1, Zenon
    <3>3. i \in 1 .. Len(found') /\ found'[i] = f
      BY <1>1, <1>2, <3>1
    <3> QED
      BY <3>2, <3>3, Zenon
  <2> QED
    BY <1>1, <1>7, <2>2 DEF SecretsFirst
<1>11. KeptInv'
  BY <1>1 DEF KeptInv, OnePerKey
<1>12. TimeInv'
  <2>1. (pos - 1) * InvokeTime + InvokeTime = pos * InvokeTime /\ pos * InvokeTime \in Nat
    <3>1. pos \in Nat \ {0}
      BY <1>1
    <3> QED
      BY <3>1, InvokesTime, Zenon
  <2>2. InvokeTime' = InvokeTime
    BY DEF InvokeTime, MaxRetries, Slept
  <2>3. attempt' * CallTime = 0 /\ Slept(attempt') = 0 /\ pos * InvokeTime \in Nat
    BY <1>1, <1>4, <2>1 DEF Slept, MaxRetries
  <2>4. (pos' - 1) * InvokeTime = pos * InvokeTime
    BY <1>1
  <2> QED
    BY <1>1, <1>4, <2>1, <2>2, <2>3, <2>4 DEF TimeInv, CutOnlyWhenSlow
<1> QED
  BY <1>5, <1>6, <1>9, <1>10, <1>11, <1>12

\* A line is scanned: it flags nothing, or its finding is the first on its line.
LEMMA ScanLineStep ==
  ASSUME IInv, ScanLine
  PROVE  IInv'
<1> USE AnalysisAssumption, TimeAssumption DEF IInv
<1>1. /\ pc = "scan" /\ kind = "security" /\ pos \in 1 .. Len(diff) /\ kept = {} /\ answers = <<>>
      /\ pc' = pc /\ pos' = pos + 1 /\ kind' = kind /\ diff' = diff /\ kept' = kept
      /\ answers' = answers /\ attempt' = attempt /\ elapsed' = elapsed
      /\ diff \in Seq(SUBSET (1 .. 8)) /\ found \in Seq(Finding)
  BY DEF ScanLine, bedrockVars, TypeOK, LoopInv
<1>2. /\ Secrets(kind, diff, pos) = Secrets(kind, diff, pos - 1) \cup SecretAt(pos, diff[pos])
      /\ SecretAt(pos, diff[pos]) \subseteq Finding
      /\ \A f \in SecretAt(pos, diff[pos]) : f.line = pos /\ SecretAt(pos, diff[pos]) = {f}
  <2>1. pos - 1 \in 0 .. Len(diff) /\ pos - 1 < Len(diff) /\ (pos - 1) + 1 = pos
    BY <1>1
  <2>2. diff[pos] \in SUBSET (1 .. 8) /\ pos \in Nat
    BY <1>1
  <2>3. Secrets(kind, diff, (pos - 1) + 1) =
          Secrets(kind, diff, pos - 1) \cup SecretAt((pos - 1) + 1, diff[(pos - 1) + 1])
    BY <1>1, <2>1, SecretsOfLines
  <2>4. Secrets(kind, diff, pos) = Secrets(kind, diff, pos - 1) \cup SecretAt(pos, diff[pos])
    BY <2>1, <2>3
  <2> QED
    BY <2>2, <2>4, SecretAtLine
<1>3. AllCounted' = AllCounted
  BY <1>1 DEF AllCounted
<1>4. LoopInv'
  BY <1>1 DEF LoopInv
<1>5. KeptInv'
  BY <1>1 DEF KeptInv, OnePerKey
<1>6. TimeInv'
  BY <1>1 DEF TimeInv, CutOnlyWhenSlow
<1>7. pos' - 1 = pos
  BY <1>1
<1>10. \A i \in 1 .. Len(found) : found[i].line \in Nat /\ found[i].line < pos
  <2>1. \A i \in 1 .. Len(found) : found[i] \in Finding
    BY <1>1
  <2>2. \A i \in 1 .. Len(found) : found[i].line < pos
    BY <1>1 DEF SecretsFirst
  <2> QED
    BY <2>1, <2>2 DEF Finding
<1>8. CASE SecretAt(pos, diff[pos]) = {} /\ found' = found
  <2>1. TypeOK'
    BY <1>1, <1>8 DEF TypeOK
  <2>2. FoundInv'
    BY <1>1, <1>2, <1>3, <1>7, <1>8 DEF FoundInv, FoundIs
  <2>3. SecretsFirst'
    <3>1. \A i \in 1 .. Len(found) : found[i].line < pos + 1
      BY <1>1, <1>10
    <3> QED
      BY <1>1, <1>2, <1>7, <1>8, <3>1 DEF SecretsFirst
  <2> QED
    BY <2>1, <2>2, <2>3, <1>4, <1>5, <1>6
<1>9. CASE \E f \in SecretAt(pos, diff[pos]) : found' = Append(found, f)
  <2>1. PICK f \in SecretAt(pos, diff[pos]) : found' = Append(found, f)
    BY <1>9
  <2>2. f \in Finding /\ f.line = pos /\ SecretAt(pos, diff[pos]) = {f}
    BY <1>2
  <2>3. /\ found' \in Seq(Finding) /\ Len(found') = Len(found) + 1 /\ found'[Len(found) + 1] = f
        /\ \A i \in 1 .. Len(found) : found'[i] = found[i]
        /\ {found'[i] : i \in 1 .. Len(found')} = {found[i] : i \in 1 .. Len(found)} \cup {f}
    BY <1>1, <2>1, <2>2, AppendProperties, AppendRange
  <2>4. TypeOK'
    BY <1>1, <2>3 DEF TypeOK
  <2>5. FoundInv'
    BY <1>1, <1>2, <1>3, <1>7, <2>2, <2>3 DEF FoundInv, FoundIs
  <2>6. SecretsFirst'
    <3>1. \A i \in 1 .. Len(found') : found'[i].line < pos'
      <4> TAKE i \in 1 .. Len(found')
      <4>1. CASE i \in 1 .. Len(found)
        <5>1. found'[i] = found[i] /\ found[i].line \in Nat /\ found[i].line < pos
          BY <4>1, <1>10, <2>3, Zenon
        <5>2. \A m, n \in Nat : m < n => m < n + 1
          OBVIOUS
        <5>3. pos \in Nat /\ pos' = pos + 1
          BY <1>1
        <5> QED
          BY <5>1, <5>2, <5>3, Zenon
      <4>2. CASE i = Len(found) + 1
        <5>1. found'[i].line = pos
          BY <4>2, <2>2, <2>3, Zenon
        <5> QED
          BY <5>1, <1>1
      <4> QED
        BY <4>1, <4>2, <1>1, <2>3
    <3>2. ASSUME NEW g \in Secrets(kind, diff, pos)
          PROVE  \E i \in 1 .. Len(found') :
                   found'[i] = g /\ \A j \in 1 .. i - 1 : Key(found'[j]) # Key(found'[i])
      <4>1. CASE g = f
        <5>1. \A j \in 1 .. Len(found) : Key(found'[j]) # Key(f)
          BY <1>1, <1>10, <2>2, <2>3 DEF Key
        <5>2. Len(found) + 1 \in 1 .. Len(found') /\ (Len(found) + 1) - 1 = Len(found)
          BY <1>1, <2>3
        <5> QED
          BY <4>1, <5>1, <5>2, <2>3
      <4>2. CASE g \in Secrets(kind, diff, pos - 1)
        <5>1. PICK i \in 1 .. Len(found) :
                found[i] = g /\ \A j \in 1 .. i - 1 : Key(found[j]) # Key(found[i])
          BY <4>2, <1>1 DEF SecretsFirst
        <5>2. i \in 1 .. Len(found') /\ found'[i] = g
          BY <5>1, <1>1, <2>3
        <5>3. \A j \in 1 .. i - 1 : Key(found'[j]) # Key(found'[i])
          BY <5>1, <1>1, <2>3
        <5> QED
          BY <5>2, <5>3
      <4> QED
        BY <4>1, <4>2, <1>2, <2>2
    <3> QED
      BY <1>1, <1>7, <3>1, <3>2 DEF SecretsFirst
  <2> QED
    BY <2>4, <2>5, <2>6, <1>4, <1>5, <1>6
<1> QED
  BY <1>1, <1>8, <1>9 DEF ScanLine

\* The loop goes on, the chunk's call is throttled, or the invocation is over.
LEMMA BoundaryStep ==
  ASSUME IInv, ScanEnd \/ ChunkThrottled \/ ChunksEnd \/ DedupEnd \/ CutOff
  PROVE  IInv'
<1> USE AnalysisAssumption, TimeAssumption DEF IInv
<1>1. /\ kind' = kind /\ diff' = diff /\ found' = found /\ answers' = answers
      /\ kind \in {"security", "plain"} /\ diff \in Seq(SUBSET (1 .. 8)) /\ found \in Seq(Finding)
  BY DEF ScanEnd, ChunkThrottled, ChunksEnd, DedupEnd, CutOff, GoOn, TypeOK
<1>2. /\ Secrets(kind', diff', Len(diff')) = Secrets(kind, diff, Len(diff)) /\ AllCounted' = AllCounted
  BY <1>1 DEF AllCounted
<1>3. /\ (pos - 1) * InvokeTime \in Nat /\ pos * InvokeTime = (pos - 1) * InvokeTime + InvokeTime
      /\ InvokeTime' = InvokeTime
  <2>1. pos \in Nat \ {0}
    BY DEF TypeOK
  <2>2. (pos - 1) * InvokeTime \in Nat /\ pos * InvokeTime = (pos - 1) * InvokeTime + InvokeTime
    BY <2>1, InvokesTime, Zenon
  <2> QED
    BY <2>2 DEF InvokeTime, MaxRetries, Slept
<1>4. CASE ScanEnd
  <2>1. pc = "scan" /\ pc' = "chunks" /\ pos = Len(diff) + 1 /\ pos' = 1 /\ kept' = kept
        /\ attempt' = attempt /\ elapsed' = elapsed
    BY <1>4 DEF ScanEnd, GoOn, TypeOK, LoopInv, bedrockVars
  <2>2. TypeOK' /\ LoopInv' /\ KeptInv'
    BY <1>1, <2>1 DEF TypeOK, LoopInv, KeptInv, OnePerKey
  <2>3. pos - 1 = Len(diff)
    BY <1>1, <2>1
  <2>4. FoundInv' /\ SecretsFirst'
    BY <1>1, <1>2, <2>1, <2>3 DEF FoundInv, FoundIs, SecretsFirst
  <2>5. TimeInv'
    <3>1. attempt' = 0 /\ elapsed' = 0
      BY <2>1 DEF TimeInv
    <3>2. (pos' - 1) * InvokeTime' = 0 /\ attempt' * CallTime = 0 /\ Slept(attempt') = 0
      BY <2>1, <3>1 DEF InvokeTime, MaxRetries, Slept
    <3> QED
      BY <2>1, <3>1, <3>2 DEF TimeInv, CutOnlyWhenSlow
  <2> QED
    BY <2>2, <2>4, <2>5
<1>5. CASE ChunkThrottled
  <2>1. pc = "chunks" /\ pc' = pc /\ pos' = pos /\ kept' = kept /\ kept = {}
    BY <1>5 DEF ChunkThrottled, AtChunk, LoopInv
  <2>2. /\ attempt' \in 0 .. MaxRetries - 1 /\ elapsed' \in 0 .. Timeout
        /\ elapsed' <= (pos - 1) * InvokeTime + attempt' * CallTime + Slept(attempt')
    BY <1>3, <1>5, <2>1, CallCosts DEF ChunkThrottled, TypeOK, TimeInv
  <2>3. TypeOK' /\ LoopInv' /\ KeptInv'
    BY <1>1, <2>1, <2>2 DEF TypeOK, LoopInv, KeptInv, OnePerKey
  <2>4. FoundInv' /\ SecretsFirst'
    BY <1>1, <1>2, <2>1 DEF FoundInv, FoundIs, SecretsFirst
  <2>5. TimeInv'
    BY <1>3, <2>1, <2>2 DEF TimeInv, CutOnlyWhenSlow
  <2> QED
    BY <2>3, <2>4, <2>5
<1>6. CASE ChunksEnd
  <2>1. /\ pc = "chunks" /\ pos' = 1 /\ attempt' = attempt /\ elapsed' = elapsed
        /\ \/ kind = "security" /\ pc' = "dedup" /\ kept' = {}
           \/ kind = "plain" /\ pc' = "done" /\ kept' = 1 .. Len(found)
    BY <1>1, <1>6 DEF ChunksEnd, GoOn, bedrockVars
  <2>2. TypeOK' /\ LoopInv' /\ KeptInv'
    BY <1>1, <2>1 DEF TypeOK, LoopInv, KeptInv, OnePerKey
  <2>3. FoundInv' /\ SecretsFirst'
    BY <1>1, <1>2, <2>1 DEF FoundInv, FoundIs, SecretsFirst
  <2>4. TimeInv'
    BY <2>1 DEF TimeInv, CutOnlyWhenSlow
  <2> QED
    BY <2>2, <2>3, <2>4
<1>7. CASE DedupEnd
  <2>1. /\ pc = "dedup" /\ pc' = "done" /\ kind = "security" /\ pos = Len(found) + 1
        /\ kept' = kept /\ pos' = 1 /\ attempt' = attempt /\ elapsed' = elapsed
    BY <1>1, <1>7 DEF DedupEnd, GoOn, bedrockVars, LoopInv, TypeOK
  <2>2. TypeOK' /\ LoopInv'
    BY <1>1, <2>1 DEF TypeOK, LoopInv
  <2>3. pos - 1 = Len(found)
    BY <1>1, <2>1
  <2>4. KeptInv'
    BY <1>1, <1>2, <2>1, <2>3 DEF KeptInv, OnePerKey
  <2>5. FoundInv' /\ SecretsFirst'
    BY <1>1, <1>2, <2>1 DEF FoundInv, FoundIs, SecretsFirst
  <2>6. TimeInv'
    BY <2>1 DEF TimeInv, CutOnlyWhenSlow
  <2> QED
    BY <2>2, <2>4, <2>5, <2>6
<1>8. CASE CutOff
  <2>1. /\ pc = "chunks" /\ pc' = "cut" /\ pos' = pos /\ kept' = kept /\ kept = {}
        /\ attempt' = attempt /\ elapsed' = elapsed
    BY <1>8 DEF CutOff, AtChunk, LoopInv, bedrockVars
  <2>2. pos * InvokeTime > Timeout
    BY <1>3, <1>8, <2>1, CallCosts DEF CutOff, TypeOK, TimeInv
  <2>3. TypeOK' /\ LoopInv' /\ KeptInv'
    BY <1>1, <2>1 DEF TypeOK, LoopInv, KeptInv, OnePerKey
  <2>4. FoundInv' /\ SecretsFirst'
    BY <1>1, <1>2, <2>1 DEF FoundInv, FoundIs, SecretsFirst
  <2>5. TimeInv'
    BY <1>3, <2>1, <2>2 DEF TimeInv, CutOnlyWhenSlow
  <2> QED
    BY <2>3, <2>4, <2>5
<1> QED
  BY <1>4, <1>5, <1>6, <1>7, <1>8

\* A finding whose key is new is kept, any other is dropped.
LEMMA DeduplicateStep ==
  ASSUME IInv, Deduplicate
  PROVE  IInv'
<1> USE AnalysisAssumption DEF IInv
<1>1. /\ pc = "dedup" /\ kind = "security" /\ pos \in 1 .. Len(found) /\ kept \subseteq 1 .. pos - 1
      /\ pc' = pc /\ pos' = pos + 1 /\ kind' = kind /\ diff' = diff /\ found' = found
      /\ answers' = answers /\ attempt' = attempt /\ elapsed' = elapsed
      /\ found \in Seq(Finding) /\ Len(found) \in Nat
  BY DEF Deduplicate, bedrockVars, TypeOK, LoopInv
<1>2. \/ kept' = kept /\ \E i \in kept : Key(found[i]) = Key(found[pos])
      \/ kept' = kept \cup {pos} /\ \A i \in kept : Key(found[i]) # Key(found[pos])
  BY DEF Deduplicate
<1>3. TypeOK' /\ LoopInv' /\ TimeInv'
  <2>1. kept' \subseteq 1 .. pos
    <3>1. 1 .. pos - 1 \subseteq 1 .. pos /\ pos \in 1 .. pos
      BY <1>1
    <3> QED
      BY <1>1, <1>2, <3>1, Zenon
  <2>2. TypeOK'
    BY <1>1, <2>1 DEF TypeOK
  <2>3. LoopInv'
    BY <1>1, <2>1 DEF LoopInv
  <2>4. TimeInv'
    BY <1>1 DEF TimeInv, CutOnlyWhenSlow
  <2> QED
    BY <2>2, <2>3, <2>4
<1>4. FoundInv' /\ SecretsFirst'
  <2>1. AllCounted' = AllCounted
    BY <1>1 DEF AllCounted
  <2>2. pc' # "scan" /\ pc # "scan"
    BY <1>1
  <2>3. FoundInv'
    BY <1>1, <2>1, <2>2 DEF FoundInv, FoundIs
  <2>4. SecretsFirst'
    BY <1>1, <2>2 DEF SecretsFirst
  <2> QED
    BY <2>3, <2>4
<1>5. KeptInv'
  <2>1. 1 .. pos' - 1 = (1 .. pos - 1) \cup {pos}
    BY <1>1
  <2>2. OnePerKey'
    BY <1>1, <1>2 DEF KeptInv, OnePerKey
  <2>3. \A i \in 1 .. pos - 1 :
          /\ \E j \in kept : Key(found[j]) = Key(found[i])
          /\ (\A j \in 1 .. i - 1 : Key(found[j]) # Key(found[i])) => i \in kept
    BY <1>1 DEF KeptInv
  <2>4. \A i \in 1 .. pos' - 1 : \E j \in kept' : Key(found[j]) = Key(found[i])
    BY <1>2, <2>1, <2>3
  <2>5. \A i \in 1 .. pos' - 1 :
          (\A j \in 1 .. i - 1 : Key(found[j]) # Key(found[i])) => i \in kept'
    BY <1>1, <1>2, <2>1, <2>3
  <2> QED
    BY <1>1, <2>2, <2>4, <2>5 DEF KeptInv
<1> QED
  BY <1>3, <1>4, <1>5

\* A chunk whose call is answered adds the findings before a malformed one.
LEMMA ChunkAnsweredStep ==
  ASSUME IInv, ChunkAnswered
  PROVE  IInv'
<1>1. PICK reply \in Replies : /\ \E n \in 0 .. Len(reply) :
                                    Usable(reply, n) /\ Extend(SubSeq(reply, 1, n))
                               /\ NextChunk(reply)
  BY DEF ChunkAnswered
<1>2. PICK n \in 0 .. Len(reply) : Usable(reply, n) /\ Extend(SubSeq(reply, 1, n))
  BY <1>1
<1> DEFINE list == SubSeq(reply, 1, n)
<1>3. reply \in Seq(Finding \cup {Malformed}) /\ kind \in {"security", "plain"}
  BY AnalysisAssumption DEF IInv, TypeOK
<1>4. /\ list \in Seq(Finding) /\ Len(list) = n /\ \A i \in 1 .. n : list[i] = reply[i]
      /\ {reply[i] : i \in 1 .. n} = Counts(kind, reply)
  BY <1>2, <1>3, UsableCounts
<1> HIDE DEF list
<1>5. {list[i] : i \in 1 .. Len(list)} = Counts(kind, reply)
  BY <1>4
<1> QED
  BY <1>1, <1>2, <1>3, <1>4, <1>5, ChunkStep DEF list, ChunkAnswered

\* A chunk that is lost adds nothing.
LEMMA ChunkFailedStep ==
  ASSUME IInv, ChunkFailed
  PROVE  IInv'
<1>1. kind \in {"security", "plain"} /\ found \in Seq(Finding)
  BY AnalysisAssumption DEF IInv, TypeOK
<1>2. PICK reply \in Seq(Finding \cup {Malformed}) :
        NextChunk(reply) /\ Counts(kind, reply) = {} /\ (Answered \/ Raised)
  <2>1. CASE Raised /\ NextChunk(<<Malformed>>)
    <3>1. <<Malformed>> \in Seq(Finding \cup {Malformed})
      OBVIOUS
    <3> QED
      BY <1>1, <2>1, <3>1, LostReply
  <2>2. CASE kind = "security" /\ Answered /\ \E reply \in Replies :
                (\E i \in 1 .. Len(reply) : reply[i] = Malformed) /\ NextChunk(reply)
    BY <1>1, <2>2, LostReply, AnalysisAssumption
  <2> QED
    BY <2>1, <2>2 DEF ChunkFailed
<1>3. Extend(<<>>)
  BY <1>1 DEF ChunkFailed, Extend
<1>4. <<>> \in Seq(Finding) /\ {(<<>>)[i] : i \in 1 .. Len(<<>>)} = {}
  OBVIOUS
<1> QED
  BY <1>2, <1>3, <1>4, ChunkStep DEF ChunkFailed

\* The invariant holds initially.
LEMMA InitIInv == Init => IInv
<1> SUFFICES ASSUME Init PROVE IInv
  OBVIOUS
<1> USE AnalysisAssumption, TimeAssumption DEF Init, BedrockInit
<1>1. TypeOK /\ LoopInv
  BY DEF TypeOK, LoopInv, MaxRetries
<1>2. diff \in Seq(SUBSET (1 .. 8))
  OBVIOUS
<1>3. /\ Secrets(kind, diff, 0) = {} /\ AllCounted = {}
      /\ pc = "chunks" => kind = "plain" /\ Secrets(kind, diff, Len(diff)) = {}
  <2>1. 0 \in 0 .. Len(diff)
    BY <1>2
  <2> QED
    BY <1>2, <2>1, SecretsOfLines DEF Secrets, AllCounted
<1>4. FoundInv /\ SecretsFirst
  BY <1>3 DEF FoundInv, FoundIs, SecretsFirst
<1>5. KeptInv
  BY DEF KeptInv, OnePerKey
<1>6. TimeInv
  <2>1. (pos - 1) * InvokeTime = 0 /\ attempt * CallTime = 0 /\ Slept(attempt) = 0
    BY DEF InvokeTime, MaxRetries, Slept
  <2> QED
    BY <2>1 DEF TimeInv, CutOnlyWhenSlow
<1> QED
  BY <1>1, <1>4, <1>5, <1>6 DEF IInv

\* Every step preserves the invariant.
LEMMA NextIInv == IInv /\ [Next]_vars => IInv'
<1> SUFFICES ASSUME IInv, [Next]_vars PROVE IInv'
  OBVIOUS
<1>1. CASE UNCHANGED vars
  <2> USE <1>1 DEF vars, bedrockVars, IInv
  <2>1. TypeOK' /\ LoopInv'
    BY DEF TypeOK, LoopInv
  <2>2. FoundInv'
    <3>1. AllCounted' = AllCounted
      BY DEF AllCounted
    <3> QED
      BY <3>1 DEF FoundInv, FoundIs
  <2>4. SecretsFirst'
    BY DEF SecretsFirst
  <2>5. KeptInv'
    BY DEF KeptInv, OnePerKey
  <2>3. TimeInv'
    BY DEF TimeInv, CutOnlyWhenSlow, InvokeTime
  <2> QED
    BY <2>1, <2>2, <2>3, <2>4, <2>5
<1> QED
  BY <1>1, ScanLineStep, BoundaryStep, ChunkAnsweredStep, ChunkFailedStep, DeduplicateStep
     DEF Next, Ended

\* The inductive invariant holds in every reachable state.
THEOREM AnalysisInvariant == Spec => []IInv
<1> QED
  BY InitIInv, NextIInv, PTL DEF Spec

\* A failing chunk costs its own findings only: what is reported is what the scan
\* and the replies that count found, up to the merging of one key.
THEOREM AnswersCount == Spec => []EveryAnswerCounts
<1>1. IInv => EveryAnswerCounts
  <2> SUFFICES ASSUME IInv, pc = "done"
               PROVE  /\ Reported \subseteq Secrets(kind, diff, Len(diff)) \cup AllCounted
                      /\ \A f \in AllCounted : \E g \in Reported :
                           /\ f.line = g.line /\ f.category = g.category
                           /\ kind = "plain" => f = g
    BY DEF EveryAnswerCounts
  <2>1. /\ {found[i] : i \in 1 .. Len(found)} = Secrets(kind, diff, Len(diff)) \cup AllCounted
        /\ kept \subseteq 1 .. Len(found)
    BY DEF IInv, FoundInv, FoundIs, TypeOK
  <2>2. Reported \subseteq Secrets(kind, diff, Len(diff)) \cup AllCounted
    BY <2>1 DEF Reported
  <2>3. ASSUME NEW f \in AllCounted
        PROVE  \E g \in Reported : /\ f.line = g.line /\ f.category = g.category
                                   /\ kind = "plain" => f = g
    <3>1. PICK i \in 1 .. Len(found) : found[i] = f
      BY <2>1
    <3>2. CASE kind = "plain"
      BY <3>1, <3>2 DEF IInv, KeptInv, Reported
    <3>3. CASE kind = "security"
      <4>1. PICK j \in kept : Key(found[j]) = Key(found[i])
        BY <3>1, <3>3 DEF IInv, KeptInv
      <4> QED
        BY <3>1, <3>3, <4>1 DEF Key, Reported
    <3> QED
      BY <3>2, <3>3, AnalysisAssumption DEF IInv, TypeOK
  <2> QED
    BY <2>2, <2>3
<1> QED
  BY <1>1, AnalysisInvariant, PTL

\* No remark of the model displaces a secret the scan found.
THEOREM ScanPrevails == Spec => []SecretsKept
<1>1. IInv => SecretsKept
  <2> SUFFICES ASSUME IInv, pc = "done", NEW f \in Secrets(kind, diff, Len(diff))
               PROVE  f \in Reported
    BY DEF SecretsKept
  <2>1. kind = "security"
    BY DEF Secrets
  <2>2. PICK i \in 1 .. Len(found) :
          found[i] = f /\ \A j \in 1 .. i - 1 : Key(found[j]) # Key(found[i])
    BY DEF IInv, SecretsFirst
  <2> QED
    BY <2>1, <2>2 DEF IInv, KeptInv, Reported
<1> QED
  BY <1>1, AnalysisInvariant, PTL

\* A diff with a critical secret always makes the security agent report a critical
\* finding.
THEOREM CriticalAlwaysFound == Spec => []SecretsAlwaysCritical
<1>1. IInv /\ SecretsKept => SecretsAlwaysCritical
  <2> SUFFICES ASSUME IInv, SecretsKept, pc = "done", kind = "security", HoldsCritical(diff)
               PROVE  \E f \in Reported : f.severity = "critical"
    BY DEF SecretsAlwaysCritical
  <2>0. PICK i \in 1 .. Len(diff) :
          \E p \in diff[i] : PatternSeverity[p] = "critical" /\ \A q \in diff[i] : p <= q
    BY DEF HoldsCritical
  <2>1. PICK p \in diff[i] : PatternSeverity[p] = "critical" /\ \A q \in diff[i] : p <= q
    BY <2>0
  <2> DEFINE f == [line |-> i, category |-> Secret, severity |-> PatternSeverity[p]]
  <2>2. f \in SecretAt(i, diff[i])
    BY <2>1 DEF SecretAt
  <2>3. f \in Secrets(kind, diff, Len(diff))
    BY <2>2 DEF Secrets
  <2> QED
    BY <2>1, <2>3 DEF SecretsKept
<1> QED
  BY <1>1, AnalysisInvariant, ScanPrevails, PTL

\* The security agent reports one finding per file, line and category.
THEOREM KeysReportedOnce == Spec => []OnePerKey
<1>1. IInv => OnePerKey
  BY DEF IInv, KeptInv
<1> QED
  BY <1>1, AnalysisInvariant, PTL

\* The Lambda's timeout cuts off at the k-th chunk only if k invokes can last so
\* long.
THEOREM CutLate == Spec => []CutOnlyWhenSlow
<1>1. IInv => CutOnlyWhenSlow
  BY DEF IInv, TimeInv
<1> QED
  BY <1>1, AnalysisInvariant, PTL
=============================================================================
