------------------------- MODULE GitHubClientProofs -------------------------
(***************************************************************************)
(* Proofs that GitHubClient keeps its safety properties, and implements    *)
(* ReviewBoard, for any retry limit, any timing its assumption admits and  *)
(* any number of invocations.                                              *)
(***************************************************************************)
EXTENDS GitHubClient, TLAPS

\* What the plans of the two functions ask for at each position.
LEMMA PlanAt ==
  ASSUME NEW f \in {"parser", "summary"}
  PROVE  /\ Len(Plan[f]) = IF f = "parser" THEN 4 ELSE 8
         /\ \A i \in 1 .. Len(Plan[f]) :
              /\ Plan[f][i] = "auth" <=> i = 1 \/ (f = "summary" /\ i = 5)
              /\ Plan[f][i] = "comment" <=> f = "summary" /\ i = 4
              /\ Plan[f][i] = "status" <=> f = "summary" /\ i = 8
<1>1. CASE f = "parser"
  <2>1. Plan[f] = <<"auth", "repo", "pull", "files">>
    BY <1>1 DEF Plan
  <2>2. Len(Plan[f]) = 4
    BY <2>1
  <2> QED
    BY <1>1, <2>1, <2>2
<1>2. CASE f = "summary"
  <2>1. Plan[f] = <<"auth", "repo", "pull", "comment", "auth", "repo", "commit", "status">>
    BY <1>2 DEF Plan
  <2>2. Len(Plan[f]) = 8
    BY <2>1
  <2> QED
    BY <1>2, <2>1, <2>2
<1> QED
  BY <1>1, <1>2

\* When a token is asked for, a comment posted, a status set.
LEMMA StepAt ==
  ASSUME TypeOK
  PROVE  /\ Running <=> at # 0 /\ at # Len(Plan[fn]) + 1
         /\ Running /\ Step = "auth" <=> at = 1 \/ (fn = "summary" /\ at = 5)
         /\ Requesting <=> Running /\ at # 1 /\ ~(fn = "summary" /\ at = 5)
         /\ Requesting => (Step = "comment" <=> fn = "summary" /\ at = 4)
         /\ Requesting => (Step = "status" <=> fn = "summary" /\ at = 8)
<1>1. fn \in {"parser", "summary"} /\ at \in 0 .. Len(Plan[fn]) + 1
  BY DEF TypeOK
<1>2. /\ Len(Plan[fn]) = IF fn = "parser" THEN 4 ELSE 8
      /\ \A i \in 1 .. Len(Plan[fn]) :
           /\ Plan[fn][i] = "auth" <=> i = 1 \/ (fn = "summary" /\ i = 5)
           /\ Plan[fn][i] = "comment" <=> fn = "summary" /\ i = 4
           /\ Plan[fn][i] = "status" <=> fn = "summary" /\ i = 8
  BY <1>1, PlanAt
<1> QED
  BY <1>1, <1>2 DEF Running, Requesting, Step

\* The invariant holds initially.
LEMMA InitIInv == Init => IInv
<1> SUFFICES ASSUME Init PROVE IInv
  OBVIOUS
<1> USE RetryAssumption, TimingAssumption DEF Init
<1>1. TypeOK
  <2>1. NoClient \in Client
    BY DEF NoClient, Client
  <2>2. 0 \in 0 .. Len(Plan[fn]) + 1
    BY PlanAt
  <2>3. left \in 0 .. Retries
    OBVIOUS
  <2>4. now \in Nat /\ deadline \in Nat /\ copies \in Nat
    OBVIOUS
  <2>5. inst \in Installations \cup {0, SummaryInstallation}
    OBVIOUS
  <2> QED
    BY <2>1, <2>2, <2>3, <2>4, <2>5 DEF TypeOK
<1>2. TimeInv /\ ClientInv /\ PostInv
  BY DEF TimeInv, ClientInv, PostInv, Running, Requesting, Timeout
<1> QED
  BY <1>1, <1>2 DEF IInv

\* An invocation starts, the parser's with a new client.
LEMMA StartStep ==
  ASSUME IInv, ParserStart \/ SummaryStart
  PROVE  IInv'
<1> USE RetryAssumption, TimingAssumption DEF IInv, Start
<1>1. /\ at' = 1 /\ now' \in Nat /\ deadline' = now' + Timeout /\ left' = Retries
      /\ copies' = 0 /\ owner' \in Installations /\ verdict' \in Verdicts
      /\ fn' = fn /\ posted' = posted /\ state' = state
      /\ \/ fn = "parser" /\ inst' = owner' /\ client' = NoClient
         \/ fn = "summary" /\ inst' = inst /\ client' = client
  BY DEF ParserStart, SummaryStart, TypeOK
<1>2. Timeout' = Timeout /\ Timeout \in Nat /\ Timeout > 0
  BY <1>1 DEF Timeout, TypeOK
<1>3. TypeOK'
  <2>1. NoClient \in Client
    BY DEF NoClient, Client
  <2>2. at' \in 0 .. Len(Plan[fn']) + 1
    BY <1>1, PlanAt DEF TypeOK
  <2>3. deadline' \in Nat
    <3>1. \A m, n \in Nat : m + n \in Nat
      OBVIOUS
    <3> QED
      BY <1>1, <1>2, <3>1, Zenon
  <2>4. left' \in 0 .. Retries
    BY <1>1
  <2> QED
    BY <1>1, <2>1, <2>2, <2>3, <2>4 DEF TypeOK
<1>4. ~Requesting'
  <2>1. fn \in {"parser", "summary"}
    BY DEF TypeOK
  <2>2. 1 \in 1 .. Len(Plan[fn]) => Plan[fn][1] = "auth"
    BY <2>1, PlanAt
  <2>3. Step' = Plan[fn][1] /\ Running' = (1 \in 1 .. Len(Plan[fn]))
    BY <1>1 DEF Step, Running
  <2> QED
    BY <2>2, <2>3 DEF Requesting
<1>5. TimeInv'
  <2>1. now' < deadline' /\ deadline' <= now' + Timeout'
    <3>1. \A m, n \in Nat : n > 0 => m < m + n /\ m + n <= m + n
      OBVIOUS
    <3> QED
      BY <1>1, <1>2, <3>1, Zenon
  <2>2. client' # NoClient => client' = client
    BY <1>1
  <2> QED
    BY <2>1, <2>2 DEF TimeInv
<1>6. ClientInv' /\ PostInv'
  BY <1>1, <1>4 DEF ClientInv, PostInv
<1> QED
  BY <1>3, <1>5, <1>6

\* Time passes within an invocation.
LEMMA TimePasses ==
  ASSUME TypeOK, TimeInv, fn' = fn, deadline' = deadline, now' \in Nat, now <= now'
  PROVE  Timeout' = Timeout /\ Timeout \in Nat /\ deadline' <= now' + Timeout'
<1> USE TimingAssumption
<1>1. Timeout' = Timeout /\ Timeout \in Nat
  BY RetryAssumption DEF Timeout, TypeOK
<1>2. now \in Nat /\ deadline \in Nat /\ deadline <= now + Timeout
  BY DEF TypeOK, TimeInv
<1>3. \A d, m, n, s \in Nat : d <= m + s /\ m <= n => d <= n + s
  OBVIOUS
<1> QED
  BY <1>1, <1>2, <1>3, Zenon

\* The client at hand is used, or a token of the client's installation is got.
LEMMA AuthStep ==
  ASSUME IInv, UseKept \/ GetToken
  PROVE  IInv'
<1> USE RetryAssumption, TimingAssumption DEF IInv
<1>1. /\ fn \in {"parser", "summary"} /\ at \in {1, 5} /\ (at = 5 => fn = "summary")
      /\ at' = at + 1 /\ at + 1 \in 0 .. Len(Plan[fn]) + 1 /\ at # Len(Plan[fn])
      /\ Running /\ now < deadline
      /\ UNCHANGED <<deadline, left, fn, inst, owner, verdict, copies, posted, state>>
      /\ now' \in Nat /\ now <= now' /\ now' < deadline
      /\ now \in Nat /\ deadline \in Nat
  <2>1. Running /\ Step = "auth" /\ fn \in {"parser", "summary"}
    BY DEF UseKept, GetToken, TypeOK
  <2>2. at = 1 \/ (fn = "summary" /\ at = 5)
    BY <2>1, StepAt
  <2>3. /\ at' = at + 1
        /\ UNCHANGED <<deadline, left, fn, inst, owner, verdict, copies, posted, state>>
        /\ (now' \in now .. now + RequestTime /\ now' < deadline) \/ now' = now
    BY DEF UseKept, GetToken, Within, retryVars, callVars, eventVars, boardVars
  <2>4. now < deadline /\ now \in Nat /\ deadline \in Nat
    BY <2>1 DEF TimeInv, TypeOK
  <2>5. at \in {1, 5} /\ (at = 5 => fn = "summary")
    BY <2>2
  <2>6. at + 1 \in 0 .. Len(Plan[fn]) + 1 /\ at # Len(Plan[fn])
    <3>1. Len(Plan[fn]) = IF fn = "parser" THEN 4 ELSE 8
      BY <2>1, PlanAt
    <3> QED
      BY <2>1, <2>5, <3>1
  <2>7. now' \in Nat /\ now <= now' /\ now' < deadline
    BY <2>3, <2>4
  <2> QED
    BY <2>1, <2>3, <2>4, <2>5, <2>6, <2>7
<1>2. Timeout' = Timeout /\ Timeout \in Nat /\ deadline' <= now' + Timeout'
  BY <1>1, TimePasses
<1>3. PostInv'
  <2>1. at' > 4 => at > 4
    BY <1>1
  <2>2. at' \in 1 .. 3 \cup {4} => at \in 1 .. 3 /\ at' # 4
    BY <1>1
  <2> QED
    BY <1>1, <2>1, <2>2 DEF PostInv
<1>4. CASE UseKept
  <2>1. client' = client /\ client # NoClient /\ now' = now /\ now < client.until
    BY <1>4 DEF UseKept, Kept, callVars, retryVars
  <2>2. fn = "summary"
    BY <1>1, <2>1 DEF ClientInv
  <2>3. TypeOK'
    BY <1>1, <2>1 DEF TypeOK
  <2>4. TimeInv'
    BY <1>1, <1>2, <2>1 DEF TimeInv
  <2>5. deadline <= client.until + SummaryTimeout
    <3>1. deadline <= now + SummaryTimeout /\ client.until \in Nat
      BY <2>1, <2>2 DEF TimeInv, Timeout, TypeOK, Client
    <3>2. \A d, n, s, u \in Nat : d <= n + s /\ n < u => d <= u + s
      OBVIOUS
    <3>3. SummaryTimeout \in Nat
      OBVIOUS
    <3> QED
      BY <1>1, <2>1, <3>1, <3>2, <3>3, Zenon
  <2>6. ClientInv'
    BY <1>1, <2>1, <2>2, <2>5 DEF ClientInv
  <2> QED
    BY <1>3, <2>3, <2>4, <2>6
<1>5. CASE GetToken
  <2>1. PICK issued \in now .. now' :
          client' = [inst |-> inst, expires |-> issued + Life, until |-> now' + Keep]
    BY <1>5 DEF GetToken
  <2>2. inst \in Installations /\ now' <= now + RequestTime
    BY <1>5 DEF GetToken, Within
  <2>3. /\ issued \in Nat /\ now <= issued /\ issued <= now'
        /\ Life \in Nat /\ Life > 0 /\ Keep \in Nat /\ SummaryTimeout \in Nat /\ ParserTimeout \in Nat
        /\ ParserTimeout <= Life
    BY <1>1, <2>1
  <2>12. client'.inst = inst /\ client'.expires = issued + Life /\ client'.until = now' + Keep
    BY <2>1
  <2>14. \A m, n \in Nat : m + n \in Nat /\ (n > 0 => m + n > 0)
    OBVIOUS
  <2>13. issued + Life \in Nat /\ issued + Life > 0 /\ now' + Keep \in Nat
    BY <1>1, <2>3, <2>14, Zenon
  <2>4. client' \in Client /\ client' # NoClient
    BY <2>1, <2>2, <2>13 DEF Client, NoClient
  <2>5. TypeOK'
    BY <1>1, <2>4 DEF TypeOK
  <2>6. client'.until <= client'.expires - Life + RequestTime + Keep
    <3>1. \A m, i, n, r, l, k \in Nat : n <= m + r /\ m <= i => n + k <= (i + l) - l + r + k
      OBVIOUS
    <3>2. RequestTime \in Nat
      OBVIOUS
    <3> QED
      <4>1. now' + Keep <= (issued + Life) - Life + RequestTime + Keep
        BY <1>1, <2>2, <2>3, <3>1, <3>2, Zenon
      <4> QED
        BY <2>12, <4>1
  <2>7. TimeInv'
    BY <1>1, <1>2, <2>6 DEF TimeInv
  <2>8. fn = "parser" => deadline <= client'.expires
    <3>1. fn = "parser" => deadline <= now + ParserTimeout
      BY DEF TimeInv, Timeout
    <3> QED
      BY <1>1, <2>1, <2>3, <3>1
  <2>9. fn = "summary" => deadline <= client'.until + SummaryTimeout
    <3>1. fn = "summary" => deadline <= now + SummaryTimeout
      BY DEF TimeInv, Timeout
    <3> QED
      <4>1. \A d, m, n, k, s \in Nat : d <= m + s /\ m <= n => d <= (n + k) + s
        OBVIOUS
      <4> QED
        BY <1>1, <2>3, <2>12, <3>1, <4>1, Zenon
  <2>10. fn = "parser" => inst = owner /\ client'.inst = owner
    BY <1>1, <2>1 DEF ClientInv
  <2>11. ClientInv'
    BY <1>1, <2>4, <2>8, <2>9, <2>10 DEF ClientInv
  <2> QED
    BY <1>3, <2>5, <2>7, <2>11
<1> QED
  BY <1>4, <1>5

\* A request is answered, tried again, or sleeps off a rate limit.
LEMMA RequestStep ==
  ASSUME IInv, RequestAnswered \/ RequestTriedAgain \/ RequestLimited
  PROVE  IInv'
<1> USE RetryAssumption, TimingAssumption DEF IInv
<1>1. /\ Requesting /\ Running /\ now < deadline
      /\ at # 0 /\ at # 1 /\ at # Len(Plan[fn]) + 1 /\ ~(fn = "summary" /\ at = 5)
      /\ UNCHANGED <<fn, inst, client, owner, verdict, deadline>>
      /\ at' \in {at, at + 1} /\ at \in 0 .. Len(Plan[fn]) + 1
      /\ fn \in {"parser", "summary"} /\ Len(Plan[fn]) = (IF fn = "parser" THEN 4 ELSE 8)
  <2>1. Requesting
    BY DEF RequestAnswered, RequestTriedAgain, RequestLimited
  <2>2. Running /\ now < deadline
    BY <2>1 DEF Requesting, TimeInv
  <2>3. fn \in {"parser", "summary"} /\ at \in 0 .. Len(Plan[fn]) + 1
    BY DEF TypeOK
  <2>4. /\ UNCHANGED <<fn, inst, client, owner, verdict, deadline>>
        /\ at' \in {at, at + 1}
    BY DEF RequestAnswered, RequestTriedAgain, RequestLimited, callVars, eventVars,
           Answered, TryAgain, WaitForRate
  <2> QED
    BY <2>1, <2>2, <2>3, <2>4, StepAt, PlanAt
<1>2. now' \in Nat /\ now <= now' /\ now' < deadline /\ now \in Nat /\ deadline \in Nat
  BY DEF RequestAnswered, RequestTriedAgain, RequestLimited, Answered, TryAgain, WaitForRate,
         Within, TypeOK
<1>3. Timeout' = Timeout /\ Timeout \in Nat /\ deadline' <= now' + Timeout'
  BY <1>1, <1>2, TimePasses
<1>4. /\ posted \subseteq posted' /\ posted' \subseteq Verdicts /\ state' \in {"none", "success", "failure"}
      /\ copies' \in Nat
      /\ ~(fn = "summary" /\ at = 4) => copies' = copies
      /\ copies' \in {copies, copies + 1}
  <2>1. TakeEffect \/ UNCHANGED boardVars
    BY DEF RequestAnswered, RequestTriedAgain, RequestLimited
  <2>2. Step = "comment" <=> fn = "summary" /\ at = 4
    BY <1>1, StepAt
  <2> QED
    BY <2>1, <2>2 DEF TakeEffect, CommentCreated, StatusCreated, OnlyRead, boardVars, TypeOK, StatusOf
<1>5. /\ left' \in 0 .. Retries
      /\ at' = at + 1 => left' = Retries
      /\ at' = at => left' = left - 1
      /\ left \in 0 .. Retries
  <2>1. left \in 0 .. Retries /\ at # at + 1
    BY <1>1, PlanAt DEF TypeOK
  <2>2. CASE RequestAnswered
    BY <2>1, <2>2 DEF RequestAnswered, Answered
  <2>3. CASE RequestTriedAgain
    BY <2>1, <2>3 DEF RequestTriedAgain, TryAgain
  <2>4. CASE RequestLimited
    BY <2>1, <2>4 DEF RequestLimited, WaitForRate
  <2> QED
    BY <2>2, <2>3, <2>4
<1>6. TypeOK'
  BY <1>1, <1>2, <1>4, <1>5 DEF TypeOK
<1>7. TimeInv'
  BY <1>1, <1>2, <1>3 DEF TimeInv
<1>8. ClientInv'
  BY <1>1 DEF ClientInv
<1>9. PostInv'
  <2>1. CASE at' = at + 1 /\ at = 4 /\ fn = "summary"
    <3>1. TakeEffect /\ Step = "comment"
      BY <1>1, <2>1, StepAt DEF RequestAnswered, RequestTriedAgain, RequestLimited
    <3>2. verdict \in posted' /\ copies' = copies + 1
      BY <3>1 DEF TakeEffect, CommentCreated, StatusCreated, OnlyRead, boardVars
    <3> QED
      BY <1>1, <1>4, <1>5, <2>1, <3>2 DEF PostInv, TypeOK
  <2>2. CASE at' = at /\ at = 4
    BY <1>1, <1>4, <1>5, <2>2 DEF PostInv, TypeOK
  <2>3. CASE ~(at = 4 /\ fn = "summary") /\ ~(at' = at /\ at = 4)
    <3>1. at \in Nat /\ at > 0 /\ copies' = copies /\ copies <= Retries + 1
      BY <1>1, <1>4, <2>3 DEF PostInv
    <3>2. fn = "summary" /\ at' > 4 => verdict \in posted' /\ copies' > 0
      <4>1. at' > 4 => at > 4 \/ at = 4
        BY <1>1, <3>1
      <4> QED
        BY <1>1, <1>4, <2>3, <3>1, <4>1 DEF PostInv
    <3>3. at' \in 1 .. 3 => copies' = 0
      <4>1. at' \in 1 .. 3 => at \in 1 .. 3
        BY <1>1, <3>1
      <4> QED
        BY <3>1, <4>1 DEF PostInv
    <3>4. at' = 4 => copies' <= Retries - left'
      <4>1. at' = 4 => at = 3 /\ left' = Retries
        BY <1>1, <1>5, <2>3, <3>1
      <4>2. at = 3 => copies = 0
        BY DEF PostInv
      <4> QED
        BY <3>1, <4>1, <4>2
    <3> QED
      BY <1>1, <3>1, <3>2, <3>3, <3>4 DEF PostInv
  <2> QED
    BY <1>1, <2>1, <2>2, <2>3
<1> QED
  BY <1>6, <1>7, <1>8, <1>9

\* The invocation ends; a failed attempt may still have been effective.
LEMMA EndStep ==
  ASSUME IInv, Fail \/ Return
  PROVE  IInv'
<1> USE RetryAssumption, TimingAssumption DEF IInv
<1>1. /\ at' = 0 /\ UNCHANGED <<fn, inst, client, owner, verdict, deadline, left>>
      /\ now' \in Nat /\ now <= now'
      /\ fn \in {"parser", "summary"}
  BY DEF Fail, Return, GiveUp, retryVars, callVars, eventVars, TypeOK
<1>2. posted' \subseteq Verdicts /\ state' \in {"none", "success", "failure"}
      /\ copies' \in Nat /\ copies' <= Retries + 1
  <2>1. CASE UNCHANGED boardVars
    BY <2>1 DEF boardVars, TypeOK, PostInv
  <2>2. CASE Requesting /\ TakeEffect
    <3>1. Step = "comment" <=> fn = "summary" /\ at = 4
      BY <2>2, StepAt
    <3>2. copies' = IF fn = "summary" /\ at = 4 THEN copies + 1 ELSE copies
      BY <2>2, <3>1 DEF TakeEffect, CommentCreated, StatusCreated, OnlyRead, boardVars
    <3>3. copies' \in Nat /\ copies' <= Retries + 1
      BY <3>2 DEF TypeOK, PostInv
    <3> QED
      BY <2>2, <3>3 DEF TakeEffect, CommentCreated, StatusCreated, OnlyRead, boardVars, TypeOK, StatusOf
  <2> QED
    BY <2>1, <2>2 DEF Fail, Return
<1>3. Timeout' = Timeout /\ deadline' <= now' + Timeout'
  BY <1>1, TimePasses
<1>4. TypeOK'
  BY <1>1, <1>2, PlanAt DEF TypeOK
<1>5. ~Running' /\ ~Requesting'
  BY <1>1 DEF Running, Requesting
<1>6. TimeInv'
  BY <1>1, <1>3, <1>5 DEF TimeInv
<1>7. ClientInv' /\ PostInv'
  BY <1>1, <1>2, <1>5 DEF ClientInv, PostInv
<1> QED
  BY <1>4, <1>6, <1>7

\* Every step preserves the invariant.
LEMMA NextIInv == IInv /\ [Next]_vars => IInv'
<1> SUFFICES ASSUME IInv, [Next]_vars PROVE IInv'
  OBVIOUS
<1>1. CASE UNCHANGED vars
  <2> USE <1>1 DEF vars, retryVars, callVars, eventVars, boardVars, IInv
  <2>1. TypeOK'
    BY DEF TypeOK
  <2>2. TimeInv' /\ ClientInv'
    BY DEF TimeInv, ClientInv, Running, Requesting, Step, Timeout
  <2>3. PostInv'
    BY DEF PostInv
  <2> QED
    BY <2>1, <2>2, <2>3
<1> QED
  BY <1>1, StartStep, AuthStep, RequestStep, EndStep DEF Next, Rest

\* The inductive invariant holds in every reachable state.
THEOREM ClientInvariant == Spec => []IInv
<1> QED
  BY InitIInv, NextIInv, PTL DEF Spec

\* No request is made with an expired token: the summary's kept client is young
\* enough for a whole invocation, the parser's is made in it.
THEOREM TokensAlive == Spec => []TokenAlive
<1>1. IInv => TokenAlive
  <2> SUFFICES ASSUME IInv, Requesting PROVE now < client.expires
    BY DEF TokenAlive
  <2>1. /\ now < deadline /\ now \in Nat /\ deadline \in Nat
        /\ client # NoClient /\ client.until \in Nat /\ client.expires \in Nat
        /\ client.until <= client.expires - Life + RequestTime + Keep
    BY DEF IInv, Requesting, TimeInv, ClientInv, TypeOK, Client
  <2>2. CASE fn = "parser"
    BY <2>1, <2>2 DEF IInv, ClientInv
  <2>3. CASE fn = "summary"
    <3>1. deadline <= client.until + SummaryTimeout
      BY <2>3 DEF IInv, ClientInv
    <3>2. /\ RequestTime \in Nat /\ Life \in Nat /\ Keep \in Nat /\ SummaryTimeout \in Nat
          /\ Keep + RequestTime + SummaryTimeout <= Life
      BY RetryAssumption, TimingAssumption
    <3>3. \A n, d, u, e, l, r, k, s \in Nat :
            n < d /\ d <= u + s /\ u <= e - l + r + k /\ k + r + s <= l => n < e
      OBVIOUS
    <3> QED
      BY <2>1, <3>1, <3>2, <3>3, Zenon
  <2> QED
    BY <2>2, <2>3 DEF IInv, TypeOK
<1> QED
  BY <1>1, ClientInvariant, PTL

\* The parser's requests carry a token of the installation of the repository.
THEOREM TokensOfInstallation == Spec => []TokenOfInstallation
<1>1. IInv => TokenOfInstallation
  BY DEF IInv, ClientInv, TokenOfInstallation
<1> QED
  BY <1>1, ClientInvariant, PTL

\* Retried POSTs leave at most Retries + 1 copies of a comment.
THEOREM CopiesAreBounded == Spec => []CopiesBounded
<1>1. IInv => CopiesBounded
  BY DEF IInv, PostInv, CopiesBounded
<1> QED
  BY <1>1, ClientInvariant, PTL

\* Whatever is retried or fails, the pull request sees what ReviewBoard allows.
THEOREM Refinement == Spec => RequestsRefineBoard
<1>1. Init => Board!BoardInit
  BY DEF Init, Board!BoardInit
<1>2. IInv /\ [Next]_vars => [Board!BoardNext]_Board!boardState
  <2> SUFFICES ASSUME IInv, [Next]_vars PROVE [Board!BoardNext]_Board!boardState
    OBVIOUS
  <2>1. CASE UNCHANGED <<posted, state>>
    BY <2>1 DEF Board!boardState
  <2>2. CASE Requesting /\ TakeEffect
    <3>1. CASE fn = "summary" /\ at = 4
      <4>1. posted' = posted \cup {verdict} /\ state' = state /\ verdict \in Verdicts
        BY <2>2, <3>1, StepAt DEF TakeEffect, CommentCreated, StatusCreated, OnlyRead, boardVars, IInv, TypeOK
      <4> QED
        BY <4>1 DEF Board!BoardNext, Board!Post
    <3>2. CASE fn = "summary" /\ at = 8
      <4>1. state' = StatusOf(verdict) /\ posted' = posted /\ verdict \in posted
        BY <2>2, <3>2, StepAt DEF TakeEffect, CommentCreated, StatusCreated, OnlyRead, boardVars, IInv, PostInv
      <4> QED
        BY <4>1 DEF Board!BoardNext, Board!Mark
    <3>3. CASE ~(fn = "summary" /\ at = 4) /\ ~(fn = "summary" /\ at = 8)
      BY <2>2, <3>3, StepAt DEF TakeEffect, CommentCreated, StatusCreated, OnlyRead, boardVars, IInv, Board!boardState
    <3> QED
      BY <3>1, <3>2, <3>3
  <2> QED
    BY <2>1, <2>2 DEF Next, ParserStart, SummaryStart, Start, UseKept, GetToken, RequestAnswered,
       RequestTriedAgain, RequestLimited, Fail, Return, Rest, vars, boardVars
<1> QED
  BY <1>1, <1>2, ClientInvariant, PTL DEF Spec, RequestsRefineBoard, Board!BoardSpec
=============================================================================
