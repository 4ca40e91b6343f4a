---------------------------- MODULE GitHubClient ----------------------------
(***************************************************************************)
(* GitHubClient as its two users use it.  The parser's handler makes one   *)
(* per event, sets its installation_id and calls get_pr_files.  The        *)
(* summary's handler makes one when its module is imported; a warm Lambda  *)
(* keeps it, and the Github object with its token in it, from one          *)
(* invocation to the next, each of which calls post_review and then        *)
(* set_commit_status.  Every call is a few requests.                       *)
(***************************************************************************)
EXTENDS GithubRetry, Sequences

CONSTANTS
  Installations,        \* installation ids of the GitHub App
  SummaryInstallation,  \* installation_id of the summary's client; the code leaves it 0
  Life,                 \* life of an installation token: 3600
  Keep,                 \* how long _get_github keeps one: 3500
  ParserTimeout,        \* 120 in agents-stack.ts
  SummaryTimeout,       \* 60
  MaxTime,              \* bound: no invocation starts later
  Verdicts              \* verdicts of the summary agent

ASSUME TimingAssumption ==
  /\ {Life, Keep, MaxTime} \subseteq Nat
  /\ ParserTimeout \in 1 .. Life
  /\ SummaryTimeout \in Nat \ {0}
  /\ Keep + RequestTime + SummaryTimeout <= Life
  /\ "none" \notin Verdicts

VARIABLES
  fn,           \* the Lambda: "parser" or "summary"
  inst,         \* installation_id
  client,       \* _github and _token_expires_at; expires is GitHub's date
  at,           \* the position in Plan, 0 when no invocation runs
  owner,        \* the installation the event's repository belongs to
  verdict,      \* of the summary's invocation
  copies,       \* history: comments this invocation has created
  posted, state \* the comments on the pull request, the commit's status

callVars == <<fn, inst, client>>
eventVars == <<owner, verdict>>
boardVars == <<copies, posted, state>>
vars == <<retryVars, callVars, at, eventVars, boardVars>>

NoClient == [inst |-> 0, expires |-> 0, until |-> 0]

\* Mutant of Plan: the status is set before the comment is posted.
PlanStatusFirst ==
  [parser |-> <<"auth", "repo", "pull", "files">>,
   summary |-> <<"auth", "repo", "commit", "status", "auth", "repo", "pull", "comment">>]

\* The requests of an invocation; "auth" is _get_github.
Plan ==
  [parser |-> <<"auth", "repo", "pull", "files">>,
   summary |-> <<"auth", "repo", "pull", "comment", "auth", "repo", "commit", "status">>]

Timeout == IF fn = "parser" THEN ParserTimeout ELSE SummaryTimeout
Running == at \in 1 .. Len(Plan[fn])
Step == Plan[fn][at]
Requesting == Running /\ Step # "auth"

StatusOf(v) == IF v = "request_changes" THEN "failure" ELSE "success"

Init ==
  /\ now = 0 /\ deadline = 0 /\ left = Retries
  /\ fn \in {"parser", "summary"}
  /\ inst = IF fn = "summary" THEN SummaryInstallation ELSE 0
  /\ client = NoClient
  /\ at = 0
  /\ owner \in Installations /\ verdict \in Verdicts
  /\ copies = 0 /\ posted = {} /\ state = "none"

\* Lambda starts an invocation, at once or later.
Start ==
  /\ at = 0
  /\ at' = 1
  /\ now' \in now .. MaxTime
  /\ deadline' = now' + Timeout
  /\ left' = Retries /\ copies' = 0
  /\ owner' \in Installations
  /\ verdict' \in Verdicts
  /\ UNCHANGED <<fn, posted, state>>

\* Mutant of ParserStart: the client is made when the module is imported.
ParserStartImported ==
  /\ fn = "parser"
  /\ Start
  /\ inst' = owner'
  /\ UNCHANGED client

ParserStart ==
  /\ fn = "parser"
  /\ Start
  /\ inst' = owner'
  /\ client' = NoClient

SummaryStart ==
  /\ fn = "summary"
  /\ Start
  /\ UNCHANGED <<inst, client>>

Kept == client # NoClient /\ now < client.until

UseKept ==
  /\ Running /\ Step = "auth"
  /\ Kept
  /\ at' = at + 1
  /\ UNCHANGED <<retryVars, callVars, eventVars, boardVars>>

\* get_access_token, one attempt: GithubIntegration has no retry policy.  GitHub
\* dates the token before its answer arrives, _token_expires_at is set after.
GetToken ==
  /\ Running /\ Step = "auth"
  /\ ~Kept
  /\ inst \in Installations
  /\ Within(RequestTime)
  /\ \E issued \in now .. now' :
       client' = [inst |-> inst, expires |-> issued + Life, until |-> now' + Keep]
  /\ at' = at + 1
  /\ UNCHANGED <<deadline, left, fn, inst, eventVars, boardVars>>

CommentCreated ==
  /\ Step = "comment"
  /\ copies' = copies + 1
  /\ posted' = posted \cup {verdict}
  /\ UNCHANGED state

StatusCreated ==
  /\ Step = "status"
  /\ state' = StatusOf(verdict)
  /\ UNCHANGED <<copies, posted>>

\* The GETs of the repository, the pull request, its files and the commit.
OnlyRead == Step \notin {"comment", "status"} /\ UNCHANGED boardVars

\* What a request does at GitHub.
TakeEffect == CommentCreated \/ StatusCreated \/ OnlyRead

RequestAnswered ==
  /\ Requesting
  /\ Answered
  /\ TakeEffect
  /\ at' = at + 1
  /\ UNCHANGED <<callVars, eventVars>>

\* The attempt that failed may have reached GitHub all the same; POSTs are
\* retried like GETs.
RequestTriedAgain ==
  /\ Requesting
  /\ TryAgain
  /\ TakeEffect \/ UNCHANGED boardVars
  /\ UNCHANGED <<callVars, at, eventVars>>

RequestLimited ==
  /\ Requesting
  /\ WaitForRate
  /\ UNCHANGED <<callVars, at, eventVars, boardVars>>

\* The invocation ends with an exception or is cut off; the last attempt may
\* have reached GitHub.
Fail ==
  /\ at # 0
  /\ GiveUp
  /\ at' = 0
  /\ (Requesting /\ TakeEffect) \/ UNCHANGED boardVars
  /\ UNCHANGED <<callVars, eventVars>>

Return ==
  /\ at = Len(Plan[fn]) + 1
  /\ at' = 0
  /\ UNCHANGED <<retryVars, callVars, eventVars, boardVars>>

Rest == at = 0 /\ UNCHANGED vars

Next ==
  \/ ParserStart \/ SummaryStart
  \/ UseKept \/ GetToken
  \/ RequestAnswered \/ RequestTriedAgain \/ RequestLimited
  \/ Fail \/ Return \/ Rest

Spec == Init /\ [][Next]_vars

-----------------------------------------------------------------------------
(* Properties *)

Client == [inst : Installations \cup {0}, expires : Nat, until : Nat]

TypeOK ==
  /\ now \in Nat /\ deadline \in Nat /\ left \in 0 .. Retries
  /\ fn \in {"parser", "summary"}
  /\ inst \in Installations \cup {0, SummaryInstallation}
  /\ client \in Client
  /\ at \in 0 .. Len(Plan[fn]) + 1
  /\ owner \in Installations /\ verdict \in Verdicts
  /\ copies \in Nat
  /\ posted \subseteq Verdicts
  /\ state \in {"none", "success", "failure"}

\* No request is made with a token GitHub has let expire.  _get_github looks at
\* the date only when a call begins; the requests and retries of the call go on
\* until the deadline.  The 100 s between Keep and Life cover the summary's 60 s,
\* not the parser's 120 s: the parser owes it to its fresh client.
TokenAlive == Requesting => now < client.expires

\* The parser reads a repository with a token of the repository's installation,
\* though _get_github never compares installation_id with the client it keeps.
TokenOfInstallation == fn = "parser" /\ Requesting => client.inst = owner

\* However its requests are retried, an invocation leaves at most Retries + 1
\* copies of its comment, and one that is past the POST has left one.
CopiesBounded ==
  /\ copies <= Retries + 1
  /\ fn = "summary" /\ at > 4 => copies > 0

\* Retries, failures and repeated requests included, the pull request sees what
\* ReviewBoard allows: a status always belongs to a comment that is there.
Board == INSTANCE ReviewBoard WITH
  Outcomes <- Verdicts, StateOf <- StatusOf,
  posted <- posted, state <- state, announced <- {}

RequestsRefineBoard == Board!BoardSpec

-----------------------------------------------------------------------------
(* The inductive invariant behind them *)

\* An invocation lasts no longer than its timeout, and the kept token outlives
\* what is checked of it.
TimeInv ==
  /\ deadline <= now + Timeout
  /\ Running => now < deadline
  /\ client # NoClient => client.until <= client.expires - Life + RequestTime + Keep

\* The parser's client is new in every invocation; nothing is requested without one.
ClientInv ==
  /\ fn = "parser" /\ at # 0 => inst = owner
  /\ fn = "parser" /\ at = 1 => client = NoClient
  /\ Requesting =>
       /\ client # NoClient
       /\ fn = "parser" => client.inst = owner /\ deadline <= client.expires
       /\ fn = "summary" => deadline <= client.until + SummaryTimeout

PostInv ==
  /\ fn = "summary" /\ at > 4 => verdict \in posted /\ copies > 0
  /\ at \in 1 .. 3 => copies = 0
  /\ at = 4 => copies <= Retries - left
  /\ copies <= Retries + 1

IInv ==
  /\ TypeOK
  /\ TimeInv
  /\ ClientInv
  /\ PostInv
=============================================================================
