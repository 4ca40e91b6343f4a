# Argus in TLA+

Argus reviews pull requests with a chain of AWS Lambdas joined by SNS topics,
SQS queues and one DynamoDB table. This directory holds TLA+ models of that
chain, the TLC configurations that check them on small instances, and TLAPS
proofs of their main safety properties for every value of the constants.
`PROJECT.json` maps every definition to the source lines it models.

## The system

| part | source | state it keeps | operations |
|---|---|---|---|
| Webhook handler | `agents/webhook/handler.py` | none | verify and filter a webhook, publish to pr.webhook, answer 200, 400, 401 or 500 |
| Parser agent | `agents/parser/` | none between events | receive, fetch the files page by page, chunk, write META, publish to pr.parsed |
| Review agents (security, performance, style, test) | `agents/<name>/` | none between events | receive, analyse chunk by chunk with Bedrock (security scans with regular expressions first), write FINDING# items, publish to review.findings |
| Summary agent | `agents/summary/` | none between events | receive, poll the table, deduplicate, rank, post a comment, set the commit status, publish to review.complete |
| LTM writer | `agents/ltm_writer/` | none between events | receive a completion event, write LEARNING# |
| Bedrock client | `agents/shared/bedrock_client.py` | none | converse with retries |
| GitHub client | `agents/shared/github_client.py` | cached client and token expiry | token, files, comment, status |
| Transport, models, config | `agents/shared/` | none | publish, get_transport, event classes |
| Table, queues, functions, API | `lib/stacks/*.ts` | items, messages | receive limits, dead-letter queues, subscriptions, environment |
| Dashboard | `dashboard/` | UI state | scans of the table and of metrics |
| Manual trigger | `trigger.py` | none | publish one payload |

The parts share only the table, the queues and the pull request. GitHub calls
the webhook; pr.webhook feeds the parse queue; pr.parsed fans out to four agent
queues; review.findings feeds the summary queue; review.complete feeds the learn
queue. Lambda invokes a function with one message (batchSize 1); a handler that
returns acknowledges it, one that raises or is cut off does not, and after
`maxReceiveCount` receives the message goes to a dead-letter queue.

What is hard here: every findings event starts a summary invocation of its own,
so invocations of one review overlap with each other and with agents that still
write; deliveries are repeated from the start after a failure between any two
calls; requests to GitHub are themselves repeated, POSTs included; queries of
the table are eventually consistent; an agent without findings leaves no trace
in the table; the pull request may change while its files are read, and several
reviews set the status of one pull request; sleeps and retries share the time
Lambda gives an invocation; the dashboard's fetches overlap. What makes each
part correct:

* parser: the review is not made of files older than its commit, the final
  commit is reviewed, chunks partition the files within the limit;
* agents: a chunk that fails costs its own findings only, what was published is
  in the table unless a write failed, retries leave the table in a state a
  review still shows;
* summary agent: the last state of the table reaches the pull request, what is
  posted, the status and the completion event agree, polling ends, no finding
  that matters to the verdict is lost by deduplication;
* GitHub client: no request has an expired token or another installation's,
  repeated requests leave the pull request in a state the summary meant;
* LTM writer: what is learned was posted, no completion event is dropped;
* queues: every event is acknowledged or dead-lettered;
* dashboard: the findings shown belong to the review in the heading, the page
  leaves its spinner.

The hazards this list is drawn from are in `PROJECT.json`, each at its line.

## Modules

| module | models |
|---|---|
| `SqsQueue` | one message on a queue: receives, deletion, redrive |
| `ReviewStore` | the FINDING# items of one review, a replica that may lag, the summary queue |
| `ReviewAgent` | an agent's Lambda on one ParsedPREvent |
| `Summary` | a summary invocation per findings event |
| `ArgusReview` | the composition of agents and summary invocations, its properties and inductive invariant |
| `ReviewBoard` | abstract: what the pull request and subscribers may see of a review |
| `SummaryDedup` | `_deduplicate`, `_rank_findings` and the verdict |
| `ChunkFiles` | `_chunk_files` |
| `Ingest` | webhooks, parse queue, parser, META items, published reviews |
| `ReviewFeed` | abstract: the reviews webhook and parser publish of a moving pull request |
| `BedrockClient` | `invoke`: attempts, sleeps, the Lambda's remaining time |
| `AgentAnalysis` | `process` of an agent: scan for secrets, chunk loop, parsing of replies, `_deduplicate`; extends `BedrockClient` |
| `GithubRetry` | one PyGithub request under its default retry policy |
| `GitHubClient` | the invocations of the parser or of a warm summary through `GitHubClient`, token cache included; extends `GithubRetry` |
| `LtmWriter` | the learn queue and the LEARNING# items |
| `ArgusPipeline` | all reviews of one pull request: `ReviewFeed`, the summary's runs, `LtmWriter` |
| `Dashboard` | the page of `App.jsx` over its API |
| `MC*` | values of constants for TLC |
| `*Proofs` | theorems and proofs of the module they are named after |

How the modules fit together: `ArgusReview` composes `ReviewAgent` and `Summary`
over `ReviewStore` and `SqsQueue` for one review, and implements `ReviewBoard`;
so does `GitHubClient` for what the requests of the summary's invocations do.
`Ingest` implements `ReviewFeed`. `ArgusPipeline` starts where these two
promises meet: reviews come as `ReviewFeed` allows, and each run of the summary
makes its three calls in the order of `ReviewBoard` with some verdict, so that
reviews of different commits and the LTM writer can be checked together without
the agents. `AgentAnalysis` says which finding lists `Results` in `ReviewAgent`
stands for.

How state corresponds to code:

* `agentQ`, `summaryQ`, `parseQ` are messages on SQS queues (`Delivery`: place
  and receive count). Release and redrive follow `messaging-stack.ts`. Every
  visibility timeout exceeds the function's own timeout, so one message has one
  invocation at a time.
* `agentPc`, `sumPc`, `parsePc` say where the handler of an invocation is. Each
  action is the code between two calls to the outside (a put_item, a query, a
  publication, a GitHub request), since that is where others interleave and
  where an invocation can fail. The `...Fail` action of a handler is possible
  at every such point: a call that raised, an event that did not validate, or
  Lambda's timeout. A call that took effect though its answer was lost is the
  call followed by the failure.
* `items[a][i]` is the item `FINDING#<a>#<i-1>`: a second run overwrites the
  first by index and leaves what lies beyond. A finding is its severity here.
  What its file and line do is the subject of `SummaryDedup`, whose
  `VerdictUnchanged` licenses the severity-only verdict in `Summary`.
* `Results[a]` is the set of finding lists a run may end with. Model calls that
  raise and replies that do not parse only make the list shorter, so a result
  set stands for them; `AgentAnalysis` says which lists these are.
* `seen`, `polls` are the locals of `_wait_and_fetch_findings`. `PollTimesOut`
  may follow any poll because queries take time; `MaxPolls` bounds the polls.
* `comments`, `status`, `completions` are what the outside sees; `posts` is a
  history variable that counts the comments made for a findings event. PyGithub
  repeats a POST whose answer is lost or has a status of 500 (`GithubRetry.py:85`,
  ten retries), so one `PostReview` leaves up to `PostCopies` of them; how often a
  request is repeated is the subject of `GitHubClient`, whose `CopiesBounded` says
  that `PostCopies` is at most Retries + 1.
* In `Ingest` a commit is its number and a page of files is the commit it was
  read at. A review_id is the pair of event and receive, as a fresh uuid is
  drawn per receive. `unlisted` is a history variable.
* `SummaryDedup` and `ChunkFiles` are the two loops as state machines, one turn
  per action, over every input; a list kept in input order is the set or the
  range of its positions.
* In `AgentAnalysis` `found` is `all_findings`, `kept` the positions that are
  reported, `answers` a history of the replies. A finding is its line (for file
  and line), category and severity; a line of the diff is the set of patterns of
  SECRET_PATTERNS it matches. A reply is its list of findings, `Malformed` where
  `Finding(...)` raises: the security agent then raises out of the parsing, as
  its except clause names other exceptions, and the chunk is lost; the other
  three (one text in three files, "plain" here) return what came before.
  `elapsed` and `attempt` are the time used and the throttled attempts of the
  running `invoke`.
* In `GitHubClient` `at` is the position in `Plan`, the requests of an
  invocation ("auth" is `_get_github`); `client` is `_github` with
  `_token_expires_at` (`until`) and GitHub's own date (`expires`). `left` is the
  `total` of the request's `Retry`. A failed attempt may have reached GitHub, so
  a POST that is repeated may leave two comments. `WaitForRate` is a secondary rate
  limit whose answer has no Retry-After header, which costs `RateWait`; with the
  header the sleep is the header's, shorter or longer, and the attempt is a
  `TryAgain`, which may take any time. `inst` of the summary is a
  constant: the code makes its client with 0 and never sets it, with which no
  token can be had; the run uses the installation the code intends. `deadline`
  is Lambda's timeout.
* In `ArgusPipeline` `runs` are invocations of the summary, `marks` the statuses
  of the commits, `learning` the LEARNING# items. The receive of an event after
  a failed invocation is a run of its own.
* In `SummaryDedup` a finding is its line, its category and its severity; the loop
  reads the first and the last only.
* In `Dashboard` `answers` are the locals of a `Promise.all`, `pending` the fetches
  of findings. A part's answer is data or a blank: the scans have no
  ConsistentRead, so how old the data is cannot be said, and the API answers its
  own exceptions with zeros or empty lists. The findings that arrive are any part
  of the review's. `overlapped` is a history variable: the last click was made
  while an earlier fetch was open.

## Runs

| run | instance | shows |
|---|---|---|
| `AgentRetry` | one agent and its findings events received up to twice, up to 2 findings, two polls, up to 3 copies of a comment per post | the inductive invariant (through it: the final table is posted); a critical finding of every run is reported; comments bounded by receives and copies, and one at least per acknowledged event; every step on an event is progress within fixed bounds |
| `StaleReads` | two agents, two receives per summary event, lagging replica, failing writes | refinement of `ReviewBoard`; an acknowledged agent's event has posted, waits or is dead |
| `Settling` | two agents, one possibly without findings, two receives per summary event | the final table is posted, every event settles, an acknowledged agent is answered |
| `Ingest` | two webhooks, two pages, two receives | files never older than the commit; the last commit reviewed; META before review; accepted events published or dead-lettered; every parser step is progress; refinement of `ReviewFeed` |
| `Dedup` | lists of up to 4 findings of 2 categories on 2 lines | a line with a critical finding shows one; verdict unchanged |
| `Chunks` | up to 5 files of 0 to `MaxLines` + 1 = 4 lines | partition, bound, greediness, totals |
| `Analysis` | security and plain agent, 4 diffs, 6 replies, 2 chunks, calls of up to 2 s within 20 s | failed chunks cost their own findings; secrets keep their severity, a critical one is always reported; cut off only when slow; the inductive invariant (through it: keys reported once) |
| `GitHub` | parser or summary, 2 installations, 2 retries, tokens of 8 s kept 5 s, timeouts of 4 and 2 s, starts up to second 7 | tokens alive and of the right installation; copies bounded; refinement of `ReviewBoard` |
| `Pipeline` | 2 commits, 2 pages, 2 reviews, 2 runs, 2 receives of a completion event | status of the latest commit from its files; learned verdicts posted; completion events learned or dead |
| `Dashboard` | 2 refreshes, 3 clicks, 3 reviews, any answers | panel of the selected review unless fetches overlap, spinner ends |
| `DocStatus` | violated | success described as "no critical issues" |
| `DocOverlap` | violated | the key and the resolution of overlaps the comments of `_deduplicate` state |

Why the bounds suffice. Two agents and two summary events are what it takes for
one invocation to poll before another agent has written and to finish after the
other's; two receives are what it takes for a retry; two findings let a shorter second
run leave an item of the first behind. `PostCopies` is 3 where copies are counted
and 1 elsewhere, as copies of one comment show the same table. Findings
events are per delivery, so retries of agents and of summaries multiply; the
runs bound one while the other varies, and the theorems below cover the product.
`StaleReads` treats agents as a symmetric set: its constants do not tell them
apart and it checks no liveness. Two webhooks are an older and a newer commit,
two pages let a push fall between pages. `Chunks` includes files of no lines,
exactly full chunks and files longer than a chunk. PollTimeout and PollInterval
are kept in the ratio that makes one or two polls fit; more polls only repeat
the same choice. In `Analysis` two chunks are one that fails and one that does
not, in both orders, and the 20 s are less than two slowest invokes (2 times 13),
so that the cut-off happens. In `GitHub` the times keep the order of the real
ones (the parser's timeout exceeds Life - Keep, RateWait is the summary's
timeout, invocations start beyond a token's `until`), and three attempts make
a repeated POST, a lost answer and the last failure. In `Pipeline` two commits, reviews
and runs are a review of mixed files beside one of the head, and two completion
events that may overwrite one item. `Dashboard` needs two refreshes to overlap
and a third click to return to a review; it stops when the bounds are used up,
which is why its deadlock check is off.

Fairness. `FairSpec` has weak fairness on the steps of every invocation and on
the receipt of visible messages: Lambda's event source mapping polls its queues
and runs what it started, and SQS returns what was not acknowledged. A failure
is never fair, nor is a push, a webhook or the replica's catching up. In
`Dashboard` a refresh is started (the effect of the mounted page) and fetches
end, answered or rejected, in some order. The liveness properties of the queues
hold because receives are bounded, not because failures end.

What the violations mean. The status is that of the invocation that sets it
last, not of the one that saw most, so it can end as success over a critical
finding in the table. `DocOverlap`: `summary/agent.py:164` names file, line and
category as what makes a finding unique, while the key is file and line; line 172
says the higher severity is kept, while only a critical finding ever replaces
another. `OverlapAsCommented` is the weakest reading, that at least one of the two
holds; the trace has an info of one category kept and a warning of another, on the
same line, dropped, and so refutes both. What does hold is in `Dedup`.

Further places where code and text or two parts of the code disagree, read off
the source and not checked here:

* the README speaks of a single comment (line 5); there is one per findings
  event, as `summary/handler.py:79` notes itself;
* `agents-stack.ts:225` gives the summary function no `INPUT_QUEUE_URL`, though
  `get_transport()` refuses to run without it while the module is imported, so
  that, as deployed, every findings event is dead-lettered and the comment the
  README (line 19) promises is never posted. `SummaryInitError` is that step and
  the theorems hold with it; the runs set `QueueUrlSet = TRUE`, as the handler's
  code intends;
* the summary function's GitHub client never gets an installation id;
* `summary/agent.py` imports jinja2, which is not among the packed libraries;
* the payload of `trigger.py` is GitHub's own, not the `PRWebhookEvent` the
  parser validates, so it is dead-lettered;
* the API reads `files_analyzed` or `total_files` of a META item, the parser
  writes another name; the status of a review stays `parsing_complete`;
* "recent reviews" are those among the first 50 items a scan meets;
* `get_pr_diff`, which nothing calls, reads a private attribute PyGithub no
  longer has;
* the lines of secrets are counted in the patch, not in the file.

## Proofs

* `ArgusReviewProofs`: `CoreInv` is inductive; from it `TypeOK`,
  `CopiesPerReceive`, `CompleteAtQuiescence`, `CriticalReported`, and the
  refinement of `ReviewBoard`. The argument for `CompleteAtQuiescence` is
  `CoverInv`: once every agent has published after its last write, either a
  review with the present table is posted, or some findings event is still
  *pending*: visible, about to query, or already holding a query that equals the
  table. The last agent to publish creates such an event, and it stays pending
  until it posts; a failed invocation makes it visible again or dead. That
  needs `PublishOnceInv` (a new publication meets an absent message),
  `SummaryQueueInv` and `PostsInv` (a receive leaves at most `PostCopies`
  comments, an acknowledged event at least one).
  `CriticalReported` adds `WrittenInv`: at publication the items of a run are in
  the table, so what every run finds stays there over retries.
  `IInv` adds what the liveness properties rest on. `HandedOnInv` (the receive
  that is acknowledged has published) with `PostsInv` gives `AnsweredUnlessDead`.
  `PollsInv` (a poll is begun only within the timeout) bounds the stages of a
  receive, and each action moves the pair of receive and stage upwards, one lemma
  for the agents' actions, one for the summary's, one for the rest: that is
  `NoEventRunsForever`.
* `IngestProofs`: `CoreInv` bounds every page read between the webhook's commit
  and the head (`PagesInv`), whence `NeverOlder`; the push that made the head has
  a relevant webhook (`HookInv`), whose acknowledged event has a review whose
  pages lie between head and head, whence `LatestReviewed`. `FreshInv` (a receive's
  review_id is new), `CommitInv` and `PagesInv` give the refinement of
  `ReviewFeed`. `AcceptedInv` (200 is answered once the event is queued) with
  `ReviewInv` gives `StartedNotLost`; `ParserAdvances` is proved by cases on the
  action, as for the review.
* `AgentAnalysisProofs`: `FoundInv` relates `found` to the secrets scanned and
  the replies got so far, `SecretsFirst` keeps each secret before any other
  finding of its key, `KeptInv` is what `_deduplicate` has kept up to its
  position, and the time bound charges every chunk passed with a slowest invoke.
  From `SecretsKept` follows `SecretsAlwaysCritical`: for a diff with a critical
  secret the premise of `CriticalReported` holds of the security agent.
* `GitHubClientProofs`: `TimeInv` bounds the deadline by the timeout and the
  token's `until` by its expiry; `ClientInv` bounds the deadline by the token's
  expiry while requests are made, for the parser because its client is new, for
  the summary because Life - Keep exceeds its timeout; `PostInv` ties the
  attempts left to the copies of the comment. From it the three invariants and
  the refinement of `ReviewBoard`.
* `ArgusPipelineProofs`: `FeedInv` (pages of a review lie between its commit and
  the head, and no id is used twice) and `RunInv` (a run's item is of a published
  review of its commit, and posted before it is marked or announced). At the head
  the pages can only be the head, whence `HeadStatusFromHead`. `LearnedInv`, the
  safety behind `AnnouncedIsLearned`, is a conjunct: a completion event is
  acknowledged only after its LEARNING# item is written, and the item of its
  review stays, though a later event may overwrite the verdict in it.
* `SummaryDedupProofs`: the loop invariant is that each key seen has exactly one
  entry (`KeptInv`), and that the entry is the first critical finding of its
  line or else the first (`WhichKept`); `CriticalKept` and `VerdictUnchanged` follow.
* `ChunkFilesProofs`: the loop invariant for any list and limit. `TotalsRight`
  compares with `LinesUpTo`, a recursive function, so its recursion equation has
  to be proved first: a function with it is shown to exist on 0 .. n for every n
  by induction on n. The induction theorems of the library are no use here, as
  they take an operator; `LeastNat` and `SetInduction` state induction for sets
  of numbers instead, from the well-foundedness of < on Nat.
* `DashboardProofs`: `FetchInv` (a click that met no other fetch has left at most
  its own) and `PanelOfSelected` together are inductive. Nothing is claimed of the
  age of what the page shows.

The assumptions are the named `ASSUME`s on constants: types, at least one agent,
limits of at least one receive, and the margins between the times of
`GitHubClient`, which the deployed values meet. Finiteness of the set of agents
is not needed.

Only model-checked: the liveness properties `EveryEventSettles`,
`ReviewAnswered`, `StartedIsReviewed`, `AnnouncedIsLearned` and `LoadingEnds`, for
fairness and ENABLED are outside the prover's reach. Of the first four the parts
that are safety are proved: for the review and the parser that no step on an
event fails to advance it within fixed bounds, and for all three queues behind
the webhook that an event at its end has done what it was sent for or is dead.
What is left to TLC is that fairness makes the steps happen. The two runs that
expect a violation are counterexamples and need no proof.

## Limits

* `CompleteAtQuiescence` and `CriticalReported` assume queries that see
  completed writes (`ReadLag = FALSE`) though the code does not ask DynamoDB for
  them; with stale reads neither holds, and only the refinement is claimed.
* They speak of quiescence with every event acknowledged: if the last findings
  event ends in the dead-letter queue the pull request may never show the table.
* SQS standard queues may deliver a deleted message again; that is not modelled.
* An agent's analysis and the GitHub client's times are checked on their own, not
  inside `ArgusReview`, where failures may happen at every point anyway.
* `TokenAlive` depends on the timeouts of `agents-stack.ts`. For
  the parser the margin of 100 s would not do; its fresh client per event does.
* PyGithub's pauses between requests and its handling of 202 and 301 are within
  the time an attempt may take or do not arise for the requests used.
* In `Dashboard` the data behind the API has no age and no content; nothing orders
  overlapping refreshes, and the API's scans may answer older data after newer.

## Not modelled

Formatting of comments, language detection, token counts, signature checks,
the event classes beyond their fields, the HTTP API's routes, the configuration
class nothing imports, `trigger.py`, IAM and outputs of the stacks: data or pure
input and output on which no property of the system turns. The Python packages
under `agents/` that are third-party code (PyGithub, urllib3, requests, pydantic,
cryptography and their dependencies) are far the largest part of the repository;
of them only the retry policy of PyGithub's requests is modelled, since it
decides how often a comment is posted and how long a call lasts.

## Order of the modules

`SqsQueue`, `ReviewStore`, `ReviewAgent`, `Summary`, `ArgusReview` with
`ReviewBoard` came first, then `SummaryDedup`, `ChunkFiles` and `Ingest`, then
`BedrockClient` and `AgentAnalysis`, `GithubRetry` and `GitHubClient`,
`ReviewFeed`, `LtmWriter` and `ArgusPipeline`, and `Dashboard`. What remains worth
doing: `AgentAnalysis` as an implementation of `ReviewAgent`'s `Results`, a bound
on what a query of the table returns, and duplicates of deleted SQS messages.
