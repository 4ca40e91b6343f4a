------------------------------- MODULE Ingest -------------------------------
(***************************************************************************)
(* From a change of a pull request to the ParsedPREvent the review agents  *)
(* get: GitHub's webhooks, the webhook Lambda, the parse queue and the     *)
(* parser Lambda.  The files of the pull request are read from GitHub when *)
(* the event is processed, one page after the other, while more commits    *)
(* may be pushed; head_sha is the one the webhook carried.                 *)
(*                                                                         *)
(* A commit is its number in the order of the pushes.  A page of files is  *)
(* the commit it was read at.                                              *)
(***************************************************************************)
EXTENDS SqsQueue, Sequences

CONSTANTS
  MaxEvents,        \* bound: webhooks GitHub sends for the pull request
  Pages,            \* pages of files every commit of the pull request has
  ParseReceives     \* maxReceiveCount of the parse queue; 3 in messaging-stack.ts

ASSUME IngestAssumption ==
  /\ MaxEvents \in Nat
  /\ Pages \in Nat \ {0}
  /\ ParseReceives \in Nat \ {0}

VARIABLES
  head,         \* the latest commit of the pull request, 0 before it is opened
  emitted,      \* webhooks GitHub has sent
  hooks,        \* hooks[e]: the e-th webhook and how the handler answered it
  parseQ,       \* its PRWebhookEvent on the parse queue
  parsePc,      \* where the parser's invocation for it is
  pages,        \* the pages of files this invocation has read
  metas,        \* the reviews that have a META item
  unlisted,     \* history: the reviews whose META item could not be written
  reviews       \* the ParsedPREvents published on pr.parsed

github == <<head, emitted>>
parserLocals == <<parsePc, pages>>
outputs == <<metas, unlisted, reviews>>
vars == <<github, hooks, parseQ, parserLocals, outputs>>

Event == 1 .. MaxEvents
Relevant == {"opened", "synchronize", "reopened"}
Webhook == [action : Relevant \cup {"labeled"}, sha : Nat,
            answer : {"unsent", "pending", "ignored", "started", "failed"}]

\* review_id is drawn anew for every receive of an event.
ReviewId == Event \X Nat
Review == [id : ReviewId, sha : Nat, pages : Seq(Nat)]

Init ==
  /\ head = 0
  /\ emitted = 0
  /\ hooks = [e \in Event |-> [action |-> "labeled", sha |-> 0, answer |-> "unsent"]]
  /\ parseQ = [e \in Event |-> Absent]
  /\ parsePc = [e \in Event |-> "idle"]
  /\ pages = [e \in Event |-> <<>>]
  /\ metas = {}
  /\ unlisted = {}
  /\ reviews = {}

Emit(action) ==
  /\ emitted < MaxEvents
  /\ emitted' = emitted + 1
  /\ hooks' = [hooks EXCEPT ![emitted + 1] =
                 [action |-> action, sha |-> head', answer |-> "pending"]]
  /\ UNCHANGED <<parseQ, parserLocals, outputs>>

\* The pull request is opened, or a commit is pushed to its branch.
Push ==
  /\ head' = head + 1
  /\ Emit(IF head = 0 THEN "opened" ELSE "synchronize")

\* It changes without a new commit.
Touch ==
  /\ head > 0
  /\ head' = head
  /\ \E action \in {"reopened", "labeled"} : Emit(action)

Answer(e, answer) == hooks' = [hooks EXCEPT ![e].answer = answer]

WebhookIgnore(e) ==
  /\ hooks[e].answer = "pending"
  /\ hooks[e].action \notin Relevant
  /\ Answer(e, "ignored")
  /\ UNCHANGED <<github, parseQ, parserLocals, outputs>>

\* 200, review_started.
WebhookPublish(e) ==
  /\ hooks[e].answer = "pending"
  /\ hooks[e].action \in Relevant
  /\ parseQ' = [parseQ EXCEPT ![e] = Sent]
  /\ Answer(e, "started")
  /\ UNCHANGED <<github, parserLocals, outputs>>

\* 500, or no answer: the publication may have reached SNS all the same.
WebhookFail(e) ==
  /\ hooks[e].answer = "pending"
  /\ Answer(e, "failed")
  /\ \/ UNCHANGED parseQ
     \/ hooks[e].action \in Relevant /\ parseQ' = [parseQ EXCEPT ![e] = Sent]
  /\ UNCHANGED <<github, parserLocals, outputs>>

ParserAt(e, pc) == parsePc' = [parsePc EXCEPT ![e] = pc]

ParseReceive(e) ==
  /\ parseQ[e].st = "visible"
  /\ parseQ' = [parseQ EXCEPT ![e] = Receive(@)]
  /\ ParserAt(e, "fetch")
  /\ UNCHANGED <<github, hooks, pages, outputs>>

\* Mutant of FetchPage: a warm Lambda reuses the files of an earlier review.
FetchPageCached(e) ==
  /\ parsePc[e] = "fetch"
  /\ \E commit \in {head} \cup {r.pages[Len(pages[e]) + 1] : r \in reviews} :
       pages' = [pages EXCEPT ![e] = Append(@, commit)]
  /\ ParserAt(e, IF Len(pages'[e]) = Pages THEN "meta" ELSE "fetch")
  /\ UNCHANGED <<github, hooks, parseQ, outputs>>

\* Mutant of FetchPage: an event that has a META item is not given another.
FetchPageMetaOnce(e) ==
  /\ parsePc[e] = "fetch"
  /\ pages' = [pages EXCEPT ![e] = Append(@, head)]
  /\ ParserAt(e, IF Len(pages'[e]) < Pages THEN "fetch"
                 ELSE IF \E id \in metas : id[1] = e THEN "publish"
                 ELSE "meta")
  /\ UNCHANGED <<github, hooks, parseQ, outputs>>

\* One page of pr.get_files(), as the pull request is now.  After the last one
\* the files are parsed and chunked.
FetchPage(e) ==
  /\ parsePc[e] = "fetch"
  /\ pages' = [pages EXCEPT ![e] = Append(@, head)]
  /\ ParserAt(e, IF Len(pages'[e]) = Pages THEN "meta" ELSE "fetch")
  /\ UNCHANGED <<github, hooks, parseQ, outputs>>

WriteMeta(e) ==
  /\ parsePc[e] = "meta"
  /\ metas' = metas \cup {<<e, parseQ[e].rc>>}
  /\ ParserAt(e, "publish")
  /\ UNCHANGED <<github, hooks, parseQ, pages, unlisted, reviews>>

\* put_item raises: the review goes on without its META item.
WriteMetaFails(e) ==
  /\ parsePc[e] = "meta"
  /\ unlisted' = unlisted \cup {<<e, parseQ[e].rc>>}
  /\ ParserAt(e, "publish")
  /\ UNCHANGED <<github, hooks, parseQ, pages, metas, reviews>>

PublishParsed(e) ==
  /\ parsePc[e] = "publish"
  /\ reviews' = reviews \cup
       {[id |-> <<e, parseQ[e].rc>>, sha |-> hooks[e].sha, pages |-> pages[e]]}
  /\ ParserAt(e, "return")
  /\ UNCHANGED <<github, hooks, parseQ, pages, metas, unlisted>>

\* The invocation for e ends: its message becomes d, its locals are gone.
EndParser(e, d) ==
  /\ parseQ' = [parseQ EXCEPT ![e] = d]
  /\ ParserAt(e, "idle")
  /\ pages' = [pages EXCEPT ![e] = <<>>]
  /\ UNCHANGED <<github, hooks, outputs>>

ParseReturn(e) ==
  /\ parsePc[e] = "return"
  /\ EndParser(e, Delete(parseQ[e]))

\* Mutant of ParseFail: the handler logs the exception and returns.
ParseFailSwallowed(e) ==
  /\ parseQ[e].st = "inflight"
  /\ EndParser(e, Delete(parseQ[e]))

\* The handler raises again what GitHub's API, the validation or the publication
\* raised, or the invocation is cut off.
ParseFail(e) ==
  /\ parseQ[e].st = "inflight"
  /\ EndParser(e, Release(parseQ[e], ParseReceives))

WebhookStep(e) == WebhookIgnore(e) \/ WebhookPublish(e) \/ WebhookFail(e)

ParserStep(e) ==
  \/ ParseReceive(e)
  \/ FetchPage(e)
  \/ WriteMeta(e)
  \/ WriteMetaFails(e)
  \/ PublishParsed(e)
  \/ ParseReturn(e)

\* GitHub has sent all it will send and every event is settled.
Rest ==
  /\ emitted = MaxEvents
  /\ \A e \in Event : hooks[e].answer # "pending" /\ Settled(parseQ[e])
  /\ UNCHANGED vars

Next ==
  \/ Push
  \/ Touch
  \/ \E e \in Event : WebhookStep(e) \/ ParserStep(e) \/ ParseFail(e)
  \/ Rest

Spec == Init /\ [][Next]_vars

\* Lambda polls the parse queue and runs what it has started.
FairSpec == Spec /\ \A e \in Event : WF_vars(ParserStep(e))

-----------------------------------------------------------------------------
(* Properties *)

TypeOK ==
  /\ head \in Nat
  /\ emitted \in 0 .. MaxEvents
  /\ hooks \in [Event -> Webhook]
  /\ parseQ \in [Event -> Delivery(ParseReceives)]
  /\ parsePc \in [Event -> {"idle", "fetch", "meta", "publish", "return"}]
  /\ pages \in [Event -> Seq(Nat)]
  /\ metas \subseteq ReviewId
  /\ unlisted \subseteq ReviewId
  /\ reviews \subseteq Review

\* The files of a review are never older than the commit its status will be set
\* on (head_sha), however late the event is processed and however often: they
\* may be newer, even of several commits.
NeverOlder ==
  \A r \in reviews : \A k \in 1 .. Len(r.pages) : r.pages[k] >= r.sha

\* Every webhook so far has been answered 200 and what it started acknowledged.
AllAccepted ==
  \A e \in 1 .. emitted :
    \/ hooks[e].answer = "ignored"
    \/ hooks[e].answer = "started" /\ parseQ[e].st = "deleted"

\* The commit a pull request ends with has a review made of its files only, if
\* no webhook failed: pushes in the middle of the paging spoil only reviews of
\* commits that are no longer the latest.
LatestReviewed ==
  AllAccepted /\ head > 0 =>
    \E r \in reviews :
      r.sha = head /\ Len(r.pages) = Pages /\ \A k \in 1 .. Pages : r.pages[k] = head

\* A review the agents work on has its META item, the one the dashboard lists it
\* by, unless its put_item failed; so a second receive, which draws a second
\* review_id, must write its own.
MetaBeforeReview == \A r \in reviews : r.id \in metas \cup unlisted

ReviewsOf(e) == {r \in reviews : r.id[1] = e}

\* What the webhook answered review_started to is published as a review, or ends
\* in the parse dead-letter queue.
StartedIsReviewed ==
  \A e \in Event :
    hooks[e].answer = "started" ~> ReviewsOf(e) # {} \/ parseQ[e].st = "dead"

\* What holds of it at every moment: an event that is started and settled has a
\* review or is dead, so no failure, swallowed or in the wrong place, loses it.
StartedNotLost ==
  \A e \in Event :
    hooks[e].answer = "started" /\ Settled(parseQ[e]) =>
      ReviewsOf(e) # {} \/ parseQ[e].st = "dead"

\* How far a receive has come: its pages, META item, publication and end.
Stage(pc, read) ==
  CASE pc = "fetch" -> read
    [] pc = "meta" -> Pages
    [] pc = "publish" -> Pages + 1
    [] pc = "return" -> Pages + 2
    [] OTHER -> Pages + 3

Advances(e) ==
  \/ parseQ'[e].rc > parseQ[e].rc
  \/ /\ parseQ'[e].rc = parseQ[e].rc
     /\ Stage(parsePc'[e], Len(pages'[e])) > Stage(parsePc[e], Len(pages[e]))

\* The parser cannot work on one event for ever: each of its steps is a new
\* receive, of which there are at most ParseReceives, or goes further in the one
\* it is in, and no other step sets an event back.
ParserAdvances ==
  [][\A e \in Event :
       IF ParserStep(e) \/ ParseFail(e) THEN Advances(e)
       ELSE UNCHANGED <<parseQ[e].rc, Stage(parsePc[e], Len(pages[e]))>>]_vars

\* All this together is ReviewFeed, on which ArgusPipeline builds the rest of the
\* chain: every redelivery draws a fresh review_id, and no interleaving of pushes,
\* pages and receives publishes anything else.
Feed == INSTANCE ReviewFeed WITH
  Ids <- Event \X (1 .. ParseReceives), Pages <- Pages, head <- head, reviews <- reviews

RefinesReviewFeed == Feed!FeedSpec

-----------------------------------------------------------------------------
(* The inductive invariant behind the safety properties *)

\* The webhook of the push that made head is among those sent.
HookInv ==
  /\ \A e \in Event :
       /\ hooks[e].sha <= head
       /\ hooks[e].answer = "unsent" <=> e > emitted
       /\ hooks[e].answer = "ignored" => hooks[e].action \notin Relevant
  /\ head > 0 =>
       \E e \in 1 .. emitted : hooks[e].sha = head /\ hooks[e].action \in Relevant

ParseQueueInv ==
  \A e \in Event :
    /\ parsePc[e] = "idle" <=> parseQ[e].st # "inflight"
    /\ parseQ[e].st \in {"absent", "visible"} => parseQ[e].rc < ParseReceives
    /\ hooks[e].answer \in {"unsent", "pending", "ignored"} => parseQ[e] = Absent

\* What an invocation has read lies between its webhook's commit and the head.
PagesInv ==
  \A e \in Event :
    /\ parsePc[e] = "idle" => pages[e] = <<>>
    /\ parsePc[e] = "fetch" => Len(pages[e]) < Pages
    /\ parsePc[e] \in {"meta", "publish", "return"} => Len(pages[e]) = Pages
    /\ \A k \in 1 .. Len(pages[e]) : pages[e][k] \in hooks[e].sha .. head

ReviewInv ==
  /\ \A r \in reviews :
       /\ r.sha = hooks[r.id[1]].sha
       /\ hooks[r.id[1]].answer # "unsent"
       /\ Len(r.pages) = Pages
       /\ \A k \in 1 .. Pages : r.pages[k] \in r.sha .. head
  /\ \A e \in Event :
       parsePc[e] = "return" \/ parseQ[e].st = "deleted" => ReviewsOf(e) # {}

MetaInv ==
  /\ \A e \in Event :
       parsePc[e] = "publish" => <<e, parseQ[e].rc>> \in metas \cup unlisted
  /\ MetaBeforeReview

\* A receive has published nothing before its own publication.
FreshInv ==
  \A r \in reviews :
    /\ r.id[2] \in 1 .. parseQ[r.id[1]].rc
    /\ parsePc[r.id[1]] \in {"fetch", "meta", "publish"} => r.id[2] # parseQ[r.id[1]].rc

\* A webhook that is sent is of a commit; the parser has none but sent ones.
CommitInv ==
  \A e \in Event :
    /\ hooks[e].answer # "unsent" => hooks[e].sha > 0
    /\ parsePc[e] # "idle" => hooks[e].answer # "unsent" /\ parseQ[e].rc > 0

\* 200 is answered once the event is on the parse queue, and it never leaves it.
AcceptedInv ==
  \A e \in Event : hooks[e].answer = "started" => parseQ[e].st # "absent"

CoreInv ==
  /\ TypeOK
  /\ HookInv
  /\ ParseQueueInv
  /\ PagesInv
  /\ ReviewInv
  /\ MetaInv

IInv == CoreInv /\ FreshInv /\ CommitInv /\ AcceptedInv
=============================================================================
