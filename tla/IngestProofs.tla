---------------------------- MODULE IngestProofs ----------------------------
(***************************************************************************)
(* Proofs that Ingest keeps its safety properties for any number of        *)
(* webhooks and pages and every receive limit.                             *)
(***************************************************************************)
EXTENDS Ingest, TLAPS

\* Every initial state satisfies the core of the inductive invariant.
LEMMA InitCoreInv == Init => CoreInv
<1> SUFFICES ASSUME Init PROVE CoreInv
  OBVIOUS
<1> USE IngestAssumption DEF Init
<1>1. TypeOK
  <2>1. hooks \in [Event -> Webhook]
    BY DEF Webhook
  <2>2. parseQ \in [Event -> Delivery(ParseReceives)]
    BY DEF Absent, Delivery
  <2> QED
    BY <2>1, <2>2 DEF TypeOK
<1>2. HookInv /\ ParseQueueInv /\ PagesInv
  BY DEF HookInv, ParseQueueInv, PagesInv, Absent, Event, Relevant
<1>3. ReviewInv /\ MetaInv
  BY DEF ReviewInv, MetaInv, MetaBeforeReview, Absent
<1> QED
  BY <1>1, <1>2, <1>3 DEF CoreInv

\* A new webhook is one the parser has seen nothing of, and the commit of the
\* last push stays among the webhooks sent.
LEMMA EmitStep ==
  ASSUME CoreInv, Push \/ Touch
  PROVE  CoreInv'
<1> USE IngestAssumption DEF CoreInv
<1> DEFINE n == emitted + 1
<1>1. PICK action \in Relevant \cup {"labeled"} :
        /\ hooks' = [hooks EXCEPT ![n] = [action |-> action, sha |-> head', answer |-> "pending"]]
        /\ \/ head' = head + 1 /\ action \in Relevant
           \/ head' = head /\ head > 0
  <2>1. CASE Push
    <3> DEFINE opening == IF head = 0 THEN "opened" ELSE "synchronize"
    <3>1. opening \in Relevant
      BY DEF Relevant
    <3>2. /\ head' = head + 1
          /\ hooks' = [hooks EXCEPT ![n] = [action |-> opening, sha |-> head', answer |-> "pending"]]
      BY <2>1 DEF Push, Emit
    <3> QED
      BY <3>1, <3>2
  <2>2. CASE Touch
    BY <2>2 DEF Touch, Emit, Relevant
  <2> QED
    BY <2>1, <2>2
<1>2. /\ emitted < MaxEvents /\ emitted' = n
      /\ UNCHANGED <<parseQ, parsePc, pages, metas, unlisted, reviews>>
  BY DEF Push, Touch, Emit, parserLocals, outputs
<1>3. /\ head \in Nat /\ head' \in Nat /\ head' >= head
      /\ n \in Event /\ n \in 1 .. MaxEvents /\ emitted \in Nat
  BY <1>1, <1>2 DEF TypeOK, Event
<1>4. /\ hooks[n].answer = "unsent" /\ parseQ[n] = Absent
      /\ parsePc[n] = "idle" /\ pages[n] = <<>> /\ Len(pages[n]) = 0
      /\ \A r \in reviews : r.id[1] # n
  BY <1>3 DEF HookInv, ParseQueueInv, PagesInv, ReviewInv, Absent
<1>5. \A e \in Event : e # n => hooks'[e] = hooks[e]
  BY <1>1 DEF TypeOK
<1>6. hooks'[n] = [action |-> action, sha |-> head', answer |-> "pending"]
  BY <1>1, <1>3 DEF TypeOK
<1>7. TypeOK'
  BY <1>1, <1>2, <1>3 DEF TypeOK, Webhook
<1>8. HookInv'
  <2>1. \A e \in Event :
          /\ hooks'[e].sha <= head'
          /\ hooks'[e].answer = "unsent" <=> e > emitted'
          /\ hooks'[e].answer = "ignored" => hooks'[e].action \notin Relevant
    <3> SUFFICES ASSUME NEW e \in Event
                 PROVE  /\ hooks'[e].sha <= head'
                        /\ hooks'[e].answer = "unsent" <=> e > emitted'
                        /\ hooks'[e].answer = "ignored" => hooks'[e].action \notin Relevant
      OBVIOUS
    <3>1. CASE e = n
      BY <3>1, <1>2, <1>3, <1>6
    <3>2. CASE e # n
      <4>1. hooks[e].sha \in Nat
        BY DEF TypeOK, Webhook
      <4> QED
        BY <4>1, <3>2, <1>2, <1>3, <1>5 DEF HookInv, Event
    <3> QED
      BY <3>1, <3>2
  <2>2. \E e \in 1 .. emitted' : hooks'[e].sha = head' /\ hooks'[e].action \in Relevant
    <3>1. CASE head' = head + 1 /\ action \in Relevant
      BY <3>1, <1>2, <1>3, <1>6
    <3>2. CASE head' = head /\ head > 0
      <4>1. PICK e \in 1 .. emitted : hooks[e].sha = head /\ hooks[e].action \in Relevant
        BY <3>2 DEF HookInv
      <4>2. e \in 1 .. emitted' /\ e \in Event /\ e # n
        BY <1>2, <1>3 DEF Event
      <4> QED
        BY <4>1, <4>2, <3>2, <1>5
    <3> QED
      BY <3>1, <3>2, <1>1
  <2> QED
    BY <2>1, <2>2 DEF HookInv
<1>9. ParseQueueInv'
  BY <1>2, <1>4, <1>5 DEF ParseQueueInv
<1>10. PagesInv'
  <2> SUFFICES ASSUME NEW e \in Event, NEW k \in 1 .. Len(pages[e])
               PROVE  pages[e][k] \in hooks'[e].sha .. head'
    BY <1>2 DEF PagesInv
  <2>1. e # n
    BY <1>4
  <2>2. hooks'[e] = hooks[e]
    BY <2>1, <1>5
  <2>3. pages[e][k] \in hooks[e].sha .. head
    BY DEF PagesInv
  <2>4. hooks[e].sha \in Nat
    BY DEF TypeOK, Webhook
  <2> QED
    BY <2>2, <2>3, <2>4, <1>3
<1>11. ReviewInv'
  <2>1. \A e \in Event :
          parsePc'[e] = "return" \/ parseQ'[e].st = "deleted" => ReviewsOf(e)' # {}
    BY <1>2 DEF ReviewInv, ReviewsOf
  <2>2. ASSUME NEW r \in reviews
        PROVE  /\ r.sha = hooks'[r.id[1]].sha
               /\ hooks'[r.id[1]].answer # "unsent"
               /\ Len(r.pages) = Pages
               /\ \A k \in 1 .. Pages : r.pages[k] \in r.sha .. head'
    <3>1. r.id[1] \in Event /\ r.id[1] # n /\ r.sha \in Nat
      BY <1>4 DEF TypeOK, Review, ReviewId
    <3> QED
      BY <3>1, <1>3, <1>5 DEF ReviewInv, TypeOK
  <2> QED
    BY <2>1, <2>2, <1>2 DEF ReviewInv
<1>12. MetaInv'
  BY <1>2 DEF MetaInv, MetaBeforeReview
<1> QED
  BY <1>7, <1>8, <1>9, <1>10, <1>11, <1>12

\* An answer to a webhook; its event may have been put on the parse queue.
LEMMA WebhookStepCoreInv ==
  ASSUME CoreInv, NEW e \in Event, WebhookStep(e)
  PROVE  CoreInv'
<1> USE IngestAssumption DEF CoreInv
<1>1. PICK answer \in {"ignored", "started", "failed"} :
        /\ hooks' = [hooks EXCEPT ![e].answer = answer]
        /\ answer = "ignored" => hooks[e].action \notin Relevant /\ UNCHANGED parseQ
  BY DEF WebhookStep, WebhookIgnore, WebhookPublish, WebhookFail, Answer
<1>2. /\ hooks[e].answer = "pending" /\ parseQ[e] = Absent
      /\ UNCHANGED parseQ \/ parseQ' = [parseQ EXCEPT ![e] = Sent]
      /\ UNCHANGED <<head, emitted, parsePc, pages, metas, unlisted, reviews>>
  BY DEF WebhookStep, WebhookIgnore, WebhookPublish, WebhookFail, ParseQueueInv,
         github, parserLocals, outputs
<1>3. /\ \A f \in Event : hooks'[f].sha = hooks[f].sha /\ hooks'[f].action = hooks[f].action
      /\ \A f \in Event : f # e => hooks'[f].answer = hooks[f].answer
      /\ hooks'[e].answer = answer
  BY <1>1 DEF TypeOK, Webhook
<1>4. parseQ'[e] \in {Absent, Sent} /\ \A f \in Event : f # e => parseQ'[f] = parseQ[f]
  BY <1>2 DEF TypeOK
<1>5. TypeOK'
  <2>1. Sent \in Delivery(ParseReceives)
    BY DEF Sent, Delivery
  <2>2. parseQ' \in [Event -> Delivery(ParseReceives)]
    BY <1>2, <2>1 DEF TypeOK
  <2>3. hooks' \in [Event -> Webhook]
    BY <1>1 DEF TypeOK, Webhook
  <2> QED
    BY <1>2, <2>2, <2>3 DEF TypeOK
<1>6. HookInv'
  BY <1>1, <1>2, <1>3 DEF HookInv, TypeOK, Event
<1>7. ParseQueueInv'
  BY <1>1, <1>2, <1>3, <1>4 DEF ParseQueueInv, TypeOK, Absent, Sent
<1>8. PagesInv'
  BY <1>2, <1>3 DEF PagesInv
<1>9. ReviewInv'
  <2>1. \A f \in Event :
          parsePc'[f] = "return" \/ parseQ'[f].st = "deleted" => ReviewsOf(f)' # {}
    BY <1>2, <1>4 DEF ReviewInv, ReviewsOf, Absent, Sent
  <2>2. ASSUME NEW r \in reviews
        PROVE  r.sha = hooks'[r.id[1]].sha /\ hooks'[r.id[1]].answer # "unsent"
    <3>1. r.id[1] \in Event
      BY DEF TypeOK, Review, ReviewId
    <3> QED
      BY <3>1, <1>3 DEF ReviewInv
  <2> QED
    BY <2>1, <2>2, <1>2 DEF ReviewInv
<1>10. MetaInv'
  <2> SUFFICES ASSUME NEW f \in Event, parsePc[f] = "publish"
               PROVE  <<f, parseQ'[f].rc>> \in metas \cup unlisted
    BY <1>2 DEF MetaInv, MetaBeforeReview
  <2>1. f # e
    BY <1>2 DEF ParseQueueInv, Absent
  <2> QED
    BY <2>1, <1>4 DEF MetaInv
<1> QED
  BY <1>5, <1>6, <1>7, <1>8, <1>9, <1>10

\* What a step of the parser leaves alone.
LEMMA HookFrame ==
  ASSUME CoreInv, UNCHANGED <<head, emitted, hooks>>
  PROVE  HookInv'
<1> QED
  BY DEF CoreInv, HookInv

\* A receive starts with no page read.
LEMMA ParseReceiveStep ==
  ASSUME CoreInv, NEW e \in Event, ParseReceive(e)
  PROVE  CoreInv'
<1> USE IngestAssumption DEF CoreInv, ParserAt
<1>1. /\ parseQ[e].st = "visible" /\ parseQ[e] \in Delivery(ParseReceives)
      /\ parseQ[e].rc < ParseReceives /\ parsePc[e] = "idle" /\ pages[e] = <<>>
  BY DEF ParseReceive, TypeOK, ParseQueueInv, PagesInv
<1>2. /\ parseQ' = [parseQ EXCEPT ![e] = Receive(parseQ[e])]
      /\ Receive(parseQ[e]) \in Delivery(ParseReceives)
      /\ Receive(parseQ[e]).st = "inflight"
      /\ parsePc' = [parsePc EXCEPT ![e] = "fetch"]
      /\ UNCHANGED <<head, emitted, hooks, pages, metas, unlisted, reviews>>
  BY <1>1 DEF Delivery, Receive, ParseReceive, github, outputs
<1>3. TypeOK' /\ HookInv'
  BY <1>2, HookFrame DEF TypeOK
<1>4. ParseQueueInv' /\ PagesInv'
  BY <1>1, <1>2 DEF ParseQueueInv, PagesInv, TypeOK, Absent
<1>5. ReviewInv' /\ MetaInv'
  BY <1>2 DEF ReviewInv, ReviewsOf, MetaInv, MetaBeforeReview, TypeOK
<1> QED
  BY <1>3, <1>4, <1>5

\* The page read is as new as the pull request, so not older than the webhook.
LEMMA FetchPageStep ==
  ASSUME CoreInv, NEW e \in Event, FetchPage(e)
  PROVE  CoreInv'
<1> USE IngestAssumption DEF CoreInv, ParserAt
<1> DEFINE pc == IF Len(pages'[e]) = Pages THEN "meta" ELSE "fetch"
<1>1. /\ parsePc[e] = "fetch" /\ parsePc' = [parsePc EXCEPT ![e] = pc]
      /\ pages' = [pages EXCEPT ![e] = Append(pages[e], head)]
      /\ UNCHANGED <<head, emitted, hooks, parseQ, metas, unlisted, reviews>>
  BY DEF FetchPage, github, outputs
<1>2. /\ pages[e] \in Seq(Nat) /\ head \in Nat
      /\ Len(pages[e]) < Pages /\ Len(pages[e]) \in Nat
      /\ hooks[e].sha <= head /\ hooks[e].sha \in Nat
  BY <1>1 DEF TypeOK, PagesInv, HookInv, Webhook
<1>3. /\ pages'[e] = Append(pages[e], head) /\ Len(pages'[e]) = Len(pages[e]) + 1
      /\ pages'[e] \in Seq(Nat)
      /\ \A k \in 1 .. Len(pages[e]) : pages'[e][k] = pages[e][k]
      /\ pages'[e][Len(pages[e]) + 1] = head
  BY <1>1, <1>2 DEF TypeOK
<1>4. TypeOK' /\ HookInv'
  BY <1>1, <1>3, HookFrame DEF TypeOK
<1>5. ParseQueueInv'
  BY <1>1 DEF ParseQueueInv, TypeOK
<1>6. PagesInv'
  <2> SUFFICES ASSUME NEW f \in Event
               PROVE  /\ parsePc'[f] = "idle" => pages'[f] = <<>>
                      /\ parsePc'[f] = "fetch" => Len(pages'[f]) < Pages
                      /\ parsePc'[f] \in {"meta", "publish", "return"} => Len(pages'[f]) = Pages
                      /\ \A k \in 1 .. Len(pages'[f]) : pages'[f][k] \in hooks[f].sha .. head
    BY <1>1 DEF PagesInv
  <2>1. CASE f = e
    <3>1. \A k \in 1 .. Len(pages'[e]) : pages'[e][k] \in hooks[e].sha .. head
      <4> SUFFICES ASSUME NEW k \in 1 .. Len(pages'[e])
                   PROVE  pages'[e][k] \in hooks[e].sha .. head
        OBVIOUS
      <4>1. k \in 1 .. Len(pages[e]) \/ k = Len(pages[e]) + 1
        BY <1>2, <1>3
      <4> QED
        BY <4>1, <1>2, <1>3 DEF PagesInv
    <3>2. parsePc'[e] = pc
      BY <1>1 DEF TypeOK
    <3> QED
      BY <2>1, <3>1, <3>2, <1>2, <1>3
  <2>2. CASE f # e
    BY <1>1, <2>2 DEF PagesInv, TypeOK
  <2> QED
    BY <2>1, <2>2
<1>7. ReviewInv' /\ MetaInv'
  BY <1>1 DEF ReviewInv, ReviewsOf, MetaInv, MetaBeforeReview, TypeOK
<1> QED
  BY <1>4, <1>5, <1>6, <1>7

\* The META item is there before the review, or put_item has failed.
LEMMA MetaStep ==
  ASSUME CoreInv, NEW e \in Event, WriteMeta(e) \/ WriteMetaFails(e)
  PROVE  CoreInv'
<1> USE IngestAssumption DEF CoreInv, ParserAt
<1> DEFINE id == <<e, parseQ[e].rc>>
<1>1. /\ parsePc[e] = "meta" /\ parsePc' = [parsePc EXCEPT ![e] = "publish"]
      /\ UNCHANGED <<head, emitted, hooks, parseQ, pages, reviews>>
      /\ metas' \cup unlisted' = (metas \cup unlisted) \cup {id}
      /\ metas' \subseteq metas \cup {id} /\ unlisted' \subseteq unlisted \cup {id}
  <2>1. CASE WriteMeta(e)
    BY <2>1 DEF WriteMeta, github
  <2>2. CASE WriteMetaFails(e)
    BY <2>2 DEF WriteMetaFails, github
  <2> QED
    BY <2>1, <2>2
<1>2. TypeOK' /\ HookInv'
  <2>1. id \in ReviewId
    BY DEF TypeOK, ReviewId, Delivery
  <2> QED
    BY <1>1, <2>1, HookFrame DEF TypeOK
<1>3. ParseQueueInv' /\ PagesInv'
  BY <1>1 DEF ParseQueueInv, PagesInv, TypeOK
<1>4. ReviewInv' /\ MetaInv'
  BY <1>1 DEF ReviewInv, ReviewsOf, MetaInv, MetaBeforeReview, TypeOK
<1> QED
  BY <1>2, <1>3, <1>4

\* The review published is made of the pages the invocation has read.
LEMMA PublishParsedStep ==
  ASSUME CoreInv, NEW e \in Event, PublishParsed(e)
  PROVE  CoreInv'
<1> USE IngestAssumption DEF CoreInv, ParserAt
<1> DEFINE new == [id |-> <<e, parseQ[e].rc>>, sha |-> hooks[e].sha, pages |-> pages[e]]
<1>1. /\ parsePc[e] = "publish" /\ parsePc' = [parsePc EXCEPT ![e] = "return"]
      /\ reviews' = reviews \cup {new}
      /\ UNCHANGED <<head, emitted, hooks, parseQ, pages, metas, unlisted>>
  BY DEF PublishParsed, github
<1>2. new \in Review /\ parseQ[e].rc \in Nat
  BY DEF TypeOK, Review, ReviewId, Webhook, Delivery
<1>3. TypeOK' /\ HookInv'
  BY <1>1, <1>2, HookFrame DEF TypeOK
<1>4. ParseQueueInv' /\ PagesInv'
  BY <1>1 DEF ParseQueueInv, PagesInv, TypeOK
<1>5. ReviewInv'
  <2>1. hooks[e].answer # "unsent"
    BY <1>1 DEF ParseQueueInv, Absent
  <2>2. Len(pages[e]) = Pages /\ \A k \in 1 .. Pages : pages[e][k] \in hooks[e].sha .. head
    BY <1>1 DEF PagesInv
  <2>3. new \in ReviewsOf(e)'
    BY <1>1 DEF ReviewsOf
  <2>4. \A f \in Event : f # e /\ parsePc'[f] = "return" => parsePc[f] = "return"
    BY <1>1 DEF TypeOK
  <2>5. \A f \in Event : ReviewsOf(f) \subseteq ReviewsOf(f)'
    BY <1>1 DEF ReviewsOf
  <2>6. \A f \in Event :
          parsePc'[f] = "return" \/ parseQ'[f].st = "deleted" => ReviewsOf(f)' # {}
    BY <1>1, <2>3, <2>4, <2>5 DEF ReviewInv
  <2> QED
    BY <1>1, <2>1, <2>2, <2>6 DEF ReviewInv
<1>6. MetaInv'
  BY <1>1 DEF MetaInv, MetaBeforeReview, TypeOK
<1> QED
  BY <1>3, <1>4, <1>5, <1>6

\* An invocation ends: with its message deleted only after it has published.
LEMMA EndParserStep ==
  ASSUME CoreInv, NEW e \in Event, NEW d \in Delivery(ParseReceives), EndParser(e, d),
         parseQ[e].st = "inflight",
         d.st \in {"deleted", "visible", "dead"},
         d.st = "visible" => d.rc < ParseReceives,
         d.st = "deleted" => parsePc[e] = "return"
  PROVE  CoreInv'
<1> USE IngestAssumption DEF CoreInv, ParserAt
<1>1. /\ parseQ' = [parseQ EXCEPT ![e] = d]
      /\ parsePc' = [parsePc EXCEPT ![e] = "idle"]
      /\ pages' = [pages EXCEPT ![e] = <<>>]
      /\ UNCHANGED <<head, emitted, hooks, metas, unlisted, reviews>>
  BY DEF EndParser, github, outputs
<1>2. TypeOK' /\ HookInv'
  BY <1>1, HookFrame DEF TypeOK
<1>3. ParseQueueInv'
  BY <1>1 DEF ParseQueueInv, TypeOK, Absent
<1>4. PagesInv'
  BY <1>1 DEF PagesInv, TypeOK
<1>5. ReviewInv'
  BY <1>1 DEF ReviewInv, ReviewsOf, TypeOK
<1>6. MetaInv'
  BY <1>1 DEF MetaInv, MetaBeforeReview, TypeOK
<1> QED
  BY <1>2, <1>3, <1>4, <1>5, <1>6

\* The message is deleted after a return and released after a failure.
LEMMA EndStep ==
  ASSUME CoreInv, NEW e \in Event, ParseReturn(e) \/ ParseFail(e)
  PROVE  CoreInv'
<1> USE IngestAssumption
<1>1. parseQ[e] \in Delivery(ParseReceives) /\ parseQ[e].st = "inflight"
  BY DEF CoreInv, TypeOK, ParseQueueInv, ParseReturn, ParseFail
<1>2. CASE ParseReturn(e)
  <2>1. Delete(parseQ[e]) \in Delivery(ParseReceives) /\ Delete(parseQ[e]).st = "deleted"
    BY <1>1 DEF Delivery, Delete
  <2> QED
    BY <1>1, <1>2, <2>1, EndParserStep DEF ParseReturn, Delete
<1>3. CASE ParseFail(e)
  <2>1. /\ Release(parseQ[e], ParseReceives) \in Delivery(ParseReceives)
        /\ Release(parseQ[e], ParseReceives).st \in {"visible", "dead"}
        /\ Release(parseQ[e], ParseReceives).rc = parseQ[e].rc
        /\ Release(parseQ[e], ParseReceives).st = "visible" => parseQ[e].rc < ParseReceives
    BY <1>1 DEF Delivery, Release
  <2> QED
    BY <1>1, <1>3, <2>1, EndParserStep DEF ParseFail
<1> QED
  BY <1>2, <1>3

\* The core is preserved by every step.
LEMMA NextCoreInv == CoreInv /\ [Next]_vars => CoreInv'
<1> SUFFICES ASSUME CoreInv, [Next]_vars PROVE CoreInv'
  OBVIOUS
<1>1. CASE Push \/ Touch
  BY <1>1, EmitStep
<1>2. CASE \E e \in Event : WebhookStep(e)
  BY <1>2, WebhookStepCoreInv
<1>3. CASE \E e \in Event : ParserStep(e) \/ ParseFail(e)
  BY <1>3, ParseReceiveStep, FetchPageStep, MetaStep, PublishParsedStep, EndStep DEF ParserStep
<1>4. CASE UNCHANGED vars
  BY <1>4 DEF vars, github, parserLocals, outputs, CoreInv, TypeOK, HookInv, ParseQueueInv, PagesInv,
              ReviewInv, ReviewsOf, MetaInv, MetaBeforeReview
<1> QED
  BY <1>1, <1>2, <1>3, <1>4 DEF Next, Rest

\* What a step does to the parse queue, the parser's place and the reviews: an
\* event's receive count only grows, with a receive, and a publication is of the
\* receive in flight.
LEMMA ParserEffects ==
  ASSUME CoreInv, [Next]_vars, NEW e \in Event
  PROVE  /\ parseQ'[e].rc \in Nat /\ parseQ[e].rc \in Nat
         /\ \/ /\ parseQ'[e].rc = parseQ[e].rc
               /\ parsePc'[e] \in {"fetch", "meta", "publish"} =>
                    parsePc[e] \in {"fetch", "meta", "publish"}
               /\ parsePc'[e] # "idle" => parsePc[e] # "idle"
            \/ parseQ'[e].rc = parseQ[e].rc + 1 /\ parseQ[e].st = "visible"
         /\ hooks[e].answer # "unsent" =>
              /\ hooks'[e].answer # "unsent"
              /\ hooks'[e].sha = hooks[e].sha
<1> USE IngestAssumption DEF CoreInv
<1>1. parseQ[e] \in Delivery(ParseReceives) /\ parsePc[e] \in {"idle", "fetch", "meta", "publish", "return"}
  BY DEF TypeOK
<1>2. CASE Push \/ Touch
  <2>1. /\ parseQ' = parseQ /\ parsePc' = parsePc
        /\ \E h : hooks' = [hooks EXCEPT ![emitted + 1] = h]
    BY <1>2 DEF Push, Touch, Emit, parserLocals
  <2>2. hooks[e].answer # "unsent" => e # emitted + 1
    BY DEF HookInv, TypeOK, Event
  <2> QED
    BY <1>1, <2>1, <2>2 DEF TypeOK, Delivery
<1>3. CASE \E f \in Event : WebhookStep(f)
  <2>1. PICK f \in Event : WebhookStep(f)
    BY <1>3
  <2>2. /\ parsePc' = parsePc
        /\ \E a \in {"ignored", "started", "failed"} : hooks' = [hooks EXCEPT ![f].answer = a]
        /\ UNCHANGED parseQ \/ parseQ' = [parseQ EXCEPT ![f] = Sent]
        /\ parseQ[f] = Absent
    BY <2>1 DEF WebhookStep, WebhookIgnore, WebhookPublish, WebhookFail, Answer, parserLocals,
            ParseQueueInv
  <2>3. hooks'[e].sha = hooks[e].sha /\ (hooks[e].answer # "unsent" => hooks'[e].answer # "unsent")
    BY <2>2 DEF TypeOK, Webhook
  <2>4. parseQ'[e].rc = parseQ[e].rc
    <3>1. CASE f = e
      BY <2>2, <3>1 DEF TypeOK, Sent, Absent
    <3>2. CASE f # e
      BY <2>2, <3>2 DEF TypeOK
    <3> QED
      BY <3>1, <3>2
  <2> QED
    BY <1>1, <2>2, <2>3, <2>4 DEF Delivery
<1>4. CASE \E f \in Event : ParserStep(f) \/ ParseFail(f)
  <2>1. PICK f \in Event : ParserStep(f) \/ ParseFail(f)
    BY <1>4
  <2>2. parseQ[f] \in Delivery(ParseReceives) /\ hooks' = hooks
    BY <2>1 DEF TypeOK, ParserStep, ParseReceive, FetchPage, WriteMeta, WriteMetaFails,
            PublishParsed, ParseReturn, ParseFail, EndParser
  <2>3. CASE ParseReceive(f)
    BY <1>1, <2>2, <2>3 DEF ParseReceive, ParserAt, Receive, TypeOK, Delivery
  <2>4. CASE FetchPage(f) \/ WriteMeta(f) \/ WriteMetaFails(f) \/ PublishParsed(f)
    <3>1. /\ parseQ' = parseQ /\ parsePc[f] \in {"fetch", "meta", "publish"}
          /\ \E pc : parsePc' = [parsePc EXCEPT ![f] = pc]
      BY <2>4 DEF FetchPage, WriteMeta, WriteMetaFails, PublishParsed, ParserAt
    <3> QED
      BY <1>1, <2>2, <3>1 DEF TypeOK, Delivery
  <2>5. CASE ParseReturn(f) \/ ParseFail(f)
    <3>1. /\ parsePc' = [parsePc EXCEPT ![f] = "idle"]
          /\ \E d : d.rc = parseQ[f].rc /\ parseQ' = [parseQ EXCEPT ![f] = d]
      BY <2>5, <2>2 DEF ParseReturn, ParseFail, EndParser, ParserAt, Delete, Release
    <3> QED
      BY <1>1, <2>2, <3>1 DEF TypeOK, Delivery
  <2> QED
    BY <2>1, <2>3, <2>4, <2>5 DEF ParserStep
<1>5. CASE UNCHANGED vars
  BY <1>1, <1>5 DEF vars, github, parserLocals, Delivery
<1> QED
  BY <1>2, <1>3, <1>4, <1>5 DEF Next, Rest

\* Only a publication adds a review, one of the receive in flight.
LEMMA ReviewEffects ==
  ASSUME CoreInv, [Next]_vars
  PROVE  \/ UNCHANGED reviews
         \/ \E e \in Event : PublishParsed(e) /\ UNCHANGED <<head, parseQ, hooks>>
<1> QED
  BY DEF Next, Rest, Push, Touch, Emit, WebhookStep, WebhookIgnore, WebhookPublish, WebhookFail,
     ParserStep, ParseReceive, FetchPage, WriteMeta, WriteMetaFails, PublishParsed, ParseReturn,
     ParseFail, EndParser, vars, outputs, github

\* Every step preserves the freshness of review ids.
LEMMA NextFreshInv ==
  ASSUME CoreInv, FreshInv, CommitInv, [Next]_vars
  PROVE  FreshInv'
<1> USE DEF CoreInv, FreshInv
<1>1. \A r \in reviews : r.id[1] \in Event /\ r.id[2] \in Nat
  BY DEF TypeOK, Review, ReviewId
<1>2. \A r \in reviews :
        /\ r.id[2] \in 1 .. parseQ'[r.id[1]].rc
        /\ parsePc'[r.id[1]] \in {"fetch", "meta", "publish"} => r.id[2] # parseQ'[r.id[1]].rc
  <2> SUFFICES ASSUME NEW r \in reviews
               PROVE  /\ r.id[2] \in 1 .. parseQ'[r.id[1]].rc
                      /\ parsePc'[r.id[1]] \in {"fetch", "meta", "publish"} =>
                           r.id[2] # parseQ'[r.id[1]].rc
    OBVIOUS
  <2> DEFINE e == r.id[1]
  <2>1. e \in Event /\ r.id[2] \in 1 .. parseQ[e].rc
    BY <1>1
  <2>2. parseQ'[e].rc \in Nat /\ parseQ[e].rc \in Nat
    BY <2>1, ParserEffects
  <2>3. CASE /\ parseQ'[e].rc = parseQ[e].rc
             /\ parsePc'[e] \in {"fetch", "meta", "publish"} =>
                  parsePc[e] \in {"fetch", "meta", "publish"}
    BY <2>1, <2>3
  <2>4. CASE parseQ'[e].rc = parseQ[e].rc + 1
    BY <2>1, <2>2, <2>4
  <2> QED
    BY <2>1, <2>3, <2>4, ParserEffects
<1>3. CASE UNCHANGED reviews
  BY <1>2, <1>3
<1>4. CASE \E e \in Event : PublishParsed(e) /\ UNCHANGED parseQ
  <2>1. PICK e \in Event : PublishParsed(e) /\ UNCHANGED parseQ
    BY <1>4
  <2>2. /\ reviews' = reviews \cup
             {[id |-> <<e, parseQ[e].rc>>, sha |-> hooks[e].sha, pages |-> pages[e]]}
        /\ parsePc[e] = "publish" /\ parsePc'[e] = "return"
    BY <2>1 DEF PublishParsed, ParserAt, TypeOK
  <2>3. parseQ[e].rc \in Nat /\ parseQ[e].rc > 0
    BY <2>2, ParserEffects DEF CommitInv
  <2> QED
    BY <1>2, <2>1, <2>2, <2>3
<1> QED
  BY <1>3, <1>4, ReviewEffects

\* Every step preserves the origin of what is sent and received.
LEMMA NextCommitInv ==
  ASSUME CoreInv, CommitInv, [Next]_vars
  PROVE  CommitInv'
<1> USE IngestAssumption DEF CoreInv
<1> SUFFICES ASSUME NEW e \in Event
             PROVE  /\ hooks'[e].answer # "unsent" => hooks'[e].sha > 0
                    /\ parsePc'[e] # "idle" => hooks'[e].answer # "unsent" /\ parseQ'[e].rc > 0
  BY DEF CommitInv
<1>1. hooks'[e].answer # "unsent" => hooks'[e].sha > 0
  <2>1. CASE hooks[e].answer # "unsent"
    BY <2>1, ParserEffects DEF CommitInv
  <2>2. CASE hooks[e].answer = "unsent"
    <3>1. CASE Push \/ Touch
      <4>1. /\ head' > 0
            /\ \E a : hooks' = [hooks EXCEPT ![emitted + 1] =
                                   [action |-> a, sha |-> head', answer |-> "pending"]]
        <5>1. PICK action : Emit(action)
          BY <3>1, Zenon DEF Push, Touch
        <5>2. head' > 0
          BY <3>1 DEF Push, Touch, TypeOK
        <5> QED
          BY <5>1, <5>2, Zenon DEF Emit
      <4>2. CASE e = emitted + 1
        BY <4>1, <4>2 DEF TypeOK
      <4>3. CASE e # emitted + 1
        BY <4>1, <4>3, <2>2 DEF TypeOK
      <4> QED
        BY <4>2, <4>3
    <3>2. CASE \E f \in Event : WebhookStep(f)
      <4>1. PICK f \in Event : hooks[f].answer = "pending" /\
               \E a : hooks' = [hooks EXCEPT ![f].answer = a]
        BY <3>2 DEF WebhookStep, WebhookIgnore, WebhookPublish, WebhookFail, Answer
      <4> QED
        BY <4>1, <2>2 DEF TypeOK
    <3>3. CASE (\E f \in Event : ParserStep(f) \/ ParseFail(f)) \/ UNCHANGED vars
      <4>1. hooks' = hooks
        BY <3>3 DEF ParserStep, ParseReceive, FetchPage, WriteMeta, WriteMetaFails,
            PublishParsed, ParseReturn, ParseFail, EndParser, vars
      <4> QED
        BY <4>1, <2>2
    <3> QED
      BY <3>1, <3>2, <3>3 DEF Next, Rest
  <2> QED
    BY <2>1, <2>2
<1>2. ASSUME parsePc'[e] # "idle"
      PROVE  hooks'[e].answer # "unsent" /\ parseQ'[e].rc > 0
  <2>1. CASE parsePc[e] # "idle" /\ parseQ'[e].rc = parseQ[e].rc
    BY <2>1, ParserEffects DEF CommitInv
  <2>2. CASE parseQ'[e].rc = parseQ[e].rc + 1 /\ parseQ[e].st = "visible"
    <3>1. hooks[e].answer # "unsent"
      BY <2>2 DEF ParseQueueInv, Absent
    <3> QED
      BY <3>1, <2>2, ParserEffects
  <2> QED
    BY <1>2, <2>1, <2>2, ParserEffects
<1> QED
  BY <1>1, <1>2

\* An event that is answered 200 is on the queue, and no step takes it off.
LEMMA NextAcceptedInv ==
  ASSUME CoreInv, AcceptedInv, [Next]_vars
  PROVE  AcceptedInv'
<1> USE IngestAssumption DEF CoreInv, AcceptedInv
<1>1. CASE Push \/ Touch
  <2>1. /\ parseQ' = parseQ
        /\ \E a, c : hooks' = [hooks EXCEPT ![emitted + 1] =
                               [action |-> a, sha |-> c, answer |-> "pending"]]
    BY <1>1, Zenon DEF Push, Touch, Emit
  <2> QED
    BY <2>1 DEF TypeOK
<1>2. CASE \E f \in Event : WebhookStep(f)
  <2>1. PICK f \in Event : WebhookStep(f)
    BY <1>2
  <2>2. \/ /\ parseQ' = parseQ \/ parseQ' = [parseQ EXCEPT ![f] = Sent]
           /\ \E a \in {"ignored", "failed"} : hooks' = [hooks EXCEPT ![f].answer = a]
        \/ /\ parseQ' = [parseQ EXCEPT ![f] = Sent]
           /\ hooks' = [hooks EXCEPT ![f].answer = "started"]
    BY <2>1 DEF WebhookStep, WebhookIgnore, WebhookPublish, WebhookFail, Answer
  <2>3. \A g \in Event : parseQ'[g].st # "absent" \/ parseQ'[g] = parseQ[g]
    BY <2>2 DEF TypeOK, Sent
  <2>4. \A g \in Event :
          hooks'[g].answer = "started" => hooks[g].answer = "started" \/ parseQ'[g].st # "absent"
    <3> SUFFICES ASSUME NEW g \in Event, hooks'[g].answer = "started"
                 PROVE  hooks[g].answer = "started" \/ parseQ'[g].st # "absent"
      OBVIOUS
    <3>1. CASE g = f
      BY <3>1, <2>2 DEF TypeOK, Webhook, Sent
    <3>2. CASE g # f
      BY <3>2, <2>2 DEF TypeOK, Webhook
    <3> QED
      BY <3>1, <3>2
  <2> QED
    BY <2>3, <2>4
<1>3. CASE \E f \in Event : ParserStep(f) \/ ParseFail(f)
  <2>1. PICK f \in Event : ParserStep(f) \/ ParseFail(f)
    BY <1>3
  <2>2. CASE ParseReceive(f)
    BY <2>2 DEF ParseReceive, Receive, TypeOK
  <2>3. CASE FetchPage(f) \/ WriteMeta(f) \/ WriteMetaFails(f) \/ PublishParsed(f)
    BY <2>3 DEF FetchPage, WriteMeta, WriteMetaFails, PublishParsed
  <2>4. CASE ParseReturn(f) \/ ParseFail(f)
    <3>1. /\ hooks' = hooks
          /\ \E d : parseQ' = [parseQ EXCEPT ![f] = d] /\ d.st \in {"deleted", "visible", "dead"}
      <4>1. /\ hooks' = hooks
            /\ \/ parseQ' = [parseQ EXCEPT ![f] = Delete(parseQ[f])]
               \/ parseQ' = [parseQ EXCEPT ![f] = Release(parseQ[f], ParseReceives)]
        BY <2>4 DEF ParseReturn, ParseFail, EndParser
      <4>2. /\ Delete(parseQ[f]).st = "deleted"
            /\ Release(parseQ[f], ParseReceives).st \in {"visible", "dead"}
        BY DEF Delete, Release
      <4> QED
        BY <4>1, <4>2
    <3> QED
      BY <3>1 DEF TypeOK
  <2> QED
    BY <2>1, <2>2, <2>3, <2>4 DEF ParserStep
<1>4. CASE UNCHANGED vars
  BY <1>4 DEF vars
<1> QED
  BY <1>1, <1>2, <1>3, <1>4 DEF Next, Rest

\* The inductive invariant holds initially.
LEMMA InitIInv == Init => IInv
<1>1. Init => FreshInv
  BY DEF Init, FreshInv
<1>2. Init => CommitInv
  BY DEF Init, CommitInv
<1>3. Init => AcceptedInv
  BY DEF Init, AcceptedInv
<1> QED
  BY <1>1, <1>2, <1>3, InitCoreInv DEF IInv

\* Every step preserves the inductive invariant.
LEMMA NextIInv == IInv /\ [Next]_vars => IInv'
<1> QED
  BY NextCoreInv, NextFreshInv, NextCommitInv, NextAcceptedInv DEF IInv

\* The inductive invariant holds in every reachable state.
THEOREM IngestInvariant == Spec => []IInv
<1> QED
  BY InitIInv, NextIInv, PTL DEF Spec

\* No review is made of files older than its head_sha.
THEOREM ReviewsNeverOlder == Spec => []NeverOlder
<1>1. IInv => NeverOlder
  <2> SUFFICES ASSUME IInv, NEW r \in reviews, NEW k \in 1 .. Len(r.pages)
               PROVE  r.pages[k] >= r.sha
    BY DEF NeverOlder
  <2>1. r.pages[k] \in r.sha .. head /\ r.sha \in Nat
    BY DEF IInv, CoreInv, ReviewInv, TypeOK, Review
  <2> QED
    BY <2>1 DEF IInv, CoreInv, TypeOK
<1> QED
  BY <1>1, IngestInvariant, PTL

\* If no webhook fails, the latest commit has a review of its files only: the
\* event of the push that made it is acknowledged, so it has a review, whose
\* pages lie between that commit and the head.
THEOREM LatestCommitReviewed == Spec => []LatestReviewed
<1>1. IInv => LatestReviewed
  <2> SUFFICES ASSUME IInv, AllAccepted, head > 0
               PROVE  \E r \in reviews : /\ r.sha = head /\ Len(r.pages) = Pages
                                         /\ \A k \in 1 .. Pages : r.pages[k] = head
    BY DEF LatestReviewed
  <2>1. PICK e \in 1 .. emitted : hooks[e].sha = head /\ hooks[e].action \in Relevant
    BY DEF IInv, CoreInv, HookInv
  <2>2. e \in Event
    BY IngestAssumption DEF IInv, CoreInv, TypeOK, Event
  <2>3. parseQ[e].st = "deleted"
    BY <2>1, <2>2 DEF AllAccepted, IInv, CoreInv, HookInv
  <2>4. PICK r \in reviews : r.id[1] = e
    BY <2>2, <2>3 DEF IInv, CoreInv, ReviewInv, ReviewsOf
  <2>5. /\ r.sha = head /\ Len(r.pages) = Pages
        /\ \A k \in 1 .. Pages : r.pages[k] \in head .. head
    BY <2>1, <2>4 DEF IInv, CoreInv, ReviewInv
  <2> QED
    BY <2>5 DEF IInv, CoreInv, TypeOK
<1> QED
  BY <1>1, IngestInvariant, PTL

\* A published review has its META item unless its put_item failed.
THEOREM MetaWritten == Spec => []MetaBeforeReview
<1>1. IInv => MetaBeforeReview
  BY DEF IInv, CoreInv, MetaInv, MetaBeforeReview
<1> QED
  BY <1>1, IngestInvariant, PTL

\* An event answered review_started is never lost: once it is settled it has a
\* review or is in the dead-letter queue.
THEOREM StartedIsNotLost == Spec => []StartedNotLost
<1>1. IInv => StartedNotLost
  BY DEF IInv, CoreInv, ReviewInv, AcceptedInv, StartedNotLost, Settled
<1> QED
  BY <1>1, IngestInvariant, PTL

\* Every step of the parser brings its event nearer to its end, and no other step
\* takes it back, so the parser ends with every event.
THEOREM ParserWorkBounded == Spec => ParserAdvances
<1>1. ASSUME IInv, Next, NEW e \in Event
      PROVE  IF ParserStep(e) \/ ParseFail(e) THEN Advances(e)
             ELSE UNCHANGED <<parseQ[e].rc, Stage(parsePc[e], Len(pages[e]))>>
  <2> USE <1>1, IngestAssumption DEF IInv, CoreInv, ParserAt
  <2>1. /\ parseQ[e] \in Delivery(ParseReceives) /\ parseQ[e].rc \in Nat
        /\ pages[e] \in Seq(Nat) /\ Len(pages[e]) \in Nat
        /\ head \in Nat
    BY DEF TypeOK, Delivery
  <2>2. CASE ParseReceive(e)
    <3>1. parseQ'[e].rc = parseQ[e].rc + 1
      BY <2>1, <2>2 DEF ParseReceive, Receive, TypeOK
    <3> QED
      BY <3>1, <2>1, <2>2 DEF Advances, ParserStep
  <2>3. CASE FetchPage(e)
    <3>1. /\ parseQ' = parseQ /\ parsePc[e] = "fetch" /\ Len(pages[e]) < Pages
          /\ Len(pages'[e]) = Len(pages[e]) + 1
          /\ parsePc'[e] = IF Len(pages'[e]) = Pages THEN "meta" ELSE "fetch"
      BY <2>1, <2>3 DEF FetchPage, TypeOK, PagesInv
    <3>2. Stage(parsePc'[e], Len(pages'[e])) > Stage(parsePc[e], Len(pages[e]))
      BY <3>1, <2>1 DEF Stage
    <3> QED
      BY <3>1, <3>2, <2>3 DEF Advances, ParserStep
  <2>4. CASE WriteMeta(e) \/ WriteMetaFails(e) \/ PublishParsed(e)
    <3>1. /\ parseQ' = parseQ /\ pages' = pages
          /\ \/ parsePc[e] = "meta" /\ parsePc'[e] = "publish"
             \/ parsePc[e] = "publish" /\ parsePc'[e] = "return"
      BY <2>4 DEF WriteMeta, WriteMetaFails, PublishParsed, TypeOK
    <3>2. Stage(parsePc'[e], Len(pages'[e])) > Stage(parsePc[e], Len(pages[e]))
      BY <3>1 DEF Stage
    <3> QED
      BY <3>1, <3>2, <2>4 DEF Advances, ParserStep
  <2>5. CASE ParseReturn(e) \/ ParseFail(e)
    <3>1. /\ parseQ'[e].rc = parseQ[e].rc /\ parsePc'[e] = "idle"
          /\ parseQ[e].st = "inflight" /\ parsePc[e] # "idle"
      BY <2>5, <2>1 DEF ParseReturn, ParseFail, EndParser, TypeOK, Delete, Release, ParseQueueInv
    <3>2. Stage(parsePc'[e], Len(pages'[e])) = Pages + 3
      BY <3>1 DEF Stage
    <3>3. parsePc[e] \in {"fetch", "meta", "publish", "return"}
      BY <3>1 DEF TypeOK
    <3>4. Stage(parsePc[e], Len(pages[e])) < Pages + 3
      BY <3>3, <2>1 DEF Stage, PagesInv
    <3> QED
      BY <3>1, <3>2, <3>4, <2>5 DEF Advances, ParserStep
  <2>6. CASE ~(ParserStep(e) \/ ParseFail(e))
    <3>1. parseQ'[e].rc = parseQ[e].rc /\ parsePc'[e] = parsePc[e] /\ pages'[e] = pages[e]
      <4>1. CASE Push \/ Touch \/ Rest
        BY <4>1 DEF Push, Touch, Emit, Rest, vars, parserLocals
      <4>2. CASE \E f \in Event : WebhookStep(f)
        <5>1. PICK f \in Event : WebhookStep(f)
          BY <4>2
        <5>2. /\ parsePc' = parsePc /\ pages' = pages /\ parseQ[f] = Absent
              /\ parseQ' = parseQ \/ parseQ' = [parseQ EXCEPT ![f] = Sent]
          BY <5>1 DEF WebhookStep, WebhookIgnore, WebhookPublish, WebhookFail, parserLocals,
             ParseQueueInv
        <5>3. CASE e = f
          BY <5>2, <5>3 DEF TypeOK, Absent, Sent
        <5>4. CASE e # f
          BY <5>2, <5>4 DEF TypeOK
        <5> QED
          BY <5>2, <5>3, <5>4
      <4>3. CASE \E f \in Event : ParserStep(f) \/ ParseFail(f)
        <5>1. PICK f \in Event : f # e /\ (ParserStep(f) \/ ParseFail(f))
          BY <4>3, <2>6
        <5>2. /\ parseQ' = parseQ \/ \E d : parseQ' = [parseQ EXCEPT ![f] = d]
              /\ \E pc : parsePc' = [parsePc EXCEPT ![f] = pc]
              /\ pages' = pages \/ \E p : pages' = [pages EXCEPT ![f] = p]
          BY <5>1 DEF ParserStep, ParseReceive, FetchPage, WriteMeta, WriteMetaFails, PublishParsed,
             ParseReturn, ParseFail, EndParser
        <5> QED
          BY <5>1, <5>2 DEF TypeOK
      <4> QED
        BY <4>1, <4>2, <4>3 DEF Next
    <3> QED
      BY <2>6, <3>1
  <2> QED
    BY <2>2, <2>3, <2>4, <2>5, <2>6 DEF ParserStep
<1>2. IInv /\ [Next]_vars =>
        [\A e \in Event :
           IF ParserStep(e) \/ ParseFail(e) THEN Advances(e)
           ELSE UNCHANGED <<parseQ[e].rc, Stage(parsePc[e], Len(pages[e]))>>]_vars
  BY <1>1
<1> QED
  BY <1>2, IngestInvariant, PTL DEF Spec, ParserAdvances

\* Ingest implements ReviewFeed: its only steps that show are the pushes, and the
\* publications of reviews with a fresh id and pages that are not too old.
THEOREM FeedRefinement == Spec => RefinesReviewFeed
<1>1. Init => Feed!FeedInit
  BY DEF Init, Feed!FeedInit
<1>2. IInv /\ [Next]_vars => [Feed!FeedNext]_Feed!feedVars
  <2> SUFFICES ASSUME IInv, [Next]_vars PROVE [Feed!FeedNext]_Feed!feedVars
    OBVIOUS
  <2> USE IngestAssumption DEF IInv, CoreInv, Feed!feedVars
  <2>1. CASE UNCHANGED reviews
    <3>1. UNCHANGED head \/ head' = head + 1
      BY DEF Next, Rest, Push, Touch, WebhookStep, WebhookIgnore, WebhookPublish, WebhookFail,
         ParserStep, ParseReceive, FetchPage, WriteMeta, WriteMetaFails, PublishParsed, ParseReturn,
         ParseFail, EndParser, vars, github
    <3> QED
      BY <2>1, <3>1 DEF Feed!FeedNext, Feed!NewCommit
  <2>2. CASE \E e \in Event : PublishParsed(e) /\ UNCHANGED <<head, parseQ, hooks>>
    <3>1. PICK e \in Event : PublishParsed(e) /\ UNCHANGED <<head, parseQ, hooks>>
      BY <2>2
    <3> DEFINE id == <<e, parseQ[e].rc>>
               sha == hooks[e].sha
    <3>2. /\ reviews' = reviews \cup {[id |-> id, sha |-> sha, pages |-> pages[e]]}
          /\ parsePc[e] = "publish"
      BY <3>1 DEF PublishParsed
    <3>3. id \in Event \X (1 .. ParseReceives)
      <4>1. parseQ[e].rc > 0 /\ parseQ[e].rc \in 0 .. ParseReceives
        BY <3>2 DEF CommitInv, TypeOK, Delivery
      <4> QED
        BY <4>1
    <3>4. sha \in 1 .. head
      <4>1. hooks[e] \in Webhook /\ head \in Nat
        BY DEF TypeOK
      <4>2. sha > 0 /\ sha <= head
        BY <3>2 DEF CommitInv, HookInv
      <4> QED
        BY <4>1, <4>2 DEF Webhook
    <3>5. pages[e] \in [1 .. Pages -> sha .. head]
      <4>1. pages[e] \in Seq(Nat) /\ Len(pages[e]) = Pages
        BY <3>2 DEF TypeOK, PagesInv
      <4>2. pages[e] \in [1 .. Pages -> Nat]
        BY <4>1
      <4>3. \A k \in 1 .. Pages : pages[e][k] \in sha .. head
        BY <4>1 DEF PagesInv
      <4> QED
        BY <4>2, <4>3
    <3>6. \A r \in reviews : r.id # id
      BY <3>2 DEF FreshInv
    <3>7. Feed!Publish
      BY <3>1, <3>2, <3>3, <3>4, <3>5, <3>6 DEF Feed!Publish
    <3> QED
      BY <3>7 DEF Feed!FeedNext
  <2> QED
    BY <2>1, <2>2, ReviewEffects
<1> QED
  BY <1>1, <1>2, IngestInvariant, PTL DEF Spec, RefinesReviewFeed, Feed!FeedSpec
=============================================================================
