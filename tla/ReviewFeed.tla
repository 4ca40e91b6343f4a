----------------------------- MODULE ReviewFeed -----------------------------
(***************************************************************************)
(* What webhook and parser promise the rest of the chain, however webhooks *)
(* and receives interleave with pushes: reviews with fresh ids, whose      *)
(* files, page by page, were read at their commit or at a later one.       *)
(***************************************************************************)
EXTENDS Naturals

CONSTANTS Ids, Pages    \* review ids; pages of files of every commit

VARIABLES head, reviews

feedVars == <<head, reviews>>

FeedInit == head = 0 /\ reviews = {}

NewCommit == head' = head + 1 /\ UNCHANGED reviews

Publish ==
  /\ \E id \in Ids, sha \in 1 .. head :
       /\ \A r \in reviews : r.id # id
       /\ \E pages \in [1 .. Pages -> sha .. head] :
            reviews' = reviews \cup {[id |-> id, sha |-> sha, pages |-> pages]}
  /\ UNCHANGED head

FeedNext == NewCommit \/ Publish

FeedSpec == FeedInit /\ [][FeedNext]_feedVars
=============================================================================
