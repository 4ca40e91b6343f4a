SPECIFICATION FairSpec
CONSTANTS
  MaxEvents = 2
  Pages = 2
  ParseReceives = 2
INVARIANTS
  IInv
  NeverOlder
  LatestReviewed
  MetaBeforeReview
  StartedNotLost
PROPERTIES
  StartedIsReviewed
  RefinesReviewFeed
  ParserAdvances
