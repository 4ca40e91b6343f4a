SPECIFICATION FairSpec
CONSTANTS
  MaxCommits = 2
  Pages = 2
  Ids = {1, 2}
  LearnReceives = 2
  Runs = {1, 2}
  Outcomes = {"approve", "request_changes"}
INVARIANTS
  IInv
  HeadStatusFromHead
  LearnedWasPosted
  LearnedInv
PROPERTY AnnouncedIsLearned
