SPECIFICATION Spec
CONSTANTS
  CallTime = 2
  Timeout = 20
  Kinds = {"security", "plain"}
  Categories = {"hardcoded_secret", "other"}
  Malformed = malformed
  Diffs <- SmallDiffs
  Chunks = 2
  Replies <- SmallReplies
INVARIANTS
  IInv
  EveryAnswerCounts
  SecretsKept
  SecretsAlwaysCritical
  CutOnlyWhenSlow
