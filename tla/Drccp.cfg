SPECIFICATION FairSpec
CONSTANTS
  Node = {"n1", "n2"}
  Name = {"a1", "a2", "b1"}
  Listen <- MCListen
  Resolve <- MCResolve
  Tag = {"none", "cluster"}
  NoTag = "none"
  Submission = {s1}
  MaxLosses = 1
  MaxJoins = 1
INVARIANTS
  TypeOK
  OwnShareKnown
  AnswerIsResult
  RunsBounded
PROPERTY AnsweredUnlessStopped
