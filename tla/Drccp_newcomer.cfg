SPECIFICATION Spec
CONSTANTS
  Node = {"n1", "n2"}
  Name = {"a1", "a2", "b1"}
  Listen <- MCListen
  Resolve <- MCResolve
  Tag = {"none", "cluster"}
  NoTag = "none"
  Submission = {s1}
  MaxLosses = 0
  MaxJoins = 2
INVARIANT NewcomerKnown
CHECK_DEADLOCK FALSE
