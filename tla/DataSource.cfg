SPECIFICATION FairSpec
CONSTANTS
  Server = {s1, s2}
  Config = {f1}
  Name = {"dt1", "dt2"}
  Url = {"u1", "u2"}
  Call = {c1, c2}
  MaxLosses = 1
  MaxCuts = 1
INVARIANTS
  TypeOK
  ToldMeansListed
PROPERTIES
  RegisterReturns
  ImplementsSourceList
