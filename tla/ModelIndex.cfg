SPECIFICATION ModelsSpec
CONSTANTS
  User = {u1, u2}
  Name = {"a", "x"}
  Id = {"x", "y"}
  Content = {c1, c2}
SYMMETRY Symmetry
INVARIANTS
  ModelsTypeOK
  IndexUnique
  PrivateBackedUntilDisturbed
  PushedStoredUnlessDoubtful
