SPECIFICATION Spec
CONSTANTS
  Id = {0, 1, 2}
  Scope = {"a", "b"}
  Addr = {p1, p2, p3}
  Op = {}
SYMMETRY AddrSymmetry
INVARIANTS
  TypeOK
  IndexesAgree
  InitDestroyBalanced
  CurrentOnlineUntilWithdrawn
