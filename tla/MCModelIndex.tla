---------------------------- MODULE MCModelIndex ----------------------------
(* Instances of ModelIndex for TLC.  "x" is a model's name and an id.      *)
EXTENDS ModelIndex, TLC

Symmetry == Permutations(User) \cup Permutations(Content)
=============================================================================
