---------------------------- MODULE MCTaskmanager ----------------------------
(* Instances of Taskmanager for TLC.  Task 5 stands for an id beyond       *)
(* 32 bits: with IdSpan 4 its low bits are those of task 1.                *)
EXTENDS Taskmanager, TLC

HandlerSymmetry == Permutations(Handler)
=============================================================================
