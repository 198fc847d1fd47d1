----------------------------- MODULE MCScheduler -----------------------------
(* Instances of Scheduler for TLC: one more address than ids, so that an   *)
(* address is reused while current_service still holds it.                 *)
EXTENDS Scheduler, TLC

AddrSymmetry == Permutations(Addr)
=============================================================================
