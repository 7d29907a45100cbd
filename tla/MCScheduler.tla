---------------------------- MODULE MCScheduler ----------------------------
(* Finite instances of Scheduler. Run goroutines are interchangeable.      *)
EXTENDS Scheduler, TLC

RunSymmetry == Permutations(RunIds)

=============================================================================
