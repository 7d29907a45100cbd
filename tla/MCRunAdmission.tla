--------------------------- MODULE MCRunAdmission ---------------------------
(* Finite instances of RunAdmission. Run goroutines are interchangeable.   *)
EXTENDS RunAdmission, TLC

RunSymmetry == Permutations(RunIds)

=============================================================================
