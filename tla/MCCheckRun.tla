----------------------------- MODULE MCCheckRun -----------------------------
(* Instances of CheckRun for TLC.  The calls are interchangeable. *)
EXTENDS CheckRun, TLC

CallSymmetry == Permutations(Calls)
=============================================================================
