--------------------------- MODULE MCBatchChecker ---------------------------
(* Instances of BatchChecker for TLC. *)
EXTENDS BatchChecker

TwoItems == 1 .. 2
AllLists == SUBSET Items
=============================================================================
