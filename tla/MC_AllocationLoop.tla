-------------------------- MODULE MC_AllocationLoop --------------------------
(* Three users and two items, for TLC. *)
EXTENDS AllocationLoop

MCUsers == {1, 2, 3}
MCHost == 2
MCItems == {1, 2}
MCTotals == 0 .. 5
=============================================================================
