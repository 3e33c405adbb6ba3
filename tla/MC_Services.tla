----------------------------- MODULE MC_Services -----------------------------
(***************************************************************************)
(* A small instance of Services, for TLC.                                  *)
(***************************************************************************)
EXTENDS Services, TLC

CONSTANTS u1, u2, e1, e2

ServicesSymmetry == Permutations({u1, u2}) \cup Permutations({e1, e2})

LowScores == {-4}
LowOffsets == {-5, 5}
LowDifferences == {-1000, 0, 20}
=============================================================================
