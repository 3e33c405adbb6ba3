----------------------- MODULE MC_SettlementProgress -----------------------
(* A small instance of SettlementProgress for TLC. *)
EXTENDS SettlementProgress

CONSTANTS h1, h2

MCHost == 2
MCOneGuest == {1}
MCHandlers == {h1, h2}
\* In halves of a won: 0 won, and 2 x 1.5 won, stored as 2 x 2.
MCLines == {[price |-> 0, quantity |-> 2], [price |-> 3, quantity |-> 4]}
MCMaxAmount == 6
=============================================================================
