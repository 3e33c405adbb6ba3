---------------------------- MODULE MC_Settlement ----------------------------
(* Small instances of Settlement for TLC. *)
EXTENDS Settlement, TLC

CONSTANTS h1, h2

MCHost == 2
MCOneGuest == {1}
MCTwoGuests == {1, 3}
MCHandlers == {h1, h2}
\* In halves of a won: 1 won, and 2 x 1.5 won, stored as 2 x 2 won.
MCLines == {[price |-> 2, quantity |-> 2], [price |-> 3, quantity |-> 4]}
MCMaxAmount == 6
HandlerSymmetry == Permutations(MCHandlers)
==============================================================================
