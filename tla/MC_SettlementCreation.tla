----------------------- MODULE MC_SettlementCreation -----------------------
(* Two create requests at once, for TLC. *)
EXTENDS SettlementCreation

CONSTANTS h1, h2
MCHandlers == {h1, h2}
=============================================================================
