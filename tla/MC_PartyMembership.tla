------------------------- MODULE MC_PartyMembership -------------------------
(* Small instances of PartyMembership for TLC. *)
EXTENDS PartyMembership, TLC

CONSTANTS h1, h2, u1, u2

MCHandlers == {h1, h2}
MCOneUser == {u1}
MCTwoUsers == {u1, u2}
HandlerSymmetry == Permutations(MCHandlers)
HandlerUserSymmetry == HandlerSymmetry \cup Permutations(MCTwoUsers)
=============================================================================
