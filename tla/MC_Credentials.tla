--------------------------- MODULE MC_Credentials ---------------------------
(* Model values of Credentials. *)
EXTENDS Credentials, TLC

CONSTANTS h1, h2
MCHandlers == {h1, h2}
HandlerSymmetry == Permutations(MCHandlers)
=============================================================================
