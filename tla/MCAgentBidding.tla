--------------------------- MODULE MCAgentBidding ---------------------------
(* Small instances of AgentBidding. *)
EXTENDS AgentBidding, TLC

CONSTANTS j1, j2, c1, c2, c3

CallSymmetry == Permutations(Calls)
=============================================================================
