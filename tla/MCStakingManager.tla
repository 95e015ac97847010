-------------------------- MODULE MCStakingManager --------------------------
(* Small instances of StakingManager. *)
EXTENDS StakingManager, TLC

CONSTANTS a1, a2

AgentSymmetry == Permutations(Agents)
=============================================================================
