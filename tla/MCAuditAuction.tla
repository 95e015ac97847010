--------------------------- MODULE MCAuditAuction ---------------------------
(* Instances of AuditAuction for TLC. *)
EXTENDS AuditAuction, TLC

CONSTANTS a1, a2

AgentSymmetry == Permutations(Agents)
=============================================================================
