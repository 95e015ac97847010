--------------------------- MODULE MCAgentRegistry ---------------------------
(* An instance of AgentRegistry for TLC, where 4 units stand for 100 GUARD,   *)
(* and side by side with it the invitations of the orchestrator, which ask it *)
(* who is an agent.  They share no state: a behaviour runs one of the two,    *)
(* and the other stays where it begins.                                       *)
EXTENDS AgentRegistry, InvitationProcesses, TLC

CONSTANTS a1, a2

VARIABLES part

AgentSymmetry == Permutations({a1, a2})

\* A job's outcome that lowers the reputation by half its range.
MCOutcomes == {<<0, 0, 25>>}

Runs(p) == part = p /\ UNCHANGED part

\* The first agent is not active at first, and not in the roster; the others are
\* as they may.
RegistryInit ==
    /\ part \in {"registry", "invitations"}
    /\ Init /\ Bidding!Init
    /\ IF part = "invitations" THEN registry[1] = "inactive" /\ roster[1] = "none"
       ELSE \A a \in 1 .. Registered : registry[a] = "fit" /\ roster[a] = "none"

RegistryNext ==
    \/ Runs("registry") /\ Next /\ UNCHANGED inviteVars
    \/ Runs("invitations") /\ Bidding!Next /\ UNCHANGED vars

RegistryAndInvitations == RegistryInit /\ [][RegistryNext]_<<part, vars, inviteVars>>
=============================================================================
