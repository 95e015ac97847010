------------------------- MODULE InvitationProcesses -------------------------
(* The handlers that invite agents, of a registry with a number of them, and  *)
(* the start of the orchestrator's process.  They get constants and variables *)
(* of their own, so that they can be checked and proved about next to the     *)
(* registry; their property has its name.                                     *)
EXTENDS Integers

CONSTANTS Registered, Discoveries, MaxTroubles, MaxChanges

VARIABLES registry, roster, cache, run, steady, troubles, changes

inviteVars == <<registry, roster, cache, run, steady, troubles, changes>>

Bidding == INSTANCE Invitations WITH Agents <- 1 .. Registered, Startup <- 0

\* Discoveries are numbered; the start-up is not one of them.
ASSUME InvitationAssumption == Registered \in Nat /\ Discoveries \subseteq Nat \ {0}

\* A job is announced to somebody: see the module.
SomebodyIsInvited == Bidding!SomebodyIsInvited
=============================================================================
