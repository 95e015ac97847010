------------------------ MODULE OrchestratorProcesses ------------------------
(* Two things the orchestrator does beside its auctions: audits that a        *)
(* schedule triggers, and slashes whose appeal has failed.  They share no     *)
(* state.  Here they get constants and variables of their own, so that they   *)
(* can be checked and proved about next to the auctions; their properties     *)
(* have their names.                                                          *)

CONSTANTS MaxSchedules, MaxTriggers, MaxTroubles
CONSTANTS SlashIds, MaxMishaps

VARIABLES sched, pending, created, byHand, fired, handler, queue, loop, heard, dropped,
          eclipsed, troubles
VARIABLES wiring, appealStatus, heralds, pendingSlashes, calls, propagated, lost, mishaps

scheduleVars == <<sched, pending, created, byHand, fired, handler, queue, loop, heard,
                  dropped, eclipsed, troubles>>
slashVars == <<wiring, appealStatus, heralds, pendingSlashes, calls, propagated, lost, mishaps>>

Scheduled == INSTANCE ScheduledAudits
Slashes == INSTANCE SlashRelay WITH
             dropped <- lost, troubles <- mishaps, MaxTroubles <- MaxMishaps

\* What stays true of a schedule, and what becomes of triggers and slashes: see
\* the modules.
OneChain == Scheduled!OneChain
TriggeredIsDiscovered == Scheduled!TriggeredIsDiscovered
DelegatorsPay == Slashes!DelegatorsPay
=============================================================================
