--------------------------- MODULE MCOrchestrator ---------------------------
(* What the orchestrator must bring to an end: the auctions, and side by side *)
(* with them the audits a schedule triggered and the slashes whose appeal has *)
(* failed.  The three share no state: a behaviour runs one of them, and the   *)
(* others stay where they begin.                                              *)
EXTENDS MCWinnerSelection, OrchestratorProcesses

VARIABLES part

Runs(p) == part = p /\ UNCHANGED part

OrchestratorInit ==
    /\ part \in {"selection", "schedules", "slashes"}
    /\ Init /\ Scheduled!Init /\ Slashes!Init

OrchestratorNext ==
    \/ Runs("selection") /\ Next /\ UNCHANGED <<scheduleVars, slashVars>>
    \/ Runs("schedules") /\ Scheduled!Next /\ UNCHANGED <<vars, slashVars>>
    \/ Runs("slashes") /\ Slashes!Next /\ UNCHANGED <<vars, scheduleVars>>

\* What is fair in each; the auction of a behaviour that runs another part is
\* not the concern of that behaviour.
SelectionFairness ==
    /\ \A c \in Calls : WF_vars(part = "selection" /\ Continue(c))
    /\ WF_vars(part = "selection" /\ Mine)
    /\ WF_vars(part = "selection" /\ \E c \in Calls : ReconcileStarts(c))

Orchestrator ==
    /\ OrchestratorInit
    /\ [][OrchestratorNext]_<<part, vars, scheduleVars, slashVars>>
    /\ SelectionFairness /\ Scheduled!Fairness /\ Slashes!Fairness
=============================================================================
