----------------------------- MODULE MCServices -----------------------------
(* The processes of ServiceProcesses, checked side by side: a behaviour runs  *)
(* one of them, and the others stay where they begin, where nothing is        *)
(* pending.                                                                   *)
EXTENDS ServiceProcesses

VARIABLES part

Runs(p) == part = p /\ UNCHANGED part

ServicesInit ==
    /\ part \in {"settlement", "intake", "scanner"}
    /\ Settlement!Init /\ (part # "settlement" => payable /\ opened)
    /\ Intake!Init /\ Scan!Init

ServicesNext ==
    \/ Runs("settlement") /\ Settlement!Next /\ UNCHANGED <<intakeVars, scannerVars>>
    \/ Runs("intake") /\ Intake!Next /\ UNCHANGED <<settlementVars, scannerVars>>
    \/ Runs("scanner") /\ Scan!Next /\ UNCHANGED <<settlementVars, intakeVars>>

\* What is fair in each module; where nothing is pending nothing is due.
Services ==
    /\ ServicesInit
    /\ [][ServicesNext]_<<part, settlementVars, intakeVars, scannerVars>>
    /\ Settlement!Fairness /\ Intake!Fairness /\ Scan!Fairness

\* The liveness properties of the instances, by their own names.
DueIsPaid == Settlement!DueIsPaid
DiscoveredIsPosted == Intake!DiscoveredIsPosted
=============================================================================
