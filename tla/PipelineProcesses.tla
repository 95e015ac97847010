-------------------------- MODULE PipelineProcesses --------------------------
(* The processes of a job after its award: auditors, dependency agent,        *)
(* findings store and report agent.  They get constants and variables of      *)
(* their own, so that they can be proved about next to the bidding that comes *)
(* before them; their properties have their names.                            *)

CONSTANTS MaxWinners, MaxTroubles

VARIABLES strict, winners, at, offer, listed, bought, posted, dependency, answer, informed,
          store, topic, read, job, aggregate, reports, replayed, excused, failures, restarts

Pipeline == INSTANCE AuditPipeline WITH faults <- failures, crashes <- restarts

ASSUME PipelineAssumption == Pipeline!ConstantsOK

\* What a report counts and shows, and what becomes of audits and of findings
\* that are heard: see the module.
CountedAndShown == Pipeline!CountedAndShown
CyclesEnd == Pipeline!CyclesEnd
HeardIsReported == Pipeline!HeardIsReported
=============================================================================
