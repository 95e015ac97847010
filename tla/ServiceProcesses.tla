-------------------------- MODULE ServiceProcesses --------------------------
(* Three processes that turn contracts into settled audits: the scanner, the  *)
(* orchestrator's intake of discoveries, and its settlement of a job.  They   *)
(* share no state.  Here they get constants and variables of their own, so    *)
(* that they can be checked side by side and proved about in one module;      *)
(* their properties have their names.                                         *)

CONSTANTS Handlers, Threshold, MaxFindings, MaxReports, MaxTroubles
CONSTANTS Contracts, Discoveries, MaxAttempts, MaxMishaps
CONSTANTS Cycles, MaxContracts, FetchLimit, Cap, MaxMisfortunes

VARIABLES payable, settled, deposits, pool, entries, current, handler, timers, coming, messages,
          opened, relayed, deposited, troubles
VARIABLES posted, jobs, recent, lock, discovery, armed, mishaps
VARIABLES created, seen, cursor, cycle, published, missed, misfortunes

settlementVars == <<payable, settled, deposits, pool, entries, current, handler, timers, coming,
                    messages, opened, relayed, deposited, troubles>>
intakeVars == <<posted, jobs, recent, lock, discovery, armed, mishaps>>
scannerVars == <<created, seen, cursor, cycle, published, missed, misfortunes>>

Settlement == INSTANCE JobSettlement
Intake == INSTANCE JobIntake
Scan == INSTANCE Scanner

ASSUME ProcessAssumption == Settlement!ConstantsOK /\ Scan!ConstantsOK

\* What a job costs, what the orchestrator remembers of its jobs, and what the
\* scanner has published: see the modules.
SettledOnce == Settlement!SettledOnce
RecordsMatchChain == Intake!RecordsMatchChain
ScannedOnce == Scan!ScannedOnce
=============================================================================
