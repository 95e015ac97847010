-------------------------- MODULE DashboardProcess --------------------------
(* The dashboard's event feed as a process of its own: with constants and     *)
(* variables declared, it can be checked next to other clients of the chain   *)
(* and proved about.                                                          *)

CONSTANTS Histories, Polls, MaxServices, Backfill, FetchSize, MaxErrors

VARIABLES story, height, strict, log, service, lastProcessedBlock, inFlight, heard, poll,
          shown, covered, lost, stale, errors

feedVars == <<story, height, strict, log, service, lastProcessedBlock, inFlight, heard,
              poll, shown, covered, lost, stale, errors>>

Feed == INSTANCE DashboardFeed

ASSUME FeedAssumption == Feed!ConstantsOK

\* What the store shows of the chain: see the module.
ShowsChain == Feed!ShowsChain
=============================================================================
