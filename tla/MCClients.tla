----------------------------- MODULE MCClients -----------------------------
(* Clients of the chain that share no state, checked side by side: a          *)
(* behaviour runs one of them, and the others stay where they begin, where    *)
(* nothing is pending.  The write queue has two high and two normal callers.  *)
EXTENDS WriteQueue, DashboardProcess

CONSTANTS h1, h2, n1, n2
CONSTANTS MaxCrashes

VARIABLES part
VARIABLES chain, mined, file, known, indexed, cursor, saved, at, polled, batch, step,
          minted, forgotten, crashes

mirrorVars == <<chain, mined, file, known, indexed, cursor, saved, at, polled, batch, step,
                minted, forgotten, crashes>>

\* What the contracts may emit while the dashboard looks on.
FeedHistories ==
    {<<"WinnersSelected", "JobSettled", "SlashInitiated">>,
     <<"JobPosted", "BidSubmitted", "JobCancelled">>,
     <<"SubAuctionCreated", "SubContractorSelected", "ResultAccepted">>}

\* And what AuditAuction may emit for a job with an iNFT.
Stories ==
    {<<"JobPosted", "BidSubmitted", "WinnersSelected", "JobCompleted">>,
     <<"JobPosted", "BidSubmitted", "JobCancelled">>}

Mirror == INSTANCE InftMirror WITH story <- chain, lost <- forgotten

Runs(p) == part = p /\ UNCHANGED part

ClientsInit ==
    /\ part \in {"queue", "feed", "mirror"}
    /\ Init /\ (part # "queue" => fastPath)
    /\ Feed!Init /\ (part # "feed" => strict /\ story[1] = "JobPosted")
    /\ Mirror!Init /\ (part # "mirror" => minted.state = "none" /\ Len(chain) = 3)

ClientsNext ==
    \/ Runs("queue") /\ Next /\ UNCHANGED <<feedVars, mirrorVars>>
    \/ Runs("feed") /\ Feed!Next /\ UNCHANGED <<vars, mirrorVars>>
    \/ Runs("mirror") /\ Mirror!Next /\ UNCHANGED <<vars, feedVars>>

\* What is fair in each: sends settle, timers never rest.
Clients ==
    /\ ClientsInit
    /\ [][ClientsNext]_<<part, vars, feedVars, mirrorVars>>
    /\ Fairness
    /\ \A p \in Polls : WF_feedVars(part = "feed" /\ Feed!Polling(p))
    /\ WF_mirrorVars(part = "mirror" /\ Mirror!Listen)

\* The properties of the clients, by their own names.
KeepsUp == part = "feed" => Feed!KeepsUp
Mirrored == Mirror!Mirrored
=============================================================================
