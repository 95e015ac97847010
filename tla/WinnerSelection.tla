--------------------------- MODULE WinnerSelection ---------------------------
(***************************************************************************)
(* The orchestrator closes one auction: timers, the reconcile loop and     *)
(* published reports ask for winner selection, which reads the chain,      *)
(* decides, and sends selectWinners or cancelJob.                          *)
(*                                                                         *)
(* The process is single-threaded, but every read of the chain and every   *)
(* transaction is awaited, so the calls below run interleaved: an action   *)
(* is the code between two awaits.  Reads fail, receipts get lost after    *)
(* the transaction was sent, and the process restarts with an empty        *)
(* memory.  Block time and the orchestrator's clock agree.                 *)
(***************************************************************************)
EXTENDS Integers, Sequences, FiniteSets, SequencesExt

CONSTANTS
    Agents,         \* wallets that bid
    Score,          \* the agents' bid scores
    Calls,          \* slots for the calls in flight
    None,           \* no call, no agent
    MaxAttempts,    \* maxAttempts of both send loops
    MaxFailures,    \* bound on failed reads and lost receipts
    MaxCrashes,     \* bound on restarts
    Rehydrate       \* ORCHESTRATOR_REHYDRATE_MISSING_JOB_FOR_SELECTION

ASSUME SlotsAssumption == None \notin Calls /\ None \notin Agents

ASSUME BoundsAssumption ==
    /\ Score \in [Agents -> Nat]
    /\ MaxAttempts \in Nat \ {0}
    /\ MaxFailures \in Nat
    /\ MaxCrashes \in Nat
    /\ Rehydrate \in BOOLEAN

VARIABLES
    \* the chain
    status,         \* of the auction
    bids,           \* in order of submission
    winner,         \* the agent selectWinners accepted
    expired,        \* the deadline has passed
    pool,           \* the operator's transactions not mined yet, in nonce order
    \* the orchestrator's memory
    job,            \* its entry in jobs
    timer,          \* winnerSelectionTimers has the job
    call,           \* the calls in flight
    selecting,      \* inflightSelectWinnerJobs
    closing,        \* inflightCloseJobs
    reconciling,    \* _isReconcileRunning, with the call it stands for
    booting,        \* bootstrapWinnerSelectionFromActiveJobs is still to run
    \* the world
    announced,      \* agents named in WINNER_SELECTED messages
    failures, crashes

chain == <<status, bids, winner, expired, pool>>
locks == <<selecting, closing, reconciling>>
memory == <<job, timer, call, locks, booting>>
vars == <<chain, memory, announced, failures, crashes>>

-----------------------------------------------------------------------------

\* AUDITING stands for every status an auction has after selectWinners.
Statuses == {"OPEN", "AUDITING", "CANCELLED"}

Tx == [call : Calls \cup {None}, kind : {"select", "cancel"}, index : Nat]

\* bidders is in order of arrival, which a read of the chain replaces by the
\* order on chain; dated says that the entry holds the deadline.
Job == [known : BOOLEAN, dated : BOOLEAN, bidders : Seq(Agents), winner : Agents \cup {None},
        terminal : BOOLEAN, cancelled : BOOLEAN, published : BOOLEAN]

NoJob == [known |-> FALSE, dated |-> FALSE, bidders |-> <<>>, winner |-> None,
          terminal |-> FALSE, cancelled |-> FALSE, published |-> FALSE]

\* An entry that holds what the chain knows of the auction.
Hydrated(j) == [j EXCEPT !.known = TRUE, !.dated = TRUE]

\* Where a call awaits.
SelectPoints == {"hydrate", "precheck", "bids", "select", "selectSent",
                 "selectMined", "selectReverted"}
ClosePoints == {"cancel", "cancelSent", "cancelMined", "cancelReverted"}
RequestPoints == {"readJob", "readCount", "readHinted"}
ReconcilePoints == {"inspect", "inspectCount"}
Points == SelectPoints \cup ClosePoints \cup RequestPoints \cup ReconcilePoints
          \cup {"idle", "joinClose"}

\* seen: the status a request read, with late saying that the deadline had
\* passed then; pick and index: the winner of a selection and the bid it names.
Call == [at : Points, late : BOOLEAN, seen : Statuses \cup {"UNKNOWN"},
         pick : Agents \cup {None}, index : Nat, attempt : 0..MaxAttempts]

Idle == [at |-> "idle", late |-> FALSE, seen |-> "UNKNOWN",
         pick |-> None, index |-> 0, attempt |-> 0]

Begun(point) == [Idle EXCEPT !.at = point]

At(c, point) == call[c].at = point
Move(c, point) == call' = [call EXCEPT ![c].at = point]

\* One more read or receipt is lost.
Fail == failures < MaxFailures /\ failures' = failures + 1

(***************************************************************************)
(* Faulty variants, one plausible slip each; no specification uses them.   *)
(***************************************************************************)
SelectAgain(c) == c = c                     \* forgets the single flight
CloseAgain(c) == c = c
AnyErrorIsTerminal(error) == error = error  \* takes every failed cancel for "too late"
FirstIndex(list) == 1                       \* forgets the ranking
KeepsLock(lock, c) == lock                  \* forgets to leave the single flight

-----------------------------------------------------------------------------

\* The first of the highest scores (the sort is stable).
BestIndex(list) ==
    CHOOSE i \in DOMAIN list :
      /\ \A k \in DOMAIN list : Score[list[k]] <= Score[list[i]]
      /\ \A k \in 1..(i - 1) : Score[list[k]] < Score[list[i]]

-----------------------------------------------------------------------------
(***************************************************************************)
(* Calls: how they begin and end.                                          *)
(***************************************************************************)

Unlocked(lock, c) == IF lock = c THEN None ELSE lock

\* The call returns; its single-flight entries are removed.
Return(c) ==
    /\ call' = [call EXCEPT ![c] = Idle]
    /\ selecting' = Unlocked(selecting, c)
    /\ closing' = Unlocked(closing, c)
    /\ reconciling' = Unlocked(reconciling, c)

MaySelect(c) == selecting = None
MayClose(c) == closing = None

\* selectWinnersOnChain, up to its first await.
BeginSelect(c) ==
    IF ~MaySelect(c) \/ (~job.known /\ ~Rehydrate)
    THEN /\ Return(c)
         /\ timer' = (timer /\ ~MaySelect(c))
         /\ UNCHANGED job
    ELSE /\ Move(c, IF job.known THEN "precheck" ELSE "hydrate")
         /\ selecting' = c
         /\ timer' = FALSE
         /\ UNCHANGED <<job, closing, reconciling>>

\* closeExpiredAuction, up to its first await.
BeginClose(c) ==
    /\ job' = [job EXCEPT !.known = TRUE]
    /\ UNCHANGED timer
    /\ IF job.cancelled THEN Return(c)
       ELSE IF ~MayClose(c) THEN Move(c, "joinClose") /\ UNCHANGED locks
       ELSE /\ call' = [call EXCEPT ![c].at = "cancel", ![c].attempt = 1]
            /\ closing' = c
            /\ UNCHANGED <<selecting, reconciling>>

-----------------------------------------------------------------------------
(***************************************************************************)
(* requestWinnerSelection and evaluateWinnerSelectionReadiness.            *)
(***************************************************************************)

ReadJob(c) ==
    /\ At(c, "readJob")
    /\ \/ /\ call' = [call EXCEPT ![c].at = "readCount", ![c].seen = status, ![c].late = expired]
          /\ UNCHANGED <<locks, failures>>
       \/ /\ Fail
          /\ IF ~job.known THEN Return(c)
             ELSE /\ call' = [call EXCEPT ![c].at = "readCount", ![c].late = expired /\ job.dated]
                  /\ UNCHANGED locks
    /\ UNCHANGED <<chain, job, timer, booting, announced, crashes>>

\* The auction was open, as far as the request knows, and past its deadline.
Closable(c) == call[c].seen \in {"OPEN", "UNKNOWN"} /\ call[c].late

\* The auction still had time left.
Early(c) ==
    /\ ~call[c].late
    /\ call[c].seen = "OPEN" \/ (call[c].seen = "UNKNOWN" /\ job.dated)

\* With bids it is time to select, without to cancel; an early request sets
\* the timer again.
Decide(c, count) ==
    IF Closable(c) THEN IF count > 0 THEN BeginSelect(c) ELSE BeginClose(c)
    ELSE /\ Return(c)
         /\ timer' = (timer \/ Early(c))
         /\ job' = [job EXCEPT !.dated = @ \/ (job.known /\ Early(c))]

BidCount == Len(bids)

\* A failed read of the bid count counts as no bids.
ReadCount(c) ==
    /\ At(c, "readCount")
    /\ \/ Decide(c, BidCount) /\ UNCHANGED failures
       \/ Fail /\ Decide(c, 0)
    /\ UNCHANGED <<chain, booting, announced, crashes>>

\* A request of the reconcile loop brings status, deadline and bid count
\* along; the job it reads all the same only tells that there is one.
ReadHinted(c) ==
    /\ At(c, "readHinted")
    /\ \/ BeginSelect(c) /\ UNCHANGED failures
       \/ /\ Fail
          /\ IF job.known THEN BeginSelect(c) ELSE Return(c) /\ UNCHANGED <<job, timer>>
    /\ UNCHANGED <<chain, booting, announced, crashes>>

-----------------------------------------------------------------------------
(***************************************************************************)
(* selectWinnersOnChain.                                                   *)
(***************************************************************************)

\* hydrateJobForSelection.  Two reads: without the first there is no job,
\* without the second there is one without bidders.
Hydrate(c) ==
    /\ At(c, "hydrate")
    /\ \/ /\ status = "OPEN"
          /\ \/ job' = [Hydrated(NoJob) EXCEPT !.bidders = bids] /\ UNCHANGED failures
             \/ job' = Hydrated(NoJob) /\ Fail
          /\ Move(c, "precheck")
          /\ UNCHANGED locks
       \/ /\ \/ status # "OPEN" /\ UNCHANGED failures
             \/ Fail
          /\ Return(c)
          /\ UNCHANGED job
    /\ UNCHANGED <<chain, timer, booting, announced, crashes>>

Precheck(c) ==
    /\ At(c, "precheck")
    /\ \/ /\ status = "OPEN"
          /\ Move(c, "bids")
          /\ UNCHANGED <<locks, failures>>
       \/ /\ \/ status # "OPEN" /\ UNCHANGED failures
             \/ Fail
          /\ Return(c)
    /\ UNCHANGED <<chain, job, timer, booting, announced, crashes>>

\* Reads the bids, or makes do with the bidders it heard of, ranks them, and
\* remembers the winner before anything is sent.  The list is empty only when
\* the read failed: bids are never withdrawn, and the request counted some.
ReadBids(c) ==
    /\ At(c, "bids")
    /\ \E list \in {bids, job.bidders} :
         /\ \/ list = bids /\ UNCHANGED failures
            \/ list = job.bidders /\ Fail
         /\ IF list = <<>>
            THEN Return(c) /\ job' = [job EXCEPT !.bidders = list]
            ELSE /\ job' = [job EXCEPT !.bidders = list, !.winner = list[BestIndex(list)]]
                 /\ call' = [call EXCEPT ![c].at = "select", ![c].attempt = 1,
                                         ![c].pick = list[BestIndex(list)],
                                         ![c].index = BestIndex(list)]
                 /\ UNCHANGED locks
    /\ UNCHANGED <<chain, timer, booting, announced, crashes>>

\* Sending fails at once when the call would revert (gas estimation).
SendSelect(c) ==
    /\ At(c, "select")
    /\ \/ /\ status = "OPEN"
          /\ pool' = Append(pool, [call |-> c, kind |-> "select", index |-> call[c].index])
          /\ Move(c, "selectSent")
          /\ UNCHANGED locks
       \/ /\ status # "OPEN"
          /\ Return(c)
          /\ UNCHANGED pool
    /\ UNCHANGED <<status, bids, winner, expired, job, timer, booting,
                   announced, failures, crashes>>

AttemptsLeft(c) == call[c].attempt < MaxAttempts

\* A send loop goes on after a transient error while it has attempts left.
\* An error that is not transient ends it at once.
Retry(c, point) ==
    \/ /\ AttemptsLeft(c)
       /\ call' = [call EXCEPT ![c].at = point, ![c].attempt = @ + 1]
       /\ UNCHANGED locks
    \/ Return(c)

Orphaned(p, calls) == [i \in DOMAIN p |-> IF p[i].call \in calls THEN [p[i] EXCEPT !.call = None]
                                          ELSE p[i]]

\* A send or the wait for its receipt fails; what was sent stays sent.
SelectTransient(c) ==
    /\ call[c].at \in {"select", "selectSent", "selectMined", "selectReverted"}
    /\ Fail
    /\ Retry(c, "select")
    /\ pool' = Orphaned(pool, {c})
    /\ UNCHANGED <<status, bids, winner, expired, job, timer, booting, announced, crashes>>

\* The receipt of a selection that succeeded is in.
Mined(c) == At(c, "selectMined")

SelectReceipt(c) ==
    /\ \/ Mined(c) /\ announced' = announced \cup {call[c].pick}
       \/ At(c, "selectReverted") /\ UNCHANGED announced
    /\ Return(c)
    /\ UNCHANGED <<chain, job, timer, booting, failures, crashes>>

-----------------------------------------------------------------------------
(***************************************************************************)
(* closeExpiredAuction.                                                    *)
(***************************************************************************)

Terminated(j) == [j EXCEPT !.terminal = TRUE, !.cancelled = TRUE]

\* isAuctionTerminalError: the reason of a revert is known when gas is
\* estimated; a transaction that reverts once mined names none.
TerminalError(error) == error = "reason"

\* Giving up leaves the job as it was.
CancelFails(c, error) ==
    IF TerminalError(error) THEN /\ job' = Terminated(job)
                                 /\ timer' = FALSE
                                 /\ Return(c)
    ELSE /\ UNCHANGED <<job, timer>>
         /\ IF error = "transient" THEN Retry(c, "cancel") ELSE Return(c)

SendCancel(c) ==
    /\ At(c, "cancel")
    /\ \/ /\ status = "OPEN"
          /\ pool' = Append(pool, [call |-> c, kind |-> "cancel", index |-> 0])
          /\ Move(c, "cancelSent")
          /\ UNCHANGED <<job, timer, locks>>
       \/ /\ status # "OPEN"
          /\ CancelFails(c, "reason")
          /\ UNCHANGED pool
    /\ UNCHANGED <<status, bids, winner, expired, booting, announced, failures, crashes>>

CancelTransient(c) ==
    /\ call[c].at \in ClosePoints
    /\ Fail
    /\ CancelFails(c, "transient")
    /\ pool' = Orphaned(pool, {c})
    /\ UNCHANGED <<status, bids, winner, expired, booting, announced, crashes>>

CancelReceipt(c) ==
    /\ \/ At(c, "cancelMined") /\ job' = Terminated(job) /\ timer' = FALSE /\ Return(c)
       \/ At(c, "cancelReverted") /\ CancelFails(c, "reverted")
    /\ UNCHANGED <<chain, booting, announced, failures, crashes>>

JoinClose(c) ==
    /\ At(c, "joinClose")
    /\ closing = None
    /\ Return(c)
    /\ UNCHANGED <<chain, job, timer, booting, announced, failures, crashes>>

-----------------------------------------------------------------------------
(***************************************************************************)
(* What starts the calls.                                                  *)
(***************************************************************************)

TimerFires(c) ==
    /\ timer /\ expired
    /\ At(c, "idle")
    /\ timer' = FALSE
    /\ call' = [call EXCEPT ![c] = Begun("readJob")]
    /\ UNCHANGED <<chain, job, locks, booting, announced, failures, crashes>>

\* handleReportPublished, up to its request: a job without winners asks the
\* chain for them first.
ReportPublished(c) ==
    /\ ~job.published
    /\ At(c, "idle")
    /\ \E w \in {job.winner, winner} :
         /\ \/ w = winner /\ job.winner = None /\ UNCHANGED failures
            \/ w = job.winner /\ job.winner # None /\ UNCHANGED failures
            \/ w = job.winner /\ job.winner = None /\ Fail
         /\ job' = [job EXCEPT !.known = TRUE, !.published = TRUE, !.winner = w]
         /\ IF w = None THEN call' = [call EXCEPT ![c] = Begun("readJob")] ELSE UNCHANGED call
    /\ UNCHANGED <<chain, timer, locks, booting, announced, crashes>>

\* The reconcile loop comes to the job, unless it is marked terminal.
ReconcileStarts(c) ==
    /\ reconciling = None
    /\ ~job.terminal /\ ~job.cancelled
    /\ At(c, "idle")
    /\ reconciling' = c
    /\ call' = [call EXCEPT ![c] = Begun("inspect")]
    /\ UNCHANGED <<chain, job, timer, selecting, closing, booting, announced, failures, crashes>>

Inspect(c) ==
    /\ At(c, "inspect")
    /\ \/ /\ status = "OPEN" /\ expired
          /\ Move(c, "inspectCount")
          /\ UNCHANGED <<job, locks, failures>>
       \/ /\ status # "OPEN"
          /\ job' = [job EXCEPT !.terminal = job.known]
          /\ Return(c)
          /\ UNCHANGED failures
       \/ /\ \/ ~expired /\ UNCHANGED failures
             \/ Fail
          /\ Return(c)
          /\ UNCHANGED job
    /\ UNCHANGED <<chain, timer, booting, announced, crashes>>

\* The request is not awaited, the cancellation is.
InspectCount(c) ==
    /\ At(c, "inspectCount")
    /\ \/ /\ BidCount > 0
          /\ \E d \in Calls \ {c} :
               /\ At(d, "idle")
               /\ call' = [call EXCEPT ![c] = Idle, ![d] = Begun("readHinted")]
          /\ reconciling' = None
          /\ UNCHANGED <<job, timer, selecting, closing, failures>>
       \/ BidCount = 0 /\ BeginClose(c) /\ UNCHANGED failures
       \/ Fail /\ Return(c) /\ UNCHANGED <<job, timer>>
    /\ UNCHANGED <<chain, booting, announced, crashes>>

\* A restarted orchestrator tracks the auctions that still have time left.
Bootstrap ==
    /\ booting
    /\ booting' = FALSE
    /\ \/ /\ status = "OPEN" /\ ~expired
          /\ job' = Hydrated(job)
          /\ timer' = TRUE
          /\ UNCHANGED failures
       \/ /\ \/ (status # "OPEN" \/ expired) /\ UNCHANGED failures
             \/ Fail
          /\ UNCHANGED <<job, timer>>
    /\ UNCHANGED <<chain, call, locks, announced, crashes>>

\* An agent's BID_SUBMITTED message, published when its transaction is sent:
\* the bid may be on chain later, or never.
HandleBidSubmitted(a) ==
    /\ a \notin ToSet(job.bidders)
    /\ job.known /\ ~job.cancelled /\ ~job.terminal /\ ~job.published
    /\ job' = [job EXCEPT !.bidders = Append(@, a)]
    /\ UNCHANGED <<chain, timer, call, locks, booting, announced, failures, crashes>>

WinnersSelectedEvent ==
    /\ status = "AUDITING"
    /\ timer' = FALSE
    /\ IF job.known THEN /\ job' = [job EXCEPT !.winner = winner]
                         /\ announced' = announced \cup {winner}
       ELSE UNCHANGED <<job, announced>>
    /\ UNCHANGED <<chain, call, locks, booting, failures, crashes>>

JobCancelledEvent ==
    /\ status = "CANCELLED"
    /\ timer' = FALSE
    /\ job' = IF job.known THEN Terminated(job) ELSE job
    /\ UNCHANGED <<chain, call, locks, booting, announced, failures, crashes>>

-----------------------------------------------------------------------------
(***************************************************************************)
(* The chain and the process.                                              *)
(***************************************************************************)

SubmitBid(a) ==
    /\ status = "OPEN" /\ ~expired
    /\ a \notin ToSet(bids)
    /\ bids' = Append(bids, a)
    /\ UNCHANGED <<status, winner, expired, pool, memory, announced, failures, crashes>>

Expire ==
    /\ ~expired
    /\ expired' = TRUE
    /\ UNCHANGED <<status, bids, winner, pool, memory, announced, failures, crashes>>

Succeeds(tx) == status = "OPEN" /\ (tx.kind = "select" => tx.index \in DOMAIN bids)

\* What the wait for a receipt comes to.
Outcome(kind, ok) ==
    IF kind = "select" THEN IF ok THEN "selectMined" ELSE "selectReverted"
                       ELSE IF ok THEN "cancelMined" ELSE "cancelReverted"

\* The operator's next transaction is mined.
Mine ==
    /\ pool # <<>>
    /\ LET tx == Head(pool)
           ok == Succeeds(tx)
       IN /\ status' = IF ~ok THEN status
                       ELSE IF tx.kind = "select" THEN "AUDITING" ELSE "CANCELLED"
          /\ winner' = IF ok /\ tx.kind = "select" THEN bids[tx.index] ELSE winner
          /\ call' = IF tx.call = None THEN call
                     ELSE [call EXCEPT ![tx.call].at = Outcome(tx.kind, ok)]
    /\ pool' = Tail(pool)
    /\ UNCHANGED <<bids, expired, job, timer, locks, booting, announced, failures, crashes>>

\* The process dies and starts again; what it sent is still on its way.
Crash ==
    /\ crashes < MaxCrashes
    /\ crashes' = crashes + 1
    /\ job' = NoJob /\ timer' = FALSE
    /\ call' = [c \in Calls |-> Idle]
    /\ selecting' = None /\ closing' = None /\ reconciling' = None
    /\ booting' = TRUE
    /\ pool' = Orphaned(pool, Calls)
    /\ UNCHANGED <<status, bids, winner, expired, announced, failures>>

-----------------------------------------------------------------------------

\* handleDiscovery has posted the job, tracks it and set its timer.
Init ==
    /\ status = "OPEN" /\ bids = <<>> /\ winner = None /\ expired = FALSE /\ pool = <<>>
    /\ job = Hydrated(NoJob) /\ timer = TRUE
    /\ call = [c \in Calls |-> Idle]
    /\ selecting = None /\ closing = None /\ reconciling = None
    /\ booting = FALSE
    /\ announced = {} /\ failures = 0 /\ crashes = 0

\* A call goes on from where it awaits.
Continue(c) ==
    \/ ReadJob(c) \/ ReadCount(c) \/ ReadHinted(c)
    \/ Hydrate(c) \/ Precheck(c) \/ ReadBids(c)
    \/ SendSelect(c) \/ SelectTransient(c) \/ SelectReceipt(c)
    \/ SendCancel(c) \/ CancelTransient(c) \/ CancelReceipt(c) \/ JoinClose(c)
    \/ Inspect(c) \/ InspectCount(c)

Next ==
    \/ \E c \in Calls :
         Continue(c) \/ TimerFires(c) \/ ReportPublished(c) \/ ReconcileStarts(c)
    \/ \E a \in Agents : HandleBidSubmitted(a) \/ SubmitBid(a)
    \/ Bootstrap \/ WinnersSelectedEvent \/ JobCancelledEvent
    \/ Expire \/ Mine \/ Crash

Spec == Init /\ [][Next]_vars

\* Awaited promises settle, transactions are mined, and the reconcile loop,
\* an interval timer, keeps running.
Fairness ==
    /\ \A c \in Calls : WF_vars(Continue(c))
    /\ WF_vars(Mine)
    /\ WF_vars(\E c \in Calls : ReconcileStarts(c))

FairSpec == Spec /\ Fairness

-----------------------------------------------------------------------------
(***************************************************************************)
(* Properties.                                                             *)
(***************************************************************************)

\* Only one selection and one cancellation of the job run at a time, whatever
\* timers, reports and the reconcile loop ask for (inflightSelectWinnerJobs,
\* inflightCloseJobs).
SingleFlight ==
    \A c \in Calls :
      /\ call[c].at \in SelectPoints => selecting = c
      /\ call[c].at \in ClosePoints => closing = c

\* A job marked terminal is really over on chain: the reconcile loop and the
\* bid handler never turn away from an open auction.
TerminalIsFinal == (job.terminal \/ job.cancelled) => status # "OPEN"

\* While the reads succeed, the highest score among all bids on chain wins,
\* though it is computed from a list that bids and messages keep changing;
\* WINNER_SELECTED names the agent the chain selected, and nobody before that;
\* and a cancelled auction had no bids, as the reason code of the cancellation
\* says (orchestrator.js:494, "_no_bids_before_deadline"): the count that was
\* read is not out of date when cancelJob is mined.
BestBidWins ==
    failures = 0 =>
       /\ status = "AUDITING" => \A i \in DOMAIN bids : Score[bids[i]] <= Score[winner]
       /\ announced \subseteq {winner} \ {None}
       /\ status = "CANCELLED" => bids = <<>>

\* Every auction past its deadline ends, with a winner or cancelled, in spite
\* of failed reads, lost receipts and restarts.
ExpiredAuctionEnds == expired ~> status # "OPEN"
=============================================================================
