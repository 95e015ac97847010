---------------------------- MODULE AgentBidding ----------------------------
(***************************************************************************)
(* An auditing agent from an invitation to an audit: the lock of a job,    *)
(* the checks before a bid, the queue that submits one bid at a time, the  *)
(* retries of a submission whose fate is unknown, and the events that end  *)
(* an auction.  The static-analysis, fuzzer and LLM agents run the same    *)
(* code, each from a file of its own.                                      *)
(*                                                                         *)
(* The process is single-threaded: an action is the code from one await    *)
(* to the next, with the microtasks it releases.                           *)
(***************************************************************************)
EXTENDS Integers, Sequences, FiniteSets, SequencesExt

CONSTANTS
    Jobs,           \* auctions the agent is invited to
    Calls,          \* handlers of an AUCTION_INVITE that may be in flight
    None,           \* no job, no predecessor
    MaxAttempts,    \* maxAttempts of a submission
    \* bounds
    MaxFaults,      \* reads, publications and submissions that fail
    MaxCrashes      \* restarts of the process

ASSUME BiddingAssumption ==
    /\ MaxAttempts \in Nat \ {0} /\ MaxFaults \in Nat /\ MaxCrashes \in Nat
    /\ None \notin Jobs \cup Calls

VARIABLES
    kind,           \* which of the three agents this process is
    up,             \* the preflight checks have passed and the agent listens
    memory,         \* pendingJobs, bidSubmittedJobs, bidInFlightJobs
    lock,           \* JobLockManager.locks: the last caller of each job
    queue,          \* bidQueue
    draining,       \* bidQueueInFlight
    call,           \* where each handler awaits
    audits,         \* history: audit cycles begun for each job, up to two
    heard,          \* history: jobs whose award to this agent it was told of
    overlapped,     \* history: jobs that two handlers were submitting at once
    \* the chain
    status,         \* of each auction; "closing" is within the safety margin
    pool,           \* jobs with a bid of this agent broadcast and not mined
    bids,           \* jobs with a bid of this agent on chain
    faults, crashes \* bounds

chain == <<status, pool, bids>>
fixed == <<kind, up>>
history == <<audits, heard, overlapped>>
vars == <<fixed, memory, lock, queue, draining, call, history, chain, faults, crashes>>

-----------------------------------------------------------------------------

Kinds == {"static", "fuzzer", "llm"}
Idle == [pc |-> "idle", job |-> None, behind |-> None, attempt |-> 0, unsure |-> FALSE]
NoMemory == [pending |-> {}, submitted |-> {}, inFlight |-> {}]

\* Steps of a task the queue runs.
Executing == {"window", "asking", "scouting", "sending", "awaiting", "recheck", "late"}
\* Steps between the in-flight mark and its removal.
Marked == Executing \cup {"preflight", "queued", "announcing", "failing"}

ExecutingCalls == {c \in Calls : call[c].pc \in Executing}

(***************************************************************************)
(* Faulty variants, one plausible slip each; no specification uses them.   *)
(***************************************************************************)
KnownAsPending(m, j) ==                     \* an existing bid counts as a new one
    [m EXCEPT !.submitted = @ \cup {j}, !.pending = @ \cup {j}]
NobodyBehind(c) == {}                       \* the lock is released to nobody

-----------------------------------------------------------------------------
\* What the steps make of the memory.

\* bidInFlightJobs.delete in the finally clause of a submission.
Unmarked(m, j) == [m EXCEPT !.inFlight = @ \ {j}]

\* The error handler of the subscription.
CleanedUp(m, j) == [m EXCEPT !.inFlight = @ \ {j}, !.pending = @ \ {j}]

\* A bid of this agent was found on chain.
Known(m, j) == [m EXCEPT !.submitted = @ \cup {j}]

\* A bid was submitted.
Recorded(m, j) == [m EXCEPT !.submitted = @ \cup {j}, !.pending = @ \cup {j}]

\* An auction has ended.
Cleared(m, j) == [m EXCEPT !.submitted = @ \ {j}, !.pending = @ \ {j}]

\* The first steps under the lock, for an invitation to j: a duplicate or an
\* uninteresting one leaves, the bid policy skips, or a submission begins.
Admissions(m, j) ==
    IF j \in m.submitted \cup m.pending \cup m.inFlight
    THEN {"leaving"} ELSE {"leaving", "skipping", "preflight"}

Admitted(m, j, pc) == IF pc = "preflight" THEN [m EXCEPT !.inFlight = @ \cup {j}] ELSE m

\* The handler whose lock is released next.
Behind(c) == {d \in Calls : call[d].pc = "waiting" /\ call[d].behind = c}

\* withLock is left with memory m: the promise is resolved and the map's entry
\* deleted, whoever it belongs to; the next handler runs its first steps, and
\* only then does an error of this one reach the subscription's handler.
Left(c, m, failed) ==
    LET j == call[c].job
        unlocked == [lock EXCEPT ![j] = None]
        Cleanup(n) == IF failed THEN CleanedUp(n, j) ELSE n
    IN IF Behind(c) = {}
       THEN {[memory |-> Cleanup(m), lock |-> unlocked, call |-> [call EXCEPT ![c] = Idle]]}
       ELSE {[memory |-> Cleanup(Admitted(m, j, pc)), lock |-> unlocked,
              call |-> [e \in Calls |->
                  IF e = c THEN Idle
                  ELSE IF e \in Behind(c) THEN [call[e] EXCEPT !.pc = pc, !.behind = None]
                  ELSE call[e]]] : pc \in Admissions(m, j)}

\* The drain loop takes the next task, if there is one.
DrainOn(calls) ==
    IF queue = <<>>
    THEN /\ draining' = FALSE
         /\ call' = calls
         /\ UNCHANGED queue
    ELSE /\ queue' = Tail(queue)
         /\ call' = [calls EXCEPT ![Head(queue)].pc = "window"]
         /\ UNCHANGED draining

\* The history, when the handlers are where calls says.
Overlaps(calls) == overlapped \cup
    {j \in Jobs : \E c, d \in Calls : /\ c # d /\ calls[c].pc \in Marked /\ calls[d].pc \in Marked
                                     /\ calls[c].job = j /\ calls[d].job = j}

\* The handler leaves; the queue is not concerned.
Leave(c, m, failed) ==
    /\ \E s \in Left(c, m, failed) :
           memory' = s.memory /\ lock' = s.lock /\ call' = s.call /\ overlapped' = Overlaps(s.call)
    /\ UNCHANGED <<fixed, queue, draining, audits, heard, chain>>

\* The task of c ends without a submission of its own, and its handler leaves.
EndsTask(c, m) ==
    /\ \E s \in Left(c, Unmarked(m, call[c].job), FALSE) :
           memory' = s.memory /\ lock' = s.lock /\ DrainOn(s.call) /\ overlapped' = Overlaps(s.call)
    /\ UNCHANGED <<fixed, audits, heard, chain>>

\* The task of c is rejected: its handler is in the catch clause.
RejectsTask(c) ==
    /\ DrainOn([call EXCEPT ![c].pc = "failing"])
    /\ UNCHANGED <<fixed, memory, lock, history, chain>>

Goto(c, pc) ==
    /\ call' = [call EXCEPT ![c].pc = pc]
    /\ UNCHANGED <<fixed, memory, lock, queue, draining, history>>

Fault == faults < MaxFaults /\ faults' = faults + 1 /\ UNCHANGED crashes
NoFault == UNCHANGED <<faults, crashes>>

\* getBidWindowSnapshot.  When the chain cannot be read, the deadline of the
\* invitation decides, if it has one.
WindowPasses(j) == IF status[j] = "open" THEN NoFault ELSE Fault
WindowFails(j) == status[j] # "open" /\ NoFault

-----------------------------------------------------------------------------
\* Start and end of the process.

\* The checks of active status, HBAR, collateral and allowance have passed,
\* or NO_FALLBACK_MODE is off; else the process exits and is started again.
Starts ==
    /\ ~up /\ up' = TRUE
    /\ NoFault
    /\ UNCHANGED <<kind, memory, lock, queue, draining, call, history, chain>>

\* A crash or restart: the memory is lost, what was broadcast is not.
Crash ==
    /\ up /\ crashes < MaxCrashes
    /\ up' = FALSE /\ crashes' = crashes + 1
    /\ memory' = NoMemory /\ lock' = [j \in Jobs |-> None]
    /\ queue' = <<>> /\ draining' = FALSE
    /\ call' = [c \in Calls |-> Idle]
    /\ UNCHANGED <<kind, history, chain, faults>>

-----------------------------------------------------------------------------
\* The handler of an AUCTION_INVITE that names this agent.

\* withLock is entered: at once, or behind the caller the map holds.
Invite(c, j) ==
    /\ up /\ call[c].pc = "idle"
    /\ lock' = [lock EXCEPT ![j] = c]
    /\ IF lock[j] = None
       THEN \E pc \in Admissions(memory, j) :
                /\ memory' = Admitted(memory, j, pc)
                /\ call' = [call EXCEPT ![c] = [Idle EXCEPT !.pc = pc, !.job = j]]
       ELSE /\ call' = [call EXCEPT ![c] = [Idle EXCEPT !.pc = "waiting", !.job = j, !.behind = lock[j]]]
            /\ UNCHANGED memory
    /\ overlapped' = Overlaps(call')
    /\ NoFault
    /\ UNCHANGED <<fixed, queue, draining, audits, heard, chain>>

\* A duplicate invitation, or one of no interest.
Leaving(c) == call[c].pc = "leaving" /\ Leave(c, memory, FALSE) /\ NoFault

\* BID_SKIPPED of the bid policy is published, outside the try block.
Skipping(c) ==
    /\ call[c].pc = "skipping"
    /\ \/ Leave(c, memory, FALSE) /\ NoFault
       \/ Leave(c, memory, TRUE) /\ Fault

\* A drain loop runs already.
MustQueue == draining

\* Active status, HBAR, collateral and allowance: the task is queued, a check
\* fails and says so, or a call throws.
Preflight(c) ==
    LET j == call[c].job IN
    /\ call[c].pc = "preflight"
    /\ \/ /\ IF MustQueue
             THEN /\ queue' = Append(queue, c)
                  /\ call' = [call EXCEPT ![c].pc = "queued"]
                  /\ UNCHANGED draining
             ELSE /\ draining' = TRUE
                  /\ call' = [call EXCEPT ![c].pc = "window"]
                  /\ UNCHANGED queue
          /\ NoFault
          /\ UNCHANGED <<fixed, memory, lock, history, chain>>
       \/ Leave(c, Unmarked(memory, j), FALSE) /\ Fault
       \/ Goto(c, "failing") /\ UNCHANGED chain /\ Fault

\* The drain loop looks whether the auction is open before it runs the task.
Window(c) ==
    /\ call[c].pc = "window"
    /\ \/ WindowPasses(call[c].job) /\ Goto(c, "asking") /\ UNCHANGED chain
       \/ WindowFails(call[c].job) /\ EndsTask(c, memory)
       \/ Fault /\ RejectsTask(c)

\* hasAgentBid before the first attempt.
Ask(c) ==
    /\ call[c].pc = "asking"
    /\ \/ call[c].job \in bids /\ EndsTask(c, Known(memory, call[c].job)) /\ NoFault
       \/ call[c].job \notin bids /\ Goto(c, "scouting") /\ UNCHANGED chain /\ NoFault
       \/ Fault /\ RejectsTask(c)

\* The window is read again, then the agent waits for bids of others.
Scout(c) ==
    /\ call[c].pc = "scouting"
    /\ \/ /\ WindowPasses(call[c].job)
          /\ call' = [call EXCEPT ![c].pc = "sending", ![c].attempt = 1]
          /\ UNCHANGED <<fixed, memory, lock, queue, draining, history, chain>>
       \/ WindowFails(call[c].job) /\ EndsTask(c, memory)

\* submitBid: the contract accepts the call when it is estimated, and the
\* transaction is broadcast; or it is a duplicate; or it is refused; or its
\* fate is unknown, before or after the broadcast.
Send(c) ==
    LET j == call[c].job
        Accepted == status[j] \in {"open", "closing"} /\ j \notin bids
        Unsure == call' = [call EXCEPT ![c].pc = "recheck", ![c].unsure = TRUE]
    IN
    /\ call[c].pc = "sending"
    /\ \/ /\ Accepted /\ pool' = pool \cup {j} /\ UNCHANGED <<status, bids>>
          /\ Goto(c, "awaiting") /\ NoFault
       \/ j \in bids /\ EndsTask(c, Known(memory, j)) /\ NoFault
       \/ /\ IF status[j] = "open" THEN Fault ELSE NoFault
          /\ call' = [call EXCEPT ![c].pc = "late", ![c].unsure = FALSE]
          /\ UNCHANGED <<fixed, memory, lock, queue, draining, history, chain>>
       \/ /\ Unsure /\ Fault
          /\ pool' \in {pool, IF Accepted THEN pool \cup {j} ELSE pool}
          /\ UNCHANGED <<fixed, memory, lock, queue, draining, history, status, bids>>

\* The node answers, or the time-out is first.
Answer(c) ==
    LET j == call[c].job IN
    /\ call[c].pc = "awaiting"
    /\ \/ /\ memory' = Recorded(memory, j)
          /\ DrainOn([call EXCEPT ![c].pc = "announcing"])
          /\ NoFault
          /\ UNCHANGED <<fixed, lock, history, chain>>
       \/ /\ call' = [call EXCEPT ![c].pc = "recheck", ![c].unsure = TRUE]
          /\ Fault
          /\ UNCHANGED <<fixed, memory, lock, queue, draining, history, chain>>

\* hasAgentBid after an attempt whose fate is unknown.
Recheck(c) ==
    /\ call[c].pc = "recheck"
    /\ \/ call[c].job \in bids /\ EndsTask(c, Known(memory, call[c].job)) /\ NoFault
       \/ Goto(c, "late") /\ UNCHANGED chain
          /\ IF call[c].job \in bids THEN Fault ELSE NoFault

\* After a failed attempt: the window is read, then the attempt is repeated
\* (a lack of funds having been repaired), or its error is thrown.
Late(c) ==
    LET j == call[c].job
        again == call[c].attempt < MaxAttempts
    IN
    /\ call[c].pc = "late"
    /\ \/ /\ again /\ WindowPasses(j)
          /\ call' = [call EXCEPT ![c].pc = "sending", ![c].attempt = @ + 1]
          /\ UNCHANGED <<fixed, memory, lock, queue, draining, history, chain>>
       \/ ~(again /\ call[c].unsure) /\ WindowPasses(j) /\ RejectsTask(c)
       \/ WindowFails(j) /\ EndsTask(c, memory)
       \/ Fault /\ RejectsTask(c)

\* BID_SUBMITTED is published.
Announce(c) ==
    /\ call[c].pc = "announcing"
    /\ \/ Leave(c, Unmarked(memory, call[c].job), FALSE) /\ NoFault
       \/ Goto(c, "failing") /\ UNCHANGED chain /\ Fault

\* The catch clause reads two balances and publishes the failure.
Failing(c) ==
    /\ call[c].pc = "failing"
    /\ \/ Leave(c, Unmarked(memory, call[c].job), FALSE) /\ NoFault
       \/ Leave(c, Unmarked(memory, call[c].job), TRUE) /\ Fault

-----------------------------------------------------------------------------
\* Events of the auction contract, as they reach the agent.

Ended(j) == status[j] \in {"won", "lost"}

\* WinnersSelected: an audit begins for a winner whose bid is pending.
WinnerEvent(j) ==
    /\ up /\ Ended(j)
    /\ IF status[j] = "won"
       THEN /\ heard' = heard \cup {j} /\ UNCHANGED overlapped
            /\ audits' = IF j \in memory.pending /\ audits[j] < 2
                         THEN [audits EXCEPT ![j] = @ + 1] ELSE audits
       ELSE UNCHANGED history
    /\ memory' = IF j \in memory.pending \cup memory.submitted
                 THEN Cleared(memory, j) ELSE memory
    /\ NoFault
    /\ UNCHANGED <<fixed, lock, queue, draining, call, chain>>

\* JobCancelled.
CancelEvent(j) ==
    /\ up /\ status[j] = "cancelled"
    /\ memory' = Cleared(memory, j)
    /\ NoFault
    /\ UNCHANGED <<fixed, lock, queue, draining, call, history, chain>>

\* The auction contract.
Close(j) ==
    /\ \/ status[j] = "open" /\ status' = [status EXCEPT ![j] = "closing"]
       \/ status[j] = "closing" /\ \E s \in {"lost"} \cup (IF j \in bids THEN {"won"} ELSE {}) :
              status' = [status EXCEPT ![j] = s]
       \/ status[j] \in {"open", "closing"} /\ status' = [status EXCEPT ![j] = "cancelled"]
    /\ NoFault
    /\ UNCHANGED <<fixed, memory, lock, queue, draining, call, history, pool, bids>>

\* A broadcast transaction is mined: it reverts unless the auction still runs
\* and the agent has no bid yet.
Mine(j) ==
    /\ j \in pool /\ pool' = pool \ {j}
    /\ bids' = IF status[j] \in {"open", "closing"} THEN bids \cup {j} ELSE bids
    /\ NoFault
    /\ UNCHANGED <<fixed, memory, lock, queue, draining, call, history, status>>

-----------------------------------------------------------------------------

Init ==
    /\ kind \in Kinds /\ up = FALSE
    /\ memory = NoMemory /\ lock = [j \in Jobs |-> None]
    /\ queue = <<>> /\ draining = FALSE
    /\ call = [c \in Calls |-> Idle]
    /\ audits = [j \in Jobs |-> 0] /\ heard = {} /\ overlapped = {}
    /\ status = [j \in Jobs |-> "open"] /\ pool = {} /\ bids = {}
    /\ faults = 0 /\ crashes = 0

\* The static agent.
Invited(c) == (\E j \in Jobs : Invite(c, j)) \/ Leaving(c) \/ Skipping(c)
Queued(c) == Window(c) \/ Ask(c) \/ Scout(c)
Submission(c) == Send(c) \/ Answer(c) \/ Recheck(c) \/ Late(c)
Conclusion(c) == Announce(c) \/ Failing(c)
Events(j) == WinnerEvent(j) \/ CancelEvent(j)

StaticAgent ==
    /\ kind = "static"
    /\ \/ Starts
       \/ \E c \in Calls : Invited(c) \/ Preflight(c) \/ Queued(c) \/ Submission(c) \/ Conclusion(c)
       \/ \E j \in Jobs : Events(j)

\* The fuzzer agent and the LLM agent repeat its code in files of their own.
FuzzerStarts == kind = "fuzzer" /\ Starts
FuzzerInvited(c) == kind = "fuzzer" /\ Invited(c)
FuzzerPreflight(c) == kind = "fuzzer" /\ Preflight(c)
FuzzerQueue(c) == kind = "fuzzer" /\ Queued(c)
FuzzerSubmission(c) == kind = "fuzzer" /\ Submission(c)
FuzzerConclusion(c) == kind = "fuzzer" /\ Conclusion(c)
FuzzerEvents(j) == kind = "fuzzer" /\ Events(j)

FuzzerAgent ==
    \/ FuzzerStarts
    \/ \E c \in Calls : \/ FuzzerInvited(c) \/ FuzzerPreflight(c) \/ FuzzerQueue(c)
                         \/ FuzzerSubmission(c) \/ FuzzerConclusion(c)
    \/ \E j \in Jobs : FuzzerEvents(j)

LlmStarts == kind = "llm" /\ Starts
LlmInvited(c) == kind = "llm" /\ Invited(c)
LlmPreflight(c) == kind = "llm" /\ Preflight(c)
LlmQueue(c) == kind = "llm" /\ Queued(c)
LlmSubmission(c) == kind = "llm" /\ Submission(c)
LlmConclusion(c) == kind = "llm" /\ Conclusion(c)
LlmEvents(j) == kind = "llm" /\ Events(j)

LlmAgent ==
    \/ LlmStarts
    \/ \E c \in Calls : \/ LlmInvited(c) \/ LlmPreflight(c) \/ LlmQueue(c)
                         \/ LlmSubmission(c) \/ LlmConclusion(c)
    \/ \E j \in Jobs : LlmEvents(j)

Next ==
    \/ Crash
    \/ StaticAgent \/ FuzzerAgent \/ LlmAgent
    \/ \E j \in Jobs : Close(j) \/ Mine(j)

Spec == Init /\ [][Next]_vars

-----------------------------------------------------------------------------

\* The queue runs one task at a time, so that the wallet's nonces are handed
\* out in order, and a task that waits has a loop that will come to it.
OneBidAtATime ==
    /\ Cardinality(ExecutingCalls) = IF draining THEN 1 ELSE 0
    /\ {c \in Calls : call[c].pc = "queued"} = ToSet(queue)
    /\ queue # <<>> => draining

\* A handler that waits for the lock waits for one that still runs and will
\* release it, although the map's entry is deleted by whoever leaves.
WaitersReleased == \A c \in Calls : call[c].pc = "waiting" =>
    \E d \in Calls \ {c} : d = call[c].behind /\ call[d].pc # "idle" /\ call[d].job = call[c].job

\* Both together: tasks and handlers take turns, and whatever waits is waiting
\* for something that runs.
HandlersTakeTurns == OneBidAtATime /\ WaitersReleased

\* However often an invitation or the award is delivered, and whatever
\* restarts in between, a job is audited once; only two handlers that submit
\* for one job at the same time can break this.
AuditedOnce == \A j \in Jobs \ overlapped : audits[j] <= 1

\* The lock's promise: one handler of a job at a time submits a bid for it.
OneHandlerPerJob == \A c, d \in Calls :
    /\ call[c].pc \in Marked /\ call[d].pc \in Marked
    /\ call[c].job = call[d].job
    => c = d
=============================================================================
