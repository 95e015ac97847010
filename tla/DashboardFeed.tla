---------------------------- MODULE DashboardFeed ----------------------------
(* The dashboard's EventListenerService and its store                         *)
(* (packages/dashboard/src/services/event-listener.js, src/store/index.js,    *)
(* src/hooks/useEventListeners.js).  One timer asks the events API for the    *)
(* newest messages, another the contracts for the events of all blocks since  *)
(* the last poll; what comes back is handled kind by kind, not in the order   *)
(* of the blocks.  Reconnecting starts a new service over the same store,     *)
(* while a poll of the old one may still be on its way.                       *)
(*                                                                            *)
(* Every block holds one event.  Texts, amounts, the event log, statistics    *)
(* and the agents' profiles are left out, and so is the test mode.            *)
EXTENDS Integers, Sequences, FiniteSets, SequencesExt

CONSTANTS
    Histories,      \* sequences of events that the contracts may emit
    Polls,          \* contract polls that may be on their way at a time
    MaxServices,    \* bound: services started one after the other
    Backfill,       \* backfillBlocks
    FetchSize,      \* EVENT_FETCH_LIMIT
    MaxErrors       \* bound: calls that fail

VARIABLES
    story,          \* the events, one per block
    height,         \* the current block
    strict,         \* sourceMode = "onchain_strict"
    log,            \* the messages at the events API
    service,        \* the service that is active
    lastProcessedBlock, inFlight,   \* of each service; -1 for null
    heard,          \* seenEventIds of each service
    poll,           \* contract polls: where each is, of which service, what it found
    shown,          \* the store
    covered,        \* blocks that some poll has handled
    lost,           \* blocks whose event, or its details, a failed call withheld
    stale,          \* whether a poll of a stopped service has written
    errors

feedVars == <<story, height, strict, log, service, lastProcessedBlock, inFlight,
              heard, poll, shown, covered, lost, stale, errors>>

Services == 1 .. MaxServices
Idle == [pc |-> "idle", of |-> 1, from |-> 0, to |-> 0, got |-> {}]
At(p, pc) == poll[p].pc = pc

\* The events of AuditAuction, whose queries have to succeed.
Critical == {"JobPosted", "BidSubmitted", "WinnersSelected", "JobCancelled", "JobCompleted"}

\* What a poll handles after it has waited for the details of a settlement.
Later == {"SlashInitiated", "FeeReceived"}

Kinds == Critical \cup {"SubAuctionCreated", "SubContractorSelected", "ResultAccepted",
                       "DataPurchased", "JobSettled"} \cup Later

\* What the contracts guarantee of a history, of one job and one sub-auction: the
\* job is posted before it ends, in one way, and the sub-auction goes from its
\* creation to its result.
Precedes(h, one, other) ==
    \A i, j \in DOMAIN h : h[i] = one /\ h[j] = other => i < j
Legal(h) ==
    /\ Precedes(h, "JobPosted", "JobCancelled") /\ Precedes(h, "JobPosted", "JobCompleted")
    /\ ~\E i, j \in DOMAIN h : h[i] = "JobCancelled" /\ h[j] = "JobCompleted"
    /\ Precedes(h, "SubAuctionCreated", "SubContractorSelected")
    /\ Precedes(h, "SubContractorSelected", "ResultAccepted")

ConstantsOK ==
    /\ \A h \in Histories : h \in Seq(Kinds) /\ Legal(h)
    /\ MaxServices \in Nat \ {0} /\ Backfill \in Nat /\ FetchSize \in Nat \ {0}

Blank == [job |-> "absent", bids |-> 0, winners |-> "none", subAgent |-> FALSE,
          settled |-> FALSE, slashes |-> 0, revenue |-> 0, flows |-> {}]

-----------------------------------------------------------------------------
\* Faulty variants of definitions below.

InviteReplaces(s) == "open"                 \* setJob without the existing job
HeldForGood(flags, i) == flags              \* released only where a poll succeeds

-----------------------------------------------------------------------------
\* What the store makes of the blocks B that hold the events of one kind.

\* A payment is shown under an id of its own, and so once.
AddFlows(s, B) == [s EXCEPT !.flows = @ \cup B]

\* setJob puts the job's entry in place of the old one.
OnJobPosted(s, B) == IF B = {} THEN s ELSE [s EXCEPT !.job = "open"]
OnBidSubmitted(s, B) == [AddFlows(s, B) EXCEPT !.bids = @ + Cardinality(B)]
OnWinnersSelected(s, B) ==
    IF B = {} THEN s ELSE [AddFlows(s, B) EXCEPT !.winners = "contract"]
\* setJobTerminal marks the job's entry, if there is one.
OnJobEnded(s, B, status) == IF B = {} \/ s.job = "absent" THEN s ELSE [s EXCEPT !.job = status]
OnSubAuctionCreated(s, B) == IF B = {} THEN s ELSE [s EXCEPT !.subAgent = FALSE]
OnSubContractorSelected(s, B) == IF B = {} THEN s ELSE [s EXCEPT !.subAgent = TRUE]
OnResultAccepted(s, B) == IF s.subAgent THEN AddFlows(s, B) ELSE s
OnDataPurchased(s, B) == AddFlows(s, B)
OnJobSettled(s, B) == IF B = {} THEN s ELSE [s EXCEPT !.settled = TRUE]
OnSlashInitiated(s, B) == [AddFlows(s, B) EXCEPT !.slashes = @ + Cardinality(B)]
OnFeeReceived(s, B) == [s EXCEPT !.revenue = @ + Cardinality(B)]

\* What the query for a kind of event finds in the blocks.
Of(blocks, kind) == {b \in blocks : story[b] = kind}

\* The order in which a poll handles what it found: kind by kind, up to the
\* details of the settlements, for which it waits, and after them.
BeforeAwait(s, found) ==
    LET s1 == OnJobPosted(s, Of(found, "JobPosted"))
        s2 == OnBidSubmitted(s1, Of(found, "BidSubmitted"))
        s3 == OnWinnersSelected(s2, Of(found, "WinnersSelected"))
        s4 == OnJobEnded(s3, Of(found, "JobCancelled"), "cancelled")
        s5 == OnJobEnded(s4, Of(found, "JobCompleted"), "completed")
        s6 == OnSubAuctionCreated(s5, Of(found, "SubAuctionCreated"))
        s7 == OnSubContractorSelected(s6, Of(found, "SubContractorSelected"))
        s8 == OnResultAccepted(s7, Of(found, "ResultAccepted"))
        s9 == OnDataPurchased(s8, Of(found, "DataPurchased"))
    IN  OnJobSettled(s9, Of(found, "JobSettled"))

AfterAwait(s, found) ==
    OnFeeReceived(OnSlashInitiated(s, Of(found, "SlashInitiated")), Of(found, "FeeReceived"))

-----------------------------------------------------------------------------
\* Polls of the contracts.

Error == errors < MaxErrors /\ errors' = errors + 1
AllWell == errors' = errors

MayPoll(i) == ~inFlight[i]
Released(flags, i) == [flags EXCEPT ![i] = FALSE]
Ends(p) == /\ poll' = [poll EXCEPT ![p] = Idle]
           /\ inFlight' = Released(inFlight, poll[p].of)

FirstBlock == IF height > Backfill THEN height - Backfill ELSE 0
First(i) == IF lastProcessedBlock[i] = -1 THEN FirstBlock ELSE lastProcessedBlock[i]

\* The timer, and the call when the service starts (in the first free slot), as
\* far as the answer of getBlockNumber; the first poll of a service goes back
\* some blocks.
PollContractEvents(p) ==
    /\ At(p, "idle") /\ (\A q \in 1 .. p - 1 : ~At(q, "idle")) /\ MayPoll(service)
    /\ lastProcessedBlock' = [lastProcessedBlock EXCEPT ![service] = First(service)]
    /\ IF height > First(service)
       THEN /\ inFlight' = [inFlight EXCEPT ![service] = TRUE]
            /\ poll' = [poll EXCEPT ![p] = [Idle EXCEPT !.pc = "querying", !.of = service,
                                              !.from = First(service) + 1, !.to = height]]
       ELSE UNCHANGED <<inFlight, poll>>
    /\ AllWell
    /\ UNCHANGED <<story, height, strict, log, service, heard, shown, covered, lost, stale>>

\* A critical query fails: the block stays, to be tried again.  (So it does
\* where getBlockNumber fails, and then nothing has changed.)
PollFails(p) ==
    /\ At(p, "querying")
    /\ Error /\ Ends(p)
    /\ UNCHANGED <<story, height, strict, log, service, lastProcessedBlock, heard,
                   shown, covered, lost, stale>>

Finished(p, s, got) ==
    /\ shown' = AfterAwait(s, got)
    /\ lastProcessedBlock' = [lastProcessedBlock EXCEPT ![poll[p].of] = poll[p].to]
    /\ Ends(p)

SettlementsIn(blocks) == Of(blocks, "JobSettled")

\* The queries of the blocks are answered; one that is not critical may fail, as
\* if there were no events of its kind.  Then everything up to the settlements
\* is handled; without any, all the rest as well.
Answered(p) ==
    LET range == poll[p].from .. poll[p].to
    IN  /\ At(p, "querying")
        /\ \E failed \in SUBSET ({story[b] : b \in range} \ Critical) :
           LET got == {b \in range : story[b] \notin failed}
               s == BeforeAwait(shown, got)
           IN  /\ IF failed = {} THEN AllWell ELSE Cardinality(failed) = 1 /\ Error
               /\ IF SettlementsIn(got) = {} THEN Finished(p, s, got)
                  ELSE /\ shown' = s
                       /\ poll' = [poll EXCEPT ![p].pc = "settling", ![p].got = got]
                       /\ UNCHANGED <<lastProcessedBlock, inFlight>>
               /\ lost' = lost \cup (range \ got)
        /\ covered' = covered \cup range
        /\ stale' = (stale \/ poll[p].of # service)
        /\ UNCHANGED <<story, height, strict, log, service, heard>>

\* getSettlementPayments: without it the payments are not shown.
Breakdown(p) ==
    LET settled == SettlementsIn(poll[p].got)
    IN  /\ At(p, "settling")
        /\ \/ /\ AllWell /\ lost' = lost
              /\ Finished(p, AddFlows(shown, settled), poll[p].got)
           \/ /\ Error /\ lost' = lost \cup settled
              /\ Finished(p, shown, poll[p].got)
        /\ stale' = (stale \/ poll[p].of # service)
        /\ UNCHANGED <<story, height, strict, log, service, heard, covered>>

-----------------------------------------------------------------------------
\* Polls of the events API.

Window(n) == (IF n > FetchSize THEN n - FetchSize + 1 ELSE 1) .. n

\* A job that is announced on the audit log is set again, unless only the
\* chain counts; an invitation keeps what is there; winners heard from the
\* audit log never take the place of the contract's.
JobAfterInvite(s) == s.job
WinnersMayChange(s) == s.winners # "contract"

RouteMessages(s, new) ==
    LET With(m) == {i \in new : log[i] = m}
    IN  [s EXCEPT
           !.job = IF ~strict /\ With("JOB_CREATED") # {} THEN "open"
                   ELSE IF With("AUCTION_INVITE") # {} /\ @ # "absent" THEN JobAfterInvite(s)
                   ELSE @,
           !.bids = IF strict THEN @ ELSE @ + Cardinality(With("BID_SUBMITTED")),
           !.winners = IF With("WINNER_SELECTED") # {} /\ WinnersMayChange(s) THEN "auditLog"
                       ELSE @]

\* The newest messages; those that were seen are skipped.
PollEventsAPI ==
    /\ LET new == Window(Len(log)) \ heard[service]
       IN  /\ new # {}
           /\ shown' = RouteMessages(shown, new)
           /\ heard' = [heard EXCEPT ![service] = @ \cup Window(Len(log))]
    /\ AllWell
    /\ UNCHANGED <<story, height, strict, log, service, lastProcessedBlock, inFlight,
                   poll, covered, lost, stale>>

-----------------------------------------------------------------------------
\* stopAll and a new service; polls that are on their way go on.

Reconnect ==
    /\ service < MaxServices /\ service' = service + 1
    /\ AllWell
    /\ UNCHANGED <<story, height, strict, log, lastProcessedBlock, inFlight, heard, poll,
                   shown, covered, lost, stale>>

\* The world: the next block, and what is said about its event.
Mine ==
    /\ height < Len(story) /\ height' = height + 1
    /\ AllWell
    /\ UNCHANGED <<story, strict, log, service, lastProcessedBlock, inFlight, heard, poll,
                   shown, covered, lost, stale>>

Said(kind) ==
    CASE kind = "JobPosted" -> <<"JOB_CREATED", "AUCTION_INVITE">>
      [] kind = "BidSubmitted" -> <<"BID_SUBMITTED">>
      [] kind = "WinnersSelected" -> <<"WINNER_SELECTED">>
      [] OTHER -> <<>>

Say ==
    /\ LET all == FlattenSeq([b \in 1 .. height |-> Said(story[b])])
       IN  Len(log) < Len(all) /\ log' = Append(log, all[Len(log) + 1])
    /\ AllWell
    /\ UNCHANGED <<story, height, strict, service, lastProcessedBlock, inFlight, heard, poll,
                   shown, covered, lost, stale>>

-----------------------------------------------------------------------------

Init ==
    /\ story \in Histories /\ height = 0 /\ strict \in BOOLEAN
    /\ log = <<>> /\ service = 1
    /\ lastProcessedBlock = [i \in Services |-> -1]
    /\ inFlight = [i \in Services |-> FALSE]
    /\ heard = [i \in Services |-> {}]
    /\ poll = [p \in Polls |-> Idle]
    /\ shown = Blank /\ covered = {} /\ lost = {} /\ stale = FALSE /\ errors = 0

Polling(p) ==
    PollContractEvents(p) \/ Answered(p) \/ Breakdown(p)

Next ==
    \/ \E p \in Polls : Polling(p) \/ PollFails(p)
    \/ PollEventsAPI \/ Reconnect \/ Mine \/ Say

\* The timer fires and awaits settle.
Fairness == \A p \in Polls : WF_feedVars(Polling(p))

Spec == Init /\ [][Next]_feedVars /\ Fairness

-----------------------------------------------------------------------------

Events(blocks) == {story[b] : b \in blocks}

\* What is shown of a job is what the blocks handled so far say of it, however
\* polls fail, overlap with messages or begin anew: its status if only the
\* chain counts, its winners in any case, and each of its bids once while the
\* service is the same.  A poll of a stopped service may set a status back.
JobShown ==
    /\ strict /\ ~stale =>
       shown.job = IF "JobPosted" \notin Events(covered) THEN "absent"
                   ELSE IF "JobCancelled" \in Events(covered) THEN "cancelled"
                   ELSE IF "JobCompleted" \in Events(covered) THEN "completed" ELSE "open"
    /\ shown.winners = "contract" <=> "WinnersSelected" \in Events(covered)
    /\ strict /\ service = 1 =>
       shown.bids = Cardinality({b \in covered : story[b] = "BidSubmitted"})

\* Every payment that was handled is shown once, whichever order its events
\* were handled in, unless a call failed; what a sub-job pays also needs
\* the event that says to whom.
PaymentsShown ==
    LET known == covered \ lost
        awaited == {b \in known : story[b] = "JobSettled" /\ \E p \in Polls :
                        At(p, "settling") /\ b \in poll[p].got}
        Paying(b) == \/ story[b] \in {"BidSubmitted", "WinnersSelected", "DataPurchased",
                                      "SlashInitiated", "JobSettled"}
                     \/ /\ story[b] = "ResultAccepted" /\ ~stale
                        /\ "SubContractorSelected" \in Events(known)
        later == {b \in known : story[b] \in Later /\ \E p \in Polls :
                        At(p, "settling") /\ b \in poll[p].got}
    IN  {b \in known : Paying(b)} \ (awaited \cup later) \subseteq shown.flows

\* Both together: the store says what the chain does.
ShowsChain == JobShown /\ PaymentsShown

\* The feed catches up with the chain again and again, whichever polls fail.
KeepsUp == []<>(lastProcessedBlock[service] = height)
=============================================================================
