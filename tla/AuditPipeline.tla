--------------------------- MODULE AuditPipeline ---------------------------
(***************************************************************************)
(* What happens to one job after its award: the audit cycles of the        *)
(* winners, the scan report one of them sells to the other, the dependency *)
(* analysis that the LLM agent puts out to a sub-auction, the findings     *)
(* store, and the report agent that makes one report of what it hears.     *)
(* Each agent is a process; they meet on the topic agentComms, in the      *)
(* store and on the chain.                                                 *)
(***************************************************************************)
EXTENDS Integers, Sequences, FiniteSets, SequencesExt

CONSTANTS
    \* bounds
    MaxWinners,     \* winners of the job
    MaxTroubles     \* calls, transactions and publications that fail, and restarts

ConstantsOK == MaxWinners \in Nat /\ MaxTroubles \in Nat

VARIABLES
    strict,         \* STRICT_LIVE outside the demo mode
    winners,        \* the auditors that were awarded the job
    at,             \* where each auditor's simulateAuditCycle awaits
    \* the market of scan reports
    offer,          \* DATA_LISTING_CREATED of a scan report: to the fuzzer agent
    listed,         \* auditors with a listing on chain
    bought,         \* the fuzzer agent paid for a scan report
    \* the sub-auction of the LLM agent
    posted,         \* SUB_AUCTION_POSTED: to the dependency agent
    dependency,     \* where the dependency agent is with it
    answer,         \* SUB_RESULT_DELIVERED: to the LLM agent
    informed,       \* hasDepAnalysis
    \* findings
    store,          \* auditors whose findings are in the findings store
    topic,          \* FINDINGS_SUBMITTED messages of the job, in consensus order
    read,           \* how many of them the report agent was handed
    job,            \* the report agent's entry of jobFindings
    aggregate,      \* aggregateAndPublish: where it awaits, what it knows
    reports,        \* history: the reports published
    replayed,       \* history: the report agent was restarted
    excused,        \* history: auditors whose findings were lost on the way
    faults, crashes \* troubles so far

auditing == <<strict, winners>>
market == <<offer, listed, bought>>
subcontract == <<posted, dependency, answer, informed>>
reporting == <<read, job, aggregate, reports, replayed>>
findings == <<store, topic, excused>>
vars == <<auditing, at, market, subcontract, findings, reporting, faults, crashes>>

Auditors == {"static", "fuzzer", "llm"}
NoJob == [heard |-> <<>>, timer |-> "unset", aggregating |-> FALSE]
NoAggregate == [pc |-> "none", counted |-> {}, shown |-> {}]

(***************************************************************************)
(* Faulty variants, one plausible slip each; no specification uses them.   *)
(***************************************************************************)
KeepsFlags(j) == [j EXCEPT !.heard = <<>>]           \* only the list is
NotAwaited(a) == at[a] \in {"storing", "publishing"}   \* the store is not waited for
WaitsForEver == FALSE                                \* waitForSubResult without a timer

-----------------------------------------------------------------------------

Fault == faults + crashes < MaxTroubles /\ faults' = faults + 1 /\ UNCHANGED crashes
NoFault == UNCHANGED <<faults, crashes>>

Goto(a, pc) == at' = [at EXCEPT ![a] = pc]

\* A publication waits for its receipt; when that fails the message may be
\* on the topic all the same, and the exception ends the cycle.
Published(a, next) == Goto(a, next) /\ NoFault
PublicationFails(a) == Goto(a, "failed") /\ Fault

-----------------------------------------------------------------------------
\* The audit cycles.

FirstStep(a) == CASE a = "static" -> {"analyzing"}
                  [] a = "fuzzer" -> {IF offer = "heard" THEN "buying" ELSE "analyzing"}
                  [] a = "llm" -> {"creating", "analyzing"}

\* The event WinnersSelected reaches a winner.
Awarded(a) ==
    /\ a \in winners /\ at[a] = "idle"
    /\ \E pc \in FirstStep(a) : Goto(a, pc)
    /\ NoFault
    /\ UNCHANGED <<auditing, market, subcontract, findings, reporting>>

\* The services and the mock generators always give findings.
Analyzed == "storing"

\* runStaticAnalysisOrFallback and runFuzzOrFallback.
Analyze(a) ==
    /\ a \in {"static", "fuzzer"} /\ at[a] = "analyzing"
    /\ Goto(a, Analyzed) /\ NoFault
    /\ UNCHANGED <<auditing, market, subcontract, findings, reporting>>

\* postFindingsToStore never throws.
Store(a) ==
    /\ at[a] = "storing" /\ Goto(a, "publishing")
    /\ \/ store' = store \cup {a} /\ NoFault /\ UNCHANGED excused
       \/ excused' = excused \cup {a} /\ Fault /\ UNCHANGED store
    /\ UNCHANGED <<auditing, market, subcontract, topic, reporting>>

MaySubmit(a) == at[a] = "publishing"

\* FINDINGS_SUBMITTED is published.
Submit(a) ==
    /\ MaySubmit(a)
    /\ \/ topic' = Append(topic, a) /\ Published(a, IF a = "llm" THEN "done" ELSE "listing")
       \/ topic' \in {topic, Append(topic, a)} /\ PublicationFails(a)
    /\ UNCHANGED <<auditing, market, subcontract, store, excused, reporting>>

\* Without a listing id there is nothing to announce.
Unlisted == "done"

\* createListing and its receipt.
List(a) ==
    /\ at[a] = "listing"
    /\ \/ listed' = listed \cup {a} /\ Goto(a, "offering") /\ NoFault
       \/ listed' \in {listed, listed \cup {a}} /\ Goto(a, Unlisted) /\ Fault
    /\ UNCHANGED <<auditing, offer, bought, subcontract, findings, reporting>>

\* DATA_LISTING_CREATED is published.  The other agent that buys is the
\* fuzzer agent; it ignores its own.
Offer(a) ==
    /\ at[a] = "offering"
    /\ \/ Published(a, "done") /\ offer' = IF a = "static" /\ offer = "none" THEN "sent" ELSE offer
       \/ PublicationFails(a) /\ offer' \in {offer, IF a = "static" THEN "sent" ELSE offer}
    /\ UNCHANGED <<auditing, listed, bought, subcontract, findings, reporting>>

-----------------------------------------------------------------------------
\* The fuzzer agent buys the scan report.

HearOffer ==
    /\ offer = "sent" /\ offer' = "heard" /\ NoFault
    /\ UNCHANGED <<auditing, at, listed, bought, subcontract, findings, reporting>>

\* purchaseData is broadcast; a failure ends a strict cycle.
Buy ==
    /\ at["fuzzer"] = "buying"
    /\ \/ bought' = TRUE /\ Goto("fuzzer", "receipting") /\ NoFault
       \/ UNCHANGED bought /\ Goto("fuzzer", IF strict THEN "failed" ELSE "analyzing") /\ Fault
    /\ UNCHANGED <<auditing, offer, listed, subcontract, findings, reporting>>

\* DATA_PURCHASED is published inside the same try block.
Receipt ==
    /\ at["fuzzer"] = "receipting"
    /\ \/ Goto("fuzzer", "analyzing") /\ NoFault
       \/ Goto("fuzzer", IF strict THEN "failed" ELSE "analyzing") /\ Fault
    /\ UNCHANGED <<auditing, market, subcontract, findings, reporting>>

-----------------------------------------------------------------------------
\* The LLM agent and its sub-auction.

\* createSubAuction and its receipt.
CreateSub ==
    /\ at["llm"] = "creating"
    /\ \/ Goto("llm", "posting") /\ NoFault
       \/ Goto("llm", IF strict THEN "failed" ELSE "posting") /\ Fault
    /\ UNCHANGED <<auditing, market, subcontract, findings, reporting>>

\* SUB_AUCTION_POSTED to the agents.
PostSub ==
    /\ at["llm"] = "posting"
    /\ \/ posted' = "sent" /\ Published("llm", "logging")
       \/ posted' \in {posted, "sent"} /\ PublicationFails("llm")
    /\ UNCHANGED <<auditing, market, dependency, answer, informed, findings, reporting>>

\* SUB_AUCTION_CREATED to the audit log; only then is the wait registered.
LogSub ==
    /\ at["llm"] = "logging"
    /\ Published("llm", "waiting") \/ PublicationFails("llm")
    /\ UNCHANGED <<auditing, market, subcontract, findings, reporting>>

\* The callback of waitForSubResult, if it is registered; else the result is
\* dropped.
HearAnswer ==
    /\ answer = "sent" /\ answer' = "heard" /\ NoFault
    /\ IF at["llm"] = "waiting"
       THEN Goto("llm", "accepting") /\ informed' = TRUE
       ELSE UNCHANGED <<at, informed>>
    /\ UNCHANGED <<auditing, market, posted, dependency, findings, reporting>>

TimesOut == TRUE

\* The timer of waitForSubResult.
SubTimeout ==
    /\ at["llm"] = "waiting" /\ TimesOut
    /\ Goto("llm", "analyzing") /\ NoFault
    /\ UNCHANGED <<auditing, market, subcontract, findings, reporting>>

\* SubAuction.deliverResult and acceptResult ask for a selected agent, and no
\* program of the repository ever selects one.
Selected == FALSE

\* acceptResult, and SUB_RESULT_ACCEPTED.
AcceptSub ==
    /\ at["llm"] = "accepting"
    /\ \/ IF Selected \/ ~strict
          THEN Published("llm", "analyzing") \/ PublicationFails("llm")
          ELSE Goto("llm", "failed") /\ NoFault
       \/ strict /\ Goto("llm", "failed") /\ Fault
    /\ UNCHANGED <<auditing, market, subcontract, findings, reporting>>

\* analyzeWithAI with its two attempts, between two publications.
Infer ==
    /\ at["llm"] = "analyzing"
    /\ \/ Goto("llm", Analyzed) /\ NoFault
       \/ PublicationFails("llm")
       \/ ~strict /\ Goto("llm", Analyzed) /\ Fault
    /\ UNCHANGED <<auditing, market, subcontract, findings, reporting>>

-----------------------------------------------------------------------------
\* The dependency agent.

DepGoto(pc) == dependency' = pc

\* A sub-auction is heard of: checks, submitSubBid, SUB_BID_SUBMITTED.
SubBid ==
    /\ posted = "sent" /\ posted' = "heard"
    /\ \/ DepGoto("analyzing") /\ NoFault
       \/ DepGoto("gone") /\ Fault
       \/ ~strict /\ DepGoto("analyzing") /\ Fault
    /\ UNCHANGED <<auditing, at, market, answer, informed, findings, reporting>>

\* The analysis is done after a while, whoever was selected; deliverResult.
Deliver ==
    /\ dependency = "analyzing"
    /\ DepGoto(IF Selected \/ ~strict THEN "telling" ELSE "gone") /\ NoFault
    /\ UNCHANGED <<auditing, at, market, posted, answer, informed, findings, reporting>>

\* SUB_RESULT_DELIVERED to the agents.
TellResult ==
    /\ dependency = "telling" /\ DepGoto("gone")
    /\ \/ answer' = "sent" /\ NoFault
       \/ answer' \in {answer, "sent"} /\ Fault
    /\ UNCHANGED <<auditing, at, market, posted, informed, findings, reporting>>

-----------------------------------------------------------------------------
\* The report agent.

\* The first submission starts the aggregation window.
WithTimer(j) == IF j.timer = "unset" THEN [j EXCEPT !.timer = "running"] ELSE j

\* FINDINGS_SUBMITTED is handed over.
HearFindings ==
    /\ read < Len(topic) /\ read' = read + 1
    /\ job' = WithTimer([job EXCEPT !.heard = Append(@, topic[read + 1])])
    /\ NoFault
    /\ UNCHANGED <<auditing, at, market, subcontract, findings, aggregate, reports, replayed>>

MayAggregate(j) == j.heard # <<>> /\ ~j.aggregating

\* The timer of the window fires, once.
WindowEnds ==
    /\ job.timer = "running"
    /\ job' = [job EXCEPT !.timer = "fired", !.aggregating = TRUE]
    /\ IF MayAggregate(job)
       THEN aggregate' = [NoAggregate EXCEPT !.pc = "counting"]
       ELSE UNCHANGED aggregate
    /\ NoFault
    /\ UNCHANGED <<auditing, at, market, subcontract, findings, read, reports, replayed>>

\* The payer's balance is looked after, then what was heard is added up.
Count ==
    /\ aggregate.pc = "counting"
    /\ aggregate' = [aggregate EXCEPT !.pc = "publishing", !.counted = ToSet(job.heard)]
    /\ NoFault
    /\ UNCHANGED <<auditing, at, market, subcontract, findings, read, job, reports, replayed>>

\* Direct settlement if configured, REPUTATION_UPDATED of each auditor, then
\* REPORT_PUBLISHED with the number of submissions heard by now.  When one of
\* them fails, the function ends with the entry and its flag in place.
PublishReport ==
    LET report == [counted |-> aggregate.counted, agentCount |-> Len(job.heard), shown |-> {},
                   written |-> FALSE]
    IN
    /\ aggregate.pc = "publishing"
    /\ \/ /\ reports' = Append(reports, report)
          /\ aggregate' = [aggregate EXCEPT !.pc = "fetching"] /\ NoFault
       \/ /\ reports' \in {reports, Append(reports, report)}
          /\ aggregate' = [aggregate EXCEPT !.pc = "stuck"] /\ Fault
    /\ UNCHANGED <<auditing, at, market, subcontract, findings, read, job, replayed>>

\* getFindingsFromStore never throws; nothing fetched, nothing deleted.
Fetch ==
    /\ aggregate.pc = "fetching"
    /\ \/ /\ aggregate' = [aggregate EXCEPT !.pc = IF store = {} THEN "writing" ELSE "deleting",
                                           !.shown = store]
          /\ NoFault /\ UNCHANGED excused
       \/ /\ aggregate' = [aggregate EXCEPT !.pc = "writing"]
          /\ excused' = excused \cup aggregate.counted /\ Fault
    /\ UNCHANGED <<auditing, at, market, subcontract, store, topic, read, job, reports, replayed>>

\* deleteFindingsFromStore deletes what is there now, not what was fetched.
Delete ==
    /\ aggregate.pc = "deleting"
    /\ aggregate' = [aggregate EXCEPT !.pc = "writing"]
    /\ \/ store' = {} /\ excused' = excused \cup (store \ aggregate.shown) /\ NoFault
       \/ UNCHANGED <<store, excused>> /\ Fault
    /\ UNCHANGED <<auditing, at, market, subcontract, topic, read, job, reports, replayed>>

\* The file and the database, as well as may be; then REPORT_METADATA.
Emptied(j) == NoJob
WriteReport ==
    /\ aggregate.pc = "writing"
    /\ reports' = [reports EXCEPT ![Len(reports)].shown = aggregate.shown, ![Len(reports)].written = TRUE]
    /\ \/ job' = Emptied(job) /\ aggregate' = NoAggregate /\ NoFault
       \/ aggregate' = [aggregate EXCEPT !.pc = "stuck"] /\ UNCHANGED job /\ Fault
    /\ UNCHANGED <<auditing, at, market, subcontract, findings, read, replayed>>

-----------------------------------------------------------------------------
\* Restarts.

Restart == faults + crashes < MaxTroubles /\ crashes' = crashes + 1 /\ UNCHANGED faults

\* An auditor forgets its cycle, and nothing takes it up again.
AuditorRestarts(a) ==
    /\ at[a] \notin {"idle", "done", "failed"} /\ Goto(a, "failed") /\ Restart
    /\ UNCHANGED <<auditing, market, subcontract, findings, reporting>>

DependencyRestarts ==
    /\ dependency \notin {"none", "gone"} /\ DepGoto("gone") /\ Restart
    /\ UNCHANGED <<auditing, at, market, posted, answer, informed, findings, reporting>>

\* The report agent subscribes again, from some seconds back.
ReporterRestarts ==
    /\ job' = NoJob /\ aggregate' = NoAggregate
    /\ read' \in 0 .. Len(topic)
    /\ replayed' = TRUE
    /\ Restart
    /\ UNCHANGED <<auditing, at, market, subcontract, findings, reports>>

-----------------------------------------------------------------------------

Init ==
    /\ strict \in BOOLEAN
    /\ winners \in {w \in SUBSET Auditors : Cardinality(w) \in 1 .. MaxWinners}
    /\ at = [a \in Auditors |-> "idle"]
    /\ offer = "none" /\ listed = {} /\ bought = FALSE
    /\ posted = "none" /\ dependency = "none" /\ answer = "none" /\ informed = FALSE
    /\ store = {} /\ topic = <<>> /\ read = 0
    /\ job = NoJob /\ aggregate = NoAggregate /\ reports = <<>> /\ excused = {} /\ replayed = FALSE
    /\ faults = 0 /\ crashes = 0

StaticCycle == LET a == "static" IN
    Awarded(a) \/ Analyze(a) \/ Store(a) \/ Submit(a) \/ List(a) \/ Offer(a)
FuzzerCycle == LET a == "fuzzer" IN
    \/ Awarded(a) \/ Analyze(a) \/ Store(a) \/ Submit(a) \/ List(a) \/ Offer(a)
    \/ HearOffer \/ Buy \/ Receipt
LlmCycle == LET a == "llm" IN
    \/ Awarded(a) \/ Store(a) \/ Submit(a)
    \/ CreateSub \/ PostSub \/ LogSub \/ HearAnswer \/ SubTimeout \/ AcceptSub \/ Infer
DependencyAgent == SubBid \/ Deliver \/ TellResult
Aggregation == WindowEnds \/ Count \/ PublishReport \/ Fetch \/ Delete \/ WriteReport
Restarts == (\E a \in Auditors : AuditorRestarts(a)) \/ DependencyRestarts \/ ReporterRestarts

Next == \/ StaticCycle \/ FuzzerCycle \/ LlmCycle \/ DependencyAgent
        \/ HearFindings \/ Aggregation \/ Restarts

\* Every await settles and every timer fires; messages arrive.
Fairness == /\ WF_vars(StaticCycle) /\ WF_vars(FuzzerCycle) /\ WF_vars(LlmCycle)
            /\ WF_vars(DependencyAgent) /\ WF_vars(HearFindings) /\ WF_vars(Aggregation)

Spec == Init /\ [][Next]_vars /\ Fairness

-----------------------------------------------------------------------------

\* However submissions, window and clean-up fall, a submission is added up in
\* one report only, and the findings of every auditor that a report counts are
\* shown by it or by an earlier one, unless a restarted report agent is handed
\* submissions again.  What is excused is a store that could not be reached,
\* and a submission stored between fetch and deletion of an earlier report.
CountedAndShown == replayed \/
    /\ \A i, k \in DOMAIN reports : i # k => reports[i].counted \cap reports[k].counted = {}
    /\ \A i \in DOMAIN reports : reports[i].written =>
        reports[i].counted \subseteq (UNION {reports[k].shown : k \in 1 .. i}) \cup excused

\* The audits that are begun end, every one of them, whatever the dependency
\* agent does: while any is under way, a moment is to come when none is.
UnderWay == {a \in Auditors : at[a] \notin {"idle", "done", "failed"}}
CyclesEnd == UnderWay # {} ~> UnderWay = {}

\* Findings that are heard while no report is being made come into one, unless
\* a publication fails or the report agent is restarted.
HeardIsReported == \A a \in Auditors :
    a \in ToSet(job.heard) /\ aggregate.pc = "none" ~>
        \/ \E i \in DOMAIN reports : a \in reports[i].counted
        \/ faults > 0 \/ replayed
=============================================================================
