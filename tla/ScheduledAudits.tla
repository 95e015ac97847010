--------------------------- MODULE ScheduledAudits ---------------------------
(* Repeated audits of one contract.  AuditScheduler.sol keeps a record of the *)
(* contract's schedule and has one Hedera schedule pending, which calls       *)
(* triggerAudit and thereby arranges for the next one.  The orchestrator      *)
(* hears of each trigger, enriches what it knows of the contract, and         *)
(* publishes a discovery; what fails is queued, and a timer tries it again    *)
(* (orchestrator.js, subscribeSchedulerEvents and the queue above it).        *)
(*                                                                            *)
(* Due times are left out: a Hedera schedule may fire whenever it is pending. *)
(* Deleting one that is pending succeeds.                                     *)
(* A schedule stands for its address, 0 for none; triggers are numbered.      *)
EXTENDS Integers, Sequences

CONSTANTS
    MaxSchedules,   \* bound: Hedera schedules ever created
    MaxTriggers,    \* bound: audits triggered
    MaxTroubles     \* bound: calls that fail and restarts, together

VARIABLES
    sched,          \* schedules[contractAddress]
    pending,        \* the Hedera schedules that have not fired
    created,        \* Hedera schedules created so far
    byHand,         \* history: the orchestrator's address called triggerAudit
    fired,          \* of each trigger, the schedule it reported
    handler,        \* of each trigger, where its AuditTriggered handler is
    queue,          \* scheduledEnrichmentQueue: of each schedule in it, whether it is due
    loop,           \* processScheduledEnrichmentQueue: entries left, where it awaits
    heard,          \* history: triggers after which a discovery was published
    dropped,        \* history: triggers lost with a process, or with the log of them
    eclipsed,       \* history: triggers whose entry was deleted with an earlier one's
    troubles

contractVars == <<sched, pending, created, byHand>>
relayVars == <<handler, queue, loop, heard, dropped, eclipsed>>
scheduleVars == <<contractVars, fired, relayVars, troubles>>

Schedules == 1 .. MaxSchedules
Triggers == DOMAIN fired
NoLoop == [pc |-> "idle", rest |-> {}, key |-> 0]

(***************************************************************************)
(* Faulty variants, one plausible slip each; no specification uses them.   *)
(***************************************************************************)
ForgetsOld(s) == {}                         \* a replaced schedule is not deleted
KeepsFlag == "stuck"                        \* no finally: scheduledEnrichmentInFlight stays

-----------------------------------------------------------------------------
\* AuditScheduler.sol.

Inactive(s) == [s EXCEPT !.active = FALSE, !.current = 0]

\* _createSchedule on the record s, with the schedules left pending: Hedera has
\* capacity and creates one, or the record is deactivated.
CreateSchedule(s, left) ==
    \/ /\ created < MaxSchedules /\ created' = created + 1
       /\ sched' = [s EXCEPT !.current = created + 1]
       /\ pending' = left \cup {created + 1}
    \/ /\ UNCHANGED created
       /\ sched' = Inactive(s) /\ pending' = left \ {s.current}

\* The Hedera schedule that a replacement deletes.
Replaced(s) == IF s.active THEN {s.current} ELSE {}

ScheduleAudit(mode) ==
    LET left == pending \ Replaced(sched)
        s == [sched EXCEPT !.mode = mode, !.active = TRUE]
    IN  /\ IF mode = "timed" THEN CreateSchedule(s, left)
           ELSE /\ sched' = [s EXCEPT !.current = 0] /\ pending' = left
                /\ UNCHANGED created
        /\ UNCHANGED <<byHand, fired, relayVars, troubles>>

CancelSchedule ==
    /\ sched.active
    /\ pending' = pending \ {sched.current} /\ sched' = Inactive(sched)
    /\ UNCHANGED <<created, byHand, fired, relayVars, troubles>>

\* triggerAudit, with the schedules left pending.
TriggerAudit(left) ==
    /\ sched.active /\ Len(fired) < MaxTriggers
    /\ fired' = Append(fired, sched.current)
    /\ handler' = Append(handler, "undelivered")
    /\ LET s == [sched EXCEPT !.current = 0]
       IN  IF sched.mode = "timed" THEN CreateSchedule(s, left)
           ELSE sched' = s /\ pending' = left /\ UNCHANGED created
    /\ UNCHANGED <<queue, loop, heard, dropped, eclipsed, troubles>>

\* Hedera calls the contract; when that reverts the schedule is spent as well.
Fire(id) ==
    /\ id \in pending
    /\ \/ TriggerAudit(pending \ {id}) /\ UNCHANGED byHand
       \/ /\ ~sched.active /\ pending' = pending \ {id}
          /\ UNCHANGED <<sched, created, byHand, fired, relayVars, troubles>>

\* The orchestrator's address may call it as well.
TriggerByHand == TriggerAudit(pending) /\ byHand' = TRUE

OnRedeployDetected ==
    /\ sched.active /\ sched.mode = "redeploy"
    /\ CreateSchedule([sched EXCEPT !.current = 0], pending \ {sched.current})
    /\ UNCHANGED <<byHand, fired, relayVars, troubles>>

-----------------------------------------------------------------------------
\* The orchestrator.

Trouble == troubles < MaxTroubles /\ troubles' = troubles + 1
AllWell == UNCHANGED troubles

Goto(t, pc) == handler' = [handler EXCEPT ![t] = pc]
Heard == heard' = heard \cup Triggers
Unheard == UNCHANGED heard

\* The event is heard and published on the audit log.  Nobody catches a failure.
AuditTriggered(t) ==
    /\ handler[t] = "undelivered"
    /\ \/ Goto(t, "publishing") /\ AllWell /\ UNCHANGED dropped
       \/ Goto(t, "done") /\ Trouble /\ dropped' = dropped \cup {t}
    /\ UNCHANGED <<contractVars, fired, queue, loop, heard, eclipsed>>

\* publishScheduledDiscoveryWithEnrichment, up to the end of its try.  The
\* enrichment fails after its attempts, or the message is not accepted; or it
\* reaches the topic, and the receipt is awaited.
PublishDiscovery(t) ==
    /\ handler[t] = "publishing"
    /\ \/ Goto(t, "settling") /\ AllWell /\ Heard
       \/ Goto(t, "reporting") /\ Trouble /\ Unheard
    /\ UNCHANGED <<contractVars, fired, queue, loop, dropped, eclipsed>>

\* The receipt arrives, or its query fails although the message is out.
DiscoverySettles(t) ==
    /\ handler[t] = "settling"
    /\ \/ Goto(t, "done") /\ AllWell
       \/ Goto(t, "reporting") /\ Trouble
    /\ UNCHANGED <<contractVars, fired, queue, loop, heard, dropped, eclipsed>>

\* queueScheduledEnrichment: not due before its next attempt.
Queued(t) == [key \in DOMAIN queue \cup {fired[t]} |-> key # fired[t] /\ queue[key]]

\* The failure is published, then the trigger queued; when that fails too,
\* nobody catches it.
ReportFailure(t) ==
    /\ handler[t] = "reporting" /\ Goto(t, "done")
    /\ \/ AllWell /\ queue' = Queued(t) /\ UNCHANGED dropped
       \/ Trouble /\ dropped' = dropped \cup {t} /\ UNCHANGED queue
    /\ UNCHANGED <<contractVars, fired, loop, heard, eclipsed>>

\* The finally clause.
Released == "idle"

\* processScheduledEnrichmentQueue goes on to one of the entries that are left.
Proceed(rest) ==
    \/ rest = {} /\ loop' = [NoLoop EXCEPT !.pc = Released]
    \/ \E key \in rest : loop' = [pc |-> "publishing", rest |-> rest \ {key}, key |-> key]

\* The timer.  It takes the entries that were queued before it last fired, as
\* they are due.
RetryTick ==
    /\ loop.pc = "idle" /\ DOMAIN queue # {}
    /\ Proceed({k \in DOMAIN queue : queue[k]})
    /\ queue' = [k \in DOMAIN queue |-> TRUE]
    /\ AllWell /\ UNCHANGED <<contractVars, fired, handler, heard, dropped, eclipsed>>

\* As in the handler.
RetryPublishes ==
    /\ loop.pc = "publishing"
    /\ \/ loop' = [loop EXCEPT !.pc = "settling"] /\ AllWell /\ Heard
       \/ loop' = [loop EXCEPT !.pc = "reporting"] /\ Trouble /\ Unheard
    /\ UNCHANGED <<contractVars, fired, handler, queue, dropped, eclipsed>>

\* Success removes what is under the key by then, which may be the entry of a
\* trigger that came after the message was out.
Eclipsed(key) == {t \in Triggers \ heard : fired[t] = key /\ handler[t] = "done"}

RetrySettles ==
    /\ loop.pc = "settling"
    /\ \/ /\ AllWell /\ Proceed(loop.rest)
          /\ queue' = [k \in DOMAIN queue \ {loop.key} |-> queue[k]]
          /\ eclipsed' = eclipsed \cup Eclipsed(loop.key)
       \/ Trouble /\ loop' = [loop EXCEPT !.pc = "reporting"] /\ UNCHANGED <<queue, eclipsed>>
    /\ UNCHANGED <<contractVars, fired, handler, heard, dropped>>

RetryReports ==
    /\ loop.pc = "reporting"
    /\ \/ /\ AllWell /\ Proceed(loop.rest)
          /\ queue' = [queue EXCEPT ![loop.key] = FALSE]
       \/ Trouble /\ loop' = [NoLoop EXCEPT !.pc = Released] /\ UNCHANGED queue
    /\ UNCHANGED <<contractVars, fired, handler, heard, dropped, eclipsed>>

\* A restart: the queue is gone, and events in between are not heard.
Restart ==
    /\ Trouble /\ dropped' = Triggers
    /\ handler' = [t \in Triggers |-> "done"]
    /\ queue' = << >> /\ loop' = NoLoop
    /\ UNCHANGED <<contractVars, fired, heard, eclipsed>>

-----------------------------------------------------------------------------

Init ==
    /\ sched = [active |-> FALSE, mode |-> "timed", current |-> 0]
    /\ pending = {} /\ created = 0 /\ byHand = FALSE
    /\ fired = << >> /\ handler = << >>
    /\ queue = << >> /\ loop = NoLoop
    /\ heard = {} /\ dropped = {} /\ eclipsed = {} /\ troubles = 0

Handling(t) == AuditTriggered(t) \/ PublishDiscovery(t) \/ DiscoverySettles(t) \/ ReportFailure(t)
Retrying == RetryTick \/ RetryPublishes \/ RetrySettles \/ RetryReports

Next ==
    \/ \E mode \in {"timed", "redeploy"} : ScheduleAudit(mode)
    \/ CancelSchedule \/ TriggerByHand \/ OnRedeployDetected
    \/ \E id \in Schedules : Fire(id)
    \/ \E t \in Triggers : Handling(t)
    \/ Retrying \/ Restart

\* Events arrive, awaits settle, the timer fires.
Fairness ==
    /\ \A t \in 1 .. MaxTriggers : WF_scheduleVars(t \in Triggers /\ Handling(t))
    /\ WF_scheduleVars(Retrying)

Spec == Init /\ [][Next]_scheduleVars /\ Fairness

-----------------------------------------------------------------------------

\* As long as nobody triggers an audit by hand there is one chain of Hedera
\* schedules: the one that is recorded is the one that is pending, whichever
\* calls replace, cancel, fire or fail to create one, and a timed schedule that
\* is active always has its next audit pending.
OneChain ==
    ~byHand =>
       /\ pending = IF sched.current = 0 THEN {} ELSE {sched.current}
       /\ sched.active /\ sched.mode = "timed" => sched.current # 0
       /\ ~sched.active => sched.current = 0

\* Every audit that was triggered is followed by a discovery of the contract,
\* however often the enrichment fails, unless the process ends before, or the
\* audit log does not take the news of the trigger or of its failure; or unless
\* the trigger was queued under the key of an earlier one while the discovery of
\* that one was settling, and its entry deleted with the other's.  The key is
\* the contract with the schedule that was recorded, so that two triggers share
\* one only if somebody triggers by hand a contract without a schedule.
TriggeredIsDiscovered ==
    \A t \in 1 .. MaxTriggers : t \in Triggers ~> t \in heard \cup dropped \cup eclipsed
=============================================================================
