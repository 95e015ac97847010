--------------------------- MODULE JobSettlement ---------------------------
(***************************************************************************)
(* The orchestrator from the findings of a job to its settlement:          *)
(* handleFindings, the publication of the report by number or by timer,    *)
(* handleReportPublished and settleAll, and the contracts they pay with.   *)
(* A handler keeps the entry of the job that it found when it began, and   *)
(* awaits many times; meanwhile the entry may be replaced.  There is one   *)
(* job, which has been awarded.                                            *)
(***************************************************************************)
EXTENDS Integers, Sequences, FiniteSets

CONSTANTS
    Handlers,       \* calls of handleReportPublished
    Threshold,      \* autoPublishAfterFindings
    MaxFindings,    \* bound: findings heard
    MaxReports,     \* bound: REPORT_PUBLISHED messages on agentComms
    MaxTroubles     \* bound: failures and restarts together

\* What the constants must be, assumed where they get their values.
ConstantsOK ==
    /\ Threshold \in Nat \ {0}
    /\ {MaxFindings, MaxReports, MaxTroubles} \subseteq Nat

VARIABLES
    \* the chain
    payable,        \* AuditAuction lets PaymentSettlement complete the job
    settled,        \* jobToSettlement is set
    deposits,       \* deposits in the contract, each worth one settlement
    pool,           \* settleJob transactions that are not mined yet
    \* memory
    entries,        \* every entry of the job that some code refers to
    current,        \* the one in the map, or 0
    handler,        \* where each handler awaits, and on which entry it works
    timers,         \* auto-publish timers
    \* messages
    coming,         \* FINDINGS_SUBMITTED still to be heard
    messages,       \* REPORT_PUBLISHED still to be heard
    \* history
    opened,         \* the entry is the one handleDiscovery made
    relayed,        \* REPORT_PUBLISHED relayed
    deposited,      \* deposits ever made
    troubles        \* failures and restarts

chain == <<payable, settled, deposits, pool>>
memory == <<entries, current, handler, timers>>
history == <<opened, relayed, deposited>>
vars == <<chain, memory, coming, messages, history, troubles>>

\* known: the address, type and chain of the contract are there; due: the
\* report was published when a winner's findings were there; worth: they are
\* there; winners: the winners are.
NewEntry == [known |-> FALSE, winners |-> FALSE, heard |-> 0, worth |-> FALSE,
             published |-> FALSE, settled |-> FALSE, due |-> FALSE]
Idle == [at |-> "idle", on |-> 0]

(***************************************************************************)
(* Faulty variants, one plausible slip each; no specification uses them.   *)
(***************************************************************************)
PublishAgain(e) == FALSE                        \* published is not tested after the await
HydratedNothing(e) == [e EXCEPT !.known = TRUE] \* winners are not taken from the chain

-----------------------------------------------------------------------------

Trouble == troubles < MaxTroubles /\ troubles' = troubles + 1
NoTrouble == UNCHANGED troubles

At(h, point) == handler[h].at = point
Goto(h, point) == handler' = [handler EXCEPT ![h].at = point]
Ends(h) == handler' = [handler EXCEPT ![h] = Idle]
Entry(h) == entries[handler[h].on]

-----------------------------------------------------------------------------
\* Findings.

\* getJobByKey, or an entry made on the spot, which only setJobByKey puts
\* into the map.
Found == IF current = 0 THEN Append(entries, NewEntry) ELSE entries
FoundAt == IF current = 0 THEN Len(entries) + 1 ELSE current

\* A handler begins to work on an entry; its first await is the hydration.
Begin(h, e) == handler' = [handler EXCEPT ![h] = [at |-> "hydrating", on |-> e]]

StartsTimer(e) == e.heard = 0 /\ ~e.published

\* handleFindings.  worth: the sender is a winner and found something.
HandleFindings ==
    /\ coming > 0 /\ coming' = coming - 1
    /\ \E worth \in BOOLEAN :
       LET e == [Found[FoundAt] EXCEPT !.known = TRUE, !.heard = @ + 1, !.worth = @ \/ worth]
       IN /\ entries' = [Found EXCEPT ![FoundAt] = e]
          /\ current' = FoundAt
          /\ timers' = IF StartsTimer(Found[FoundAt]) THEN timers + 1 ELSE timers
          /\ IF e.heard >= Threshold /\ ~e.published
             THEN \E h \in Handlers : At(h, "idle") /\ Begin(h, FoundAt)
             ELSE UNCHANGED handler
          /\ opened' = (opened /\ current # 0)
    /\ NoTrouble
    /\ UNCHANGED <<chain, messages, relayed, deposited>>

\* The timer of the first finding.
PublishTimer ==
    /\ timers > 0 /\ timers' = timers - 1
    /\ IF current # 0 /\ ~entries[current].published
       THEN \E h \in Handlers : At(h, "idle") /\ Begin(h, current)
       ELSE UNCHANGED handler
    /\ NoTrouble
    /\ UNCHANGED <<chain, entries, current, coming, messages, history>>

\* The event WinnersSelected, if the entry is there.
WinnersSelected ==
    /\ current # 0 /\ ~entries[current].winners
    /\ entries' = [entries EXCEPT ![current].winners = TRUE]
    /\ NoTrouble
    /\ UNCHANGED <<chain, current, handler, timers, coming, messages, history>>

-----------------------------------------------------------------------------
\* handleReportPublished.

HandleReportPublished(h) ==
    /\ At(h, "idle") /\ messages > 0 /\ messages' = messages - 1
    /\ entries' = Found /\ Begin(h, FoundAt)
    /\ opened' = (opened /\ current # 0)
    /\ NoTrouble
    /\ UNCHANGED <<chain, current, timers, coming, relayed, deposited>>

Learnt(e) == [e EXCEPT !.known = TRUE, !.winners = TRUE]
Published(e) == e.published

\* hydrateReportMetadataFromChain has returned: the entry is put back into the
\* map if the chain told something new, and then once more if this handler is
\* the one to publish.
Hydrated(h) ==
    LET on == handler[h].on
        told == Learnt(Entry(h))
    IN
    /\ At(h, "hydrating")
    /\ \E e \in {told, Entry(h)} :
       /\ IF e = told THEN NoTrouble ELSE Trouble
       /\ current' = IF e # Entry(h) \/ ~Published(e) THEN on ELSE current
       /\ IF Published(e)
          THEN Ends(h) /\ entries' = [entries EXCEPT ![on] = e]
          ELSE Goto(h, "relaying")
               /\ entries' = [entries EXCEPT ![on] = [e EXCEPT !.published = TRUE, !.due = e.worth]]
    /\ UNCHANGED <<chain, timers, coming, messages, history>>

NothingToSettle(e) == e.heard = 0 \/ e.settled

\* REPORT_PUBLISHED and, if anything is critical, ALERT_FIRED are published; a
\* failure ends the handler.  Then settleAll begins.
Relay(h) ==
    /\ At(h, "relaying")
    /\ \/ /\ Goto(h, IF NothingToSettle(Entry(h)) THEN "crediting" ELSE "checking")
          /\ relayed' = relayed + 1 /\ NoTrouble
       \/ Ends(h) /\ relayed' \in {relayed, relayed + 1} /\ Trouble
    /\ UNCHANGED <<chain, entries, current, timers, coming, messages, opened, deposited>>

\* isJobAlreadySettledOnChain, where a failed read counts as "no"; then the
\* winners and their scores.
Check(h) ==
    /\ At(h, "checking")
    /\ \E known \in {settled, FALSE} :
       /\ IF known = settled THEN NoTrouble ELSE Trouble
       /\ IF known THEN /\ entries' = [entries EXCEPT ![handler[h].on].settled = TRUE]
                        /\ current' = handler[h].on
                   ELSE UNCHANGED <<entries, current>>
       /\ Goto(h, IF known \/ ~Entry(h).winners \/ ~Entry(h).worth THEN "crediting" ELSE "previewing")
    /\ UNCHANGED <<chain, timers, coming, messages, history>>

\* The preview and the balance of GUARD.
Preview(h) ==
    /\ At(h, "previewing")
    /\ \/ Goto(h, "depositing") /\ NoTrouble
       \/ Goto(h, "crediting") /\ Trouble
    /\ UNCHANGED <<chain, entries, current, timers, coming, messages, history>>

\* HBAR, allowance and deposit; each receipt is waited for and may be lost.
Deposit(h) ==
    /\ At(h, "depositing")
    /\ \/ /\ deposits' = deposits + 1 /\ deposited' = deposited + 1
          /\ Goto(h, "settling") /\ NoTrouble
       \/ /\ \E n \in {0, 1} : deposits' = deposits + n /\ deposited' = deposited + n
          /\ Goto(h, "crediting") /\ Trouble
    /\ UNCHANGED <<payable, settled, pool, entries, current, timers, coming, messages, opened, relayed>>

\* settleJob would revert: then the node refuses it when the gas is estimated.
Refused == settled \/ ~payable \/ deposits = 0

Flagged(e, sent) == IF sent THEN [e EXCEPT !.settled = TRUE] ELSE e

\* settleJob is sent and its receipt is not waited for; PAYMENT_SETTLED is
\* published at once, as well as may be.
Settle(h) ==
    /\ At(h, "settling")
    /\ \E sent \in BOOLEAN :
       /\ sent => ~Refused
       /\ IF sent \/ Refused THEN NoTrouble ELSE Trouble
       /\ pool' \in IF sent THEN {pool + 1} ELSE IF Refused THEN {pool} ELSE {pool, pool + 1}
       /\ entries' = [entries EXCEPT ![handler[h].on] = Flagged(@, sent)]
       /\ current' = IF sent THEN handler[h].on ELSE current
    /\ Goto(h, "crediting")
    /\ UNCHANGED <<payable, settled, deposits, timers, coming, messages, history>>

\* updateReputation and the rest; a failure ends the handler as well.
Credit(h) ==
    /\ At(h, "crediting") /\ Ends(h) /\ NoTrouble
    /\ UNCHANGED <<chain, entries, current, timers, coming, messages, history>>

-----------------------------------------------------------------------------
\* PaymentSettlement.settleJob and the world.

Mine ==
    /\ pool > 0 /\ pool' = pool - 1
    /\ IF Refused THEN UNCHANGED <<settled, deposits>>
       ELSE settled' = TRUE /\ deposits' = deposits - 1
    /\ NoTrouble
    /\ UNCHANGED <<payable, memory, coming, messages, history>>

\* Everything but the chain is lost; the last messages come again.
Restart ==
    /\ entries' = <<>> /\ current' = 0 /\ timers' = 0
    /\ handler' = [h \in Handlers |-> Idle]
    /\ coming' \in coming .. MaxFindings /\ messages' \in messages .. MaxReports
    /\ opened' = FALSE /\ Trouble
    /\ UNCHANGED <<chain, relayed, deposited>>

-----------------------------------------------------------------------------

\* Either the job was opened by this process, or its entry was lost.
Init ==
    /\ payable \in BOOLEAN /\ opened \in BOOLEAN
    /\ entries = IF opened THEN <<[NewEntry EXCEPT !.known = TRUE]>> ELSE <<>>
    /\ current = IF opened THEN 1 ELSE 0
    /\ settled = FALSE /\ deposits = 0 /\ pool = 0
    /\ handler = [h \in Handlers |-> Idle] /\ timers = 0
    /\ coming = MaxFindings /\ messages = MaxReports
    /\ relayed = 0 /\ deposited = 0 /\ troubles = 0

Handling(h) ==
    Hydrated(h) \/ Relay(h) \/ Check(h) \/ Preview(h) \/ Deposit(h) \/ Settle(h) \/ Credit(h)

Next ==
    \/ HandleFindings \/ PublishTimer \/ WinnersSelected \/ Mine \/ Restart
    \/ \E h \in Handlers : HandleReportPublished(h) \/ Handling(h)

\* Awaits settle, timers fire, transactions are mined.
Fairness == WF_vars(PublishTimer) /\ WF_vars(Mine) /\ \A h \in Handlers : WF_vars(Handling(h))

Spec == Init /\ [][Next]_vars /\ Fairness

-----------------------------------------------------------------------------

\* Report messages, timer and number of findings each start a handler, which
\* looks at the flag only after an await: in a process that opened the job,
\* the report is relayed once and GUARD deposited once all the same.  And a
\* deposit stays in the contract only while a handler is about to use it, or
\* when something failed or the auction refuses to complete the job.
SettledOnce == opened =>
    /\ relayed <= 1 /\ deposited <= 1
    /\ troubles = 0 /\ payable /\ deposits > 0 =>
         pool > 0 \/ \E h \in Handlers : At(h, "settling")

\* When a report is published with a winner's findings, the job is settled,
\* unless something fails or the auction refuses.
DueIsPaid ==
    (\E i \in DOMAIN entries : entries[i].due) ~> settled \/ troubles > 0 \/ ~payable
=============================================================================
