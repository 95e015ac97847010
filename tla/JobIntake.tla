------------------------------ MODULE JobIntake ------------------------------
(***************************************************************************)
(* handleDiscovery of the orchestrator: every discovery is a handler of    *)
(* its own, which drops duplicates, posts a job under the lock of          *)
(* createAuditJob, records it, invites the agents and sets the timer of    *)
(* the selection.                                                          *)
(***************************************************************************)
EXTENDS Integers, Sequences, FiniteSets

CONSTANTS
    Contracts,      \* the contracts that may be discovered
    Discoveries,    \* bound: discoveries heard, each a handler
    MaxAttempts,    \* createRetry.maxAttempts
    MaxMishaps      \* bound: mishaps, each of a kind of its own

VARIABLES
    posted,         \* on the chain: the contract of each job
    jobs,           \* in memory: job id -> contract and whether it is open
    recent,         \* contracts whose mark in recentDiscovery has not expired
    lock,           \* the handlers in the lock of createAuditJob, the holder first
    discovery,      \* the handlers
    armed,          \* jobs with a timer for the selection of winners
    mishaps         \* history: what went wrong

memory == <<jobs, recent, lock, armed>>
vars == <<posted, memory, discovery, mishaps>>

Unheard == [at |-> "unheard", contract |-> "none", valid |-> FALSE,
            attempt |-> 0, expected |-> 0, id |-> 0]

(***************************************************************************)
(* Faulty variants, one plausible slip each; no specification uses them.   *)
(***************************************************************************)
NoLock(d) == TRUE                               \* createAuditJob without the lock
MarkedFirst(c, valid) == recent \cup {c}        \* marked before the payload is checked
-----------------------------------------------------------------------------

Mishap(m) == m \notin mishaps /\ Cardinality(mishaps) < MaxMishaps /\ mishaps' = mishaps \cup {m}
NoMishap == UNCHANGED mishaps

At(d, point) == discovery[d].at = point
Goto(d, point) == discovery' = [discovery EXCEPT ![d].at = point]
Contract(d) == discovery[d].contract

-----------------------------------------------------------------------------
\* Deduplication.

HasOpenJob(c) == \E i \in DOMAIN jobs : jobs[i].contract = c /\ jobs[i].open

Marked(c, valid) == IF valid THEN recent \cup {c} ELSE recent

\* A discovery is heard: shouldDedupeDiscovery, validateDiscoveryPayload and
\* markDiscoverySeen, with no await in between; a duplicate renews the mark.
\* valid: the payload is well-formed and its risk not below the minimum.
Discover(d) ==
    /\ At(d, "unheard") /\ \A e \in Discoveries : e < d => ~At(e, "unheard")
    /\ \E c \in Contracts, valid \in BOOLEAN :
       LET duplicate == c \in recent \/ HasOpenJob(c)
           goes == valid /\ ~duplicate
       IN /\ recent' = IF duplicate THEN recent \cup {c} ELSE Marked(c, valid)
          /\ lock' = IF goes THEN Append(lock, d) ELSE lock
          /\ discovery' = [discovery EXCEPT ![d] =
                [Unheard EXCEPT !.at = IF goes THEN "waiting" ELSE "ended",
                                !.contract = c, !.valid = valid, !.attempt = 1]]
    /\ NoMishap /\ UNCHANGED <<posted, jobs, armed>>

\* The mark's time to live passes; a mishap when the job it stands for is
\* still being created.
Expire(c) ==
    /\ c \in recent /\ recent' = recent \ {c}
    /\ IF \E d \in Discoveries : Contract(d) = c /\ discovery[d].at \in {"waiting", "posting", "recording"}
       THEN Mishap("outlasted") ELSE NoMishap
    /\ UNCHANGED <<posted, jobs, lock, armed, discovery>>

-----------------------------------------------------------------------------
\* Creation, under the lock.

HoldsLock(d) == Head(lock) = d
Released == Tail(lock)      \* by its holder

\* HBAR is topped up and nextJobId read.
Expect(d) ==
    /\ At(d, "waiting") /\ HoldsLock(d)
    /\ discovery' = [discovery EXCEPT ![d].at = "posting", ![d].expected = Len(posted) + 1]
    /\ NoMishap /\ UNCHANGED <<posted, memory>>

Retriable(d) == discovery[d].attempt < MaxAttempts

\* An attempt failed: it is tried again if the error is one of the retriable
\* ones, and otherwise the discovery is given up.
Failed(d) ==
    \/ /\ Retriable(d)
       /\ discovery' = [discovery EXCEPT ![d].at = "waiting", ![d].attempt = @ + 1]
       /\ UNCHANGED lock
    \/ Goto(d, "ended") /\ lock' = Released

Mined(d) == Append(posted, Contract(d))

\* createAuditJob and its receipt: the id of the job is in the event
\* JobPosted; without readable logs it is the one that was expected.
Post(d) ==
    /\ At(d, "posting") /\ posted' = Mined(d)
    /\ \/ /\ NoMishap
          /\ discovery' = [discovery EXCEPT ![d].at = "recording", ![d].id = Len(posted')]
       \/ /\ Mishap("unread receipt")
          /\ discovery' = [discovery EXCEPT ![d].at = "recording", ![d].id = discovery[d].expected]
    /\ UNCHANGED memory

\* The same, or what precedes it, fails; the transaction may be mined or not.
PostFails(d) ==
    /\ At(d, "posting") /\ Failed(d)
    /\ \/ Mishap("failed") /\ UNCHANGED posted
       \/ Mishap("lost receipt") /\ posted' = Mined(d)
    /\ UNCHANGED <<jobs, recent, armed>>

\* The deadline has been read; the lock is released and the job recorded.
Record(d) ==
    LET id == discovery[d].id
        job == [contract |-> Contract(d), open |-> TRUE]
    IN
    /\ At(d, "recording") /\ Goto(d, "inviting")
    /\ lock' = Released
    /\ jobs' = [i \in DOMAIN jobs \cup {id} |-> IF i = id THEN job ELSE jobs[i]]
    /\ NoMishap /\ UNCHANGED <<posted, recent, armed>>

AfterInviting(invited) == "arming"

\* JOB_CREATED, the eligible agents and AUCTION_INVITE, each as well as may be.
Invite(d) ==
    /\ At(d, "inviting")
    /\ \E invited \in BOOLEAN :
       /\ Goto(d, AfterInviting(invited))
       /\ IF invited THEN NoMishap ELSE Mishap("not invited")
    /\ UNCHANGED <<posted, memory>>

Arm(d) ==
    /\ At(d, "arming") /\ Goto(d, "ended")
    /\ armed' = armed \cup {discovery[d].id}
    /\ NoMishap /\ UNCHANGED <<posted, jobs, recent, lock>>

-----------------------------------------------------------------------------
\* The world.

\* A client or AuditScheduler posts a job, of which this process knows nothing.
PostedByOther ==
    /\ \E c \in Contracts : posted' = Append(posted, c)
    /\ Mishap("other")
    /\ UNCHANGED <<memory, discovery>>

\* The report is published, or the job cancelled or otherwise over.
JobEnds(i) ==
    /\ jobs[i].open /\ jobs' = [jobs EXCEPT ![i].open = FALSE]
    /\ NoMishap /\ UNCHANGED <<posted, recent, lock, armed, discovery>>

\* Memory is lost but for the marks, of which the last save may have missed some.
Restart ==
    /\ Mishap("restart")
    /\ jobs' = <<>> /\ lock' = <<>> /\ armed' = {} /\ recent' \in SUBSET recent
    /\ discovery' = [d \in Discoveries |-> IF At(d, "unheard") THEN Unheard ELSE
                                           [discovery[d] EXCEPT !.at = "ended"]]
    /\ UNCHANGED posted

-----------------------------------------------------------------------------

Init ==
    /\ posted = <<>> /\ jobs = <<>> /\ armed = {} /\ lock = <<>>
    /\ recent = {}
    /\ discovery = [d \in Discoveries |-> Unheard]
    /\ mishaps = {}

Handling(d) ==
    Expect(d) \/ Post(d) \/ PostFails(d) \/ Record(d) \/ Invite(d) \/ Arm(d)

Next ==
    \/ \E d \in Discoveries : Discover(d) \/ Handling(d)
    \/ \E c \in Contracts : Expire(c)
    \/ \E i \in DOMAIN jobs : JobEnds(i)
    \/ PostedByOther \/ Restart

\* Every await settles; nothing else has to happen.
Fairness == \A d \in Discoveries : WF_vars(Handling(d))

Spec == Init /\ [][Next]_vars /\ Fairness

-----------------------------------------------------------------------------

\* A job of this process is recorded under the id it has on the chain, even
\* when a receipt cannot be read and the id is the one expected before,
\* unless somebody else posted at that moment.
RecordedAsPosted ==
    {"unread receipt", "other"} \subseteq mishaps \/
    \A i \in DOMAIN jobs : i \in DOMAIN posted /\ posted[i] = jobs[i].contract

\* A contract has one open job, however many discoveries of it arrive together
\* or while it is created, as long as its mark outlasts the creation.
OneOpenJob ==
    "outlasted" \in mishaps \/
    \A i, j \in DOMAIN jobs :
        jobs[i].open /\ jobs[j].open /\ jobs[i].contract = jobs[j].contract => i = j

\* Both together: what the orchestrator remembers of its jobs is what it posted.
RecordsMatchChain == RecordedAsPosted /\ OneOpenJob

\* A well-formed discovery of a contract leads to a job for it, whatever else
\* was heard of that contract before, unless something fails.
DiscoveredIsPosted ==
    []<>(mishaps # {} \/ \A d \in Discoveries :
            discovery[d].valid => \E i \in DOMAIN posted : posted[i] = Contract(d))

=============================================================================
