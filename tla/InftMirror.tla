----------------------------- MODULE InftMirror -----------------------------
(* The iNFT of one audit job (packages/inft/src): the event listener, a       *)
(* process of its own, polls the logs of AuditAuction and PaymentSettlement   *)
(* one after the other and writes what they say of the job into the iNFT's    *)
(* metadata; the discovery listener, another process, mints it.  Each keeps   *)
(* the metadata in memory and writes all of it over the same file.            *)
(*                                                                            *)
(* A request to the mirror node that fails finds no logs, like one that comes *)
(* early.  The other contracts, the agents' profiles and the copy on 0g are   *)
(* left out.                                                                  *)
EXTENDS Integers, Sequences, FiniteSets, SequencesExt

CONSTANTS
    Stories,        \* sequences of events that AuditAuction may emit for the job
    MaxCrashes      \* bound: restarts of either process

VARIABLES
    story, mined,   \* AuditAuction's events; how many the mirror node has
    file,           \* the job's entry in the local store
    \* the event listener
    known,          \* its copy of that entry
    indexed,        \* _jobIndex has the job
    cursor, saved,  \* the last log handled of each contract, in memory and on disk
    at, polled,     \* "fetch", "handle" or "save", and the contract it polls
    batch, step,    \* logs still to be handled; updates of the first that are done
    \* the discovery listener
    minted,         \* its copy of that entry
    \* history
    lost,           \* an entry was missing or replaced by an old one
    crashes

listener == <<known, indexed, cursor, saved, at, polled, batch, step>>
mirrorVars == <<story, mined, file, listener, minted, lost, crashes>>

NoEntry == [state |-> "none", job |-> FALSE, bids |-> 0, participants |-> 0,
            winners |-> FALSE, paid |-> FALSE]
NewEntry == [NoEntry EXCEPT !.state = "DISCOVERED"]

Contracts == <<"AuditAuction", "PaymentSettlement">>

\* The transaction that settles a job completes it: one event of each contract.
Event(c, i) == IF c = "PaymentSettlement" /\ story[i] = "JobCompleted"
               THEN "JobSettled" ELSE story[i]
LogsAfter(c, last) ==
    SelectSeq([i \in 1 .. mined |-> i],
              LAMBDA i : i > last /\ (c = "AuditAuction" \/ story[i] = "JobCompleted"))

-----------------------------------------------------------------------------
\* Faulty variants of definitions below.

NotAgain(m, to) == FALSE            \* a state entered again is an error

-----------------------------------------------------------------------------
\* The iNFT service and the handlers, each a sequence of updates that are saved
\* one by one.

Follows ==
    [none |-> {}, DISCOVERED |-> {"AUCTION_OPEN", "CANCELLED"},
     AUCTION_OPEN |-> {"AUDITING_IN_PROGRESS", "CANCELLED"},
     AUDITING_IN_PROGRESS |-> {"COMPLETED"}, COMPLETED |-> {}, CANCELLED |-> {}]

\* What transitionAuditJobState takes for a replay.
Again(m, to) == m.state = to

Updates ==
    [JobPosted |-> <<"link", "AUCTION_OPEN", "auction">>,
     BidSubmitted |-> <<"participant", "count">>,
     WinnersSelected |-> <<"AUDITING_IN_PROGRESS", "winners">>,
     JobCancelled |-> <<"CANCELLED">>, JobCompleted |-> <<"COMPLETED">>,
     JobSettled |-> <<"pay", "COMPLETED">>]

\* The update throws: the rest of the handler is not done.
Throws(m, u) == u \in DOMAIN Follows /\ ~Again(m, u) /\ u \notin Follows[m.state]

Updated(m, u) ==
    CASE u = "link" -> [m EXCEPT !.job = TRUE]
      [] u = "auction" -> [m EXCEPT !.bids = 0, !.winners = FALSE]
      [] u = "participant" -> [m EXCEPT !.participants = @ + 1]
      [] u = "count" -> [m EXCEPT !.bids = @ + 1]
      [] u = "winners" -> [m EXCEPT !.winners = TRUE]
      [] u = "pay" -> [m EXCEPT !.paid = TRUE]
      [] OTHER -> [m EXCEPT !.state = u]

-----------------------------------------------------------------------------
\* The event listener.

OtherContract == CHOOSE c \in ToSet(Contracts) : c # polled

\* fetchContractLogs
Fetch ==
    /\ at = "fetch"
    /\ batch' = LogsAfter(polled, cursor[polled]) /\ step' = 0
    /\ IF batch' = <<>> THEN polled' = OtherContract /\ UNCHANGED at
       ELSE at' = "handle" /\ UNCHANGED polled
    /\ UNCHANGED <<story, mined, file, known, indexed, cursor, saved, minted, lost, crashes>>

\* Whether a handler finds the job's iNFT; JobPosted also looks for the contract.
Found(e) == indexed \/ (e = "JobPosted" /\ known.state # "none")

\* The end of a handler; the cursor moves on, whether or not it threw.
Done ==
    /\ cursor' = [cursor EXCEPT ![polled] = Head(batch)]
    /\ batch' = Tail(batch) /\ step' = 0
    /\ at' = IF batch' = <<>> THEN "save" ELSE "handle"

\* The handler's next update, or its end.
Handle ==
    /\ at = "handle"
    /\ LET e == Event(polled, Head(batch))
           u == Updates[e][step + 1]
       IN  IF Found(e) /\ ~Throws(known, u)
           THEN /\ known' = Updated(known, u) /\ file' = known'
                /\ indexed' = TRUE
                /\ IF step + 1 = Len(Updates[e]) THEN Done
                   ELSE step' = step + 1 /\ UNCHANGED <<cursor, batch, at>>
                /\ UNCHANGED lost
           ELSE /\ Done
                /\ lost' = (lost \/ ~Found(e))
                /\ UNCHANGED <<known, file, indexed>>
    /\ UNCHANGED <<story, mined, saved, polled, minted, crashes>>

SaveCursor ==
    /\ at = "save"
    /\ saved' = cursor /\ at' = "fetch" /\ polled' = OtherContract
    /\ UNCHANGED <<story, mined, file, known, indexed, cursor, batch, step, minted, lost, crashes>>

\* What a starting listener has.
Started(entry, cursors) ==
    /\ known' = entry /\ indexed' = entry.job /\ cursor' = cursors
    /\ at' = "fetch" /\ polled' = "AuditAuction" /\ batch' = <<>> /\ step' = 0

Restart ==
    /\ crashes < MaxCrashes /\ crashes' = crashes + 1
    /\ Started(file, saved)
    /\ lost' = (lost \/ file # known)
    /\ UNCHANGED <<story, mined, file, saved, minted>>

-----------------------------------------------------------------------------
\* The discovery listener, and writes for other iNFTs.

MintAuditJobINFT ==
    /\ minted.state = "none" /\ file.state = "none"
    /\ minted' = NewEntry /\ file' = NewEntry
    /\ UNCHANGED <<story, mined, listener, lost, crashes>>

RestartDiscovery ==
    /\ crashes < MaxCrashes /\ crashes' = crashes + 1
    /\ minted' = file
    /\ UNCHANGED <<story, mined, file, listener, lost>>

\* Either process saves another iNFT, and with it its copy of this one.
SaveOther ==
    /\ file' \in {known, minted}
    /\ UNCHANGED <<story, mined, listener, minted, lost, crashes>>

\* The mirror node has the next event.
Mine ==
    /\ mined < Len(story) /\ mined' = mined + 1
    /\ UNCHANGED <<story, file, listener, minted, lost, crashes>>

-----------------------------------------------------------------------------

\* The event listener was started before or after the mint.
Init ==
    /\ story \in Stories /\ mined = 0
    /\ minted \in {NoEntry, NewEntry} /\ file = minted /\ known = minted
    /\ indexed = FALSE /\ batch = <<>> /\ step = 0
    /\ at = "fetch" /\ polled = "AuditAuction"
    /\ cursor = [c \in ToSet(Contracts) |-> 0] /\ saved = cursor
    /\ lost = FALSE /\ crashes = 0

Listen == Fetch \/ Handle \/ SaveCursor

Next == Listen \/ Restart \/ MintAuditJobINFT \/ RestartDiscovery \/ SaveOther \/ Mine

\* The listener's poll sets its own timer again.
Fairness == WF_mirrorVars(Listen)

Spec == Init /\ [][Next]_mirrorVars /\ Fairness

-----------------------------------------------------------------------------

Emitted(e) == \E i \in 1 .. mined : story[i] = e

\* In the end the iNFT says what the chain says of the job: its state, its
\* winners, that it is paid and at least the bids that were made, however the
\* polls of the two contracts interleave with their events and wherever the
\* listener crashed between two writes, unless it did not find the entry or
\* another process had put an old one in its place when it was restarted.
Mirrored ==
    <>[](lost \/ /\ known.state = IF Emitted("JobCompleted") THEN "COMPLETED"
                                 ELSE IF Emitted("JobCancelled") THEN "CANCELLED"
                                 ELSE IF Emitted("WinnersSelected") THEN "AUDITING_IN_PROGRESS"
                                 ELSE IF Emitted("JobPosted") THEN "AUCTION_OPEN"
                                 ELSE known.state
                 /\ known.winners <=> Emitted("WinnersSelected")
                 /\ known.paid <=> Emitted("JobCompleted")
                 /\ LET bids == Cardinality({i \in 1 .. mined : story[i] = "BidSubmitted"})
                    IN  known.bids >= bids /\ known.participants >= bids)
=============================================================================
