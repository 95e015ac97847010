------------------------------- MODULE Scanner -------------------------------
(***************************************************************************)
(* The cycles of the scanner agent.  A cycle asks the mirror node for the  *)
(* contracts created after the cursor, offers and publishes those that no  *)
(* cycle has seen, at most Cap of them, and moves the cursor.  setInterval *)
(* starts cycles whether the last one has ended or not.  Contracts are     *)
(* numbered by their time of creation.                                     *)
(***************************************************************************)
EXTENDS Integers, FiniteSets, FiniteSetsExt

CONSTANTS
    Cycles,         \* bound: cycles that overlap
    MaxContracts,   \* bound: contracts ever created
    FetchLimit,     \* CONTRACT_FETCH_LIMIT
    Cap,            \* SCANNER_MAX_DISCOVERIES_PER_CYCLE
    MaxMisfortunes  \* bound: failures and restarts together

\* What the constants must be, assumed where they get their values.
ConstantsOK == {MaxContracts, FetchLimit, Cap, MaxMisfortunes} \subseteq Nat

VARIABLES
    created,        \* contracts on the chain: 1 .. created
    seen,           \* seenContracts
    cursor,         \* lastSeenTimestamp
    cycle,          \* the cycles
    published,      \* how often this process published each contract
    missed,         \* history: contracts left off a page, or older than the start
    misfortunes     \* history: failures and restarts

scannerVars == <<created, seen, cursor, cycle, published, missed, misfortunes>>

Resting == [at |-> "resting", list |-> {}, done |-> 0]

(***************************************************************************)
(* Faulty variants, one plausible slip each; no specification uses them.   *)
(***************************************************************************)
SeenTooLate(c) == seen                          \* marked only when the cycle is over with it

-----------------------------------------------------------------------------

Misfortune == misfortunes < MaxMisfortunes /\ misfortunes' = misfortunes + 1
AllWell == UNCHANGED misfortunes

At(k, point) == cycle[k].at = point
Goto(k, point) == cycle' = [cycle EXCEPT ![k].at = point]
Current(k) == Min(cycle[k].list)
Done(k) == [cycle[k] EXCEPT !.at = "listing", !.list = @ \ {Current(k)}]

\* A contract is deployed.
Deploy ==
    /\ created < MaxContracts /\ created' = created + 1 /\ AllWell
    /\ UNCHANGED <<seen, cursor, cycle, published, missed>>

\* The newest FetchLimit contracts after the cursor.
Page == {c \in cursor + 1 .. created : c > created - FetchLimit}

\* The timer; the wallet has HBAR and the mirror node answers with a page.
Start(k) ==
    /\ At(k, "resting") /\ Page # {}
    /\ cycle' = [cycle EXCEPT ![k] = [at |-> "fetching", list |-> Page, done |-> 0]]
    /\ missed' = missed \cup ((cursor + 1 .. created) \ Page)
    /\ AllWell /\ UNCHANGED <<created, seen, cursor, published>>

\* The answer, filtered by the cursor as it is by now.
Fetched(k) ==
    /\ At(k, "fetching")
    /\ cycle' = [cycle EXCEPT ![k].at = "listing", ![k].list = {c \in @ : c > cursor}]
    /\ AllWell /\ UNCHANGED <<created, seen, cursor, published, missed>>

\* The cycle is over, at the end of the list or at the cap.
End(k) ==
    /\ At(k, "listing") /\ (cycle[k].list = {} \/ cycle[k].done >= Cap)
    /\ cycle' = [cycle EXCEPT ![k] = Resting]
    /\ AllWell /\ UNCHANGED <<created, seen, cursor, published, missed>>

\* createDiscoveryFromMirror: bytecode, classification, deployer.
Describe(k) ==
    /\ At(k, "listing") /\ cycle[k].list # {} /\ cycle[k].done < Cap
    /\ Goto(k, "describing")
    /\ AllWell /\ UNCHANGED <<created, seen, cursor, published, missed>>

Seen(c) == seen \cup {c}

\* The description is there: a contract that some cycle has seen is skipped,
\* any other is marked at once and offered as a hot lead, or not.
Look(k) ==
    LET c == Current(k) IN
    /\ At(k, "describing")
    /\ IF c \in seen THEN cycle' = [cycle EXCEPT ![k] = Done(k)] /\ UNCHANGED seen
       ELSE Goto(k, "publishing") /\ seen' = Seen(c)
    /\ AllWell /\ UNCHANGED <<created, cursor, published, missed>>

\* The description fails: the cycle ends with an exception.
CannotDescribe(k) ==
    /\ At(k, "describing") /\ cycle' = [cycle EXCEPT ![k] = Resting]
    /\ Misfortune /\ UNCHANGED <<created, seen, cursor, published, missed>>

\* CONTRACT_DISCOVERED is published, after the delay of a hot lead.
Publish(k) ==
    /\ At(k, "publishing")
    /\ published' = [published EXCEPT ![Current(k)] = @ + 1]
    /\ cycle' = [cycle EXCEPT ![k].at = "advancing", ![k].done = @ + 1]
    /\ AllWell /\ UNCHANGED <<created, seen, cursor, missed>>

\* The payload is invalid, the listing fails in strict mode, or the
\* publication fails: the cycle goes on with the next contract, or stops if
\* the wallet cannot be filled up.  The contract stays marked as seen.
PublishFails(k) ==
    /\ At(k, "publishing") /\ Misfortune
    /\ \E next \in {Done(k), Resting} : cycle' = [cycle EXCEPT ![k] = next]
    /\ \E n \in {0, 1} : published' = [published EXCEPT ![Current(k)] = @ + n]
    /\ UNCHANGED <<created, seen, cursor, missed>>

NewCursor(k) == Current(k)

\* AUCTION_CREATED is in the audit log; the cursor moves to the contract, which
\* may be back when another cycle was faster.
Advance(k) ==
    /\ At(k, "advancing") /\ cursor' = NewCursor(k)
    /\ cycle' = [cycle EXCEPT ![k] = Done(k)]
    /\ AllWell /\ UNCHANGED <<created, seen, published, missed>>

\* The cursor is set back by the look-back; everything else is forgotten.
Reboot ==
    /\ Misfortune /\ seen' = {} /\ cursor' \in 0 .. created
    /\ missed' = missed \cup 1 .. cursor'
    /\ cycle' = [k \in Cycles |-> Resting]
    /\ published' = [c \in 1 .. MaxContracts |-> 0]
    /\ UNCHANGED created

-----------------------------------------------------------------------------

Init ==
    /\ created = 0 /\ cursor = 0 /\ seen = {} /\ missed = {} /\ misfortunes = 0
    /\ cycle = [k \in Cycles |-> Resting]
    /\ published = [c \in 1 .. MaxContracts |-> 0]

Cycling(k) ==
    \/ Start(k) \/ Fetched(k) \/ End(k) \/ Describe(k) \/ Look(k)
    \/ Publish(k) \/ Advance(k)

Next ==
    \/ \E k \in Cycles : Cycling(k) \/ CannotDescribe(k) \/ PublishFails(k)
    \/ Deploy \/ Reboot

\* The timer fires and awaits settle.
Fairness == \A k \in Cycles : WF_scannerVars(Cycling(k))

Spec == Init /\ [][Next]_scannerVars /\ Fairness

-----------------------------------------------------------------------------

\* Cycles that overlap, and a cursor that goes back, never publish a contract
\* twice, and the cursor never passes one that no cycle has looked at, except
\* for those that did not fit on a page.
ScannedOnce ==
    /\ \A c \in DOMAIN published : published[c] <= 1
    /\ \A c \in 1 .. cursor : c \in seen \cup missed

=============================================================================
