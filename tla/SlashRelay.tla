----------------------------- MODULE SlashRelay ------------------------------
(* From a slash of an agent to a slash of its delegators, where               *)
(* DelegatedStaking takes the same share of every delegation.  There are two  *)
(* ways, and the deployment chooses.  StakingManager asks for it at once      *)
(* where it is told of DelegatedStaking; and the orchestrator, which hears of *)
(* slashes and of how their appeals end, remembers each slash until its       *)
(* appeal has ended and asks for it then (orchestrator.js:3384-3442).         *)
(* DelegatedStaking obeys one of them.                                        *)
(*                                                                            *)
(* Only the records' status is kept of StakingManager, whose stakes are in    *)
(* the module of that name, and only the number of calls that took effect of  *)
(* DelegatedStaking.                                                          *)
EXTENDS Integers, FiniteSets

CONSTANTS
    SlashIds,       \* the slashes that may happen
    MaxTroubles     \* bound: calls that fail and restarts, together

VARIABLES
    wiring,         \* what the contracts are told of each other, once and for all
    appealStatus,   \* of each record: none, pending, appealed, approved or denied
    heralds,        \* events not heard yet: <<name, slash>>
    pendingSlashes, \* _pendingSlashes, in memory
    calls,          \* calls of propagateSlash whose receipt is awaited
    propagated,     \* how often each slash reached DelegatedStaking
    dropped,        \* history: slashes that a restart, a failed call or an event
                    \* heard too early left unknown
    troubles

slashVars == <<wiring, appealStatus, heralds, pendingSlashes, calls, propagated, dropped, troubles>>
relaying == <<pendingSlashes, calls, propagated, dropped>>

(***************************************************************************)
(* Faulty variants, one plausible slip each; no specification uses them.   *)
(***************************************************************************)
OnlyAfterAppeal == {"AppealDenied"}         \* AppealExpired has no listener

-----------------------------------------------------------------------------
\* DelegatedStaking: propagateSlash, which its modifier keeps for one caller.

Obeys(caller) == wiring.stakingManager = caller
Mined(s) == propagated' = [propagated EXCEPT ![s] = @ + 1]

\* StakingManager has a DelegatedStaking to call, and is the one it obeys.
Direct == wiring.delegatedStaking /\ Obeys("StakingManager")

-----------------------------------------------------------------------------
\* StakingManager.

Trouble == troubles < MaxTroubles /\ troubles' = troubles + 1
AllWell == UNCHANGED troubles

\* A record's status changes; an event, if any, tells of it.
Becomes(s, status, events) ==
    /\ appealStatus' = [appealStatus EXCEPT ![s] = status]
    /\ heralds' = heralds \cup events
    /\ UNCHANGED <<wiring, pendingSlashes, calls>>
Announced(s, status, events) ==
    Becomes(s, status, events) /\ AllWell /\ UNCHANGED <<propagated, dropped>>

\* initiateSlash ends with a call of propagateSlash whose failure it ignores.
InitiateSlash(s) ==
    /\ appealStatus[s] = "none" /\ Becomes(s, "pending", {<<"SlashInitiated", s>>})
    /\ \/ Direct /\ Mined(s) /\ AllWell /\ UNCHANGED dropped
       \/ Direct /\ Trouble /\ dropped' = dropped \cup {s} /\ UNCHANGED propagated
       \/ ~Direct /\ AllWell /\ UNCHANGED <<propagated, dropped>>

FileAppeal(s) == appealStatus[s] = "pending" /\ Announced(s, "appealed", {})

ResolveAppeal(s) ==
    /\ appealStatus[s] = "appealed"
    /\ \/ Announced(s, "approved", {})
       \/ Announced(s, "denied", {<<"AppealDenied", s>>})

\* All records whose window has closed without an appeal.
FinalizeExpiredAppeals(expired) ==
    /\ expired # {} /\ \A s \in expired : appealStatus[s] = "pending"
    /\ appealStatus' = [s \in SlashIds |-> IF s \in expired THEN "denied" ELSE appealStatus[s]]
    /\ heralds' = heralds \cup {<<"AppealExpired", s>> : s \in expired}
    /\ AllWell /\ UNCHANGED <<wiring, relaying>>

-----------------------------------------------------------------------------
\* The orchestrator.  Each event has a poll of its own, so that they may be
\* heard in any order.

SlashInitiated(s) ==
    /\ <<"SlashInitiated", s>> \in heralds
    /\ heralds' = heralds \ {<<"SlashInitiated", s>>}
    /\ pendingSlashes' = pendingSlashes \cup {s}
    /\ AllWell /\ UNCHANGED <<wiring, appealStatus, calls, propagated, dropped>>

\* The events that end an appeal for good.
Final == {"AppealDenied", "AppealExpired"}

\* _finalizeSlash forgets the slash, then sends the transaction.
FinalizeSlash(s, event) ==
    /\ event \in Final /\ <<event, s>> \in heralds
    /\ heralds' = heralds \ {<<event, s>>}
    /\ IF s \in pendingSlashes
       THEN /\ pendingSlashes' = pendingSlashes \ {s}
            /\ calls' = calls \cup {s} /\ UNCHANGED dropped
       ELSE dropped' = dropped \cup {s} /\ UNCHANGED <<pendingSlashes, calls>>
    /\ AllWell /\ UNCHANGED <<wiring, appealStatus, propagated>>

\* propagateDelegatedSlash: mined, lost, or mined with the receipt lost; or it
\* reverts.  A failure is logged and no more.
Propagate(s) ==
    /\ s \in calls /\ calls' = calls \ {s}
    /\ \/ Obeys("orchestrator") /\ Mined(s) /\ AllWell /\ UNCHANGED dropped
       \/ /\ Obeys("orchestrator") /\ Trouble
          /\ dropped' = dropped \cup {s} /\ (Mined(s) \/ UNCHANGED propagated)
       \/ ~Obeys("orchestrator") /\ AllWell /\ UNCHANGED <<propagated, dropped>>
    /\ UNCHANGED <<wiring, appealStatus, heralds, pendingSlashes>>

\* A restart: the map is gone; events in between are not heard.
Restart ==
    /\ Trouble
    /\ dropped' = dropped \cup pendingSlashes \cup calls \cup {h[2] : h \in heralds}
    /\ heralds' = {} /\ pendingSlashes' = {} /\ calls' = {}
    /\ \E mined \in SUBSET {s \in calls : Obeys("orchestrator")} :
         propagated' = [s \in SlashIds |-> propagated[s] + IF s \in mined THEN 1 ELSE 0]
    /\ UNCHANGED <<wiring, appealStatus>>

-----------------------------------------------------------------------------

Init ==
    /\ wiring \in [delegatedStaking : BOOLEAN, stakingManager : {"StakingManager", "orchestrator"}]
    /\ appealStatus = [s \in SlashIds |-> "none"]
    /\ heralds = {} /\ pendingSlashes = {} /\ calls = {}
    /\ propagated = [s \in SlashIds |-> 0]
    /\ dropped = {} /\ troubles = 0

Relay(s) ==
    SlashInitiated(s) \/ (\E event \in Final : FinalizeSlash(s, event)) \/ Propagate(s)

Next ==
    \/ \E s \in SlashIds : InitiateSlash(s) \/ FileAppeal(s) \/ ResolveAppeal(s) \/ Relay(s)
    \/ \E expired \in SUBSET SlashIds : FinalizeExpiredAppeals(expired)
    \/ Restart

\* Events arrive, awaits settle.
Fairness == \A s \in SlashIds : WF_slashVars(Relay(s))

Spec == Init /\ [][Next]_slashVars /\ Fairness

-----------------------------------------------------------------------------

\* When the delegators have to pay for a slash: at once where StakingManager has
\* it propagated, whatever comes of the appeal, as DelegatedStaking.sol:570-577
\* documents; otherwise when its appeal has failed.
Due(s) == IF Direct THEN appealStatus[s] # "none" ELSE appealStatus[s] = "denied"

\* The delegators of a slashed agent pay at most once for each slash, although
\* both StakingManager and the orchestrator ask for it; and where they wait for
\* the appeal, never before it has failed.
PayAtMostOnce == \A s \in SlashIds : propagated[s] <= IF Due(s) THEN 1 ELSE 0

\* Somebody asks DelegatedStaking whom it obeys.
Wired == wiring.delegatedStaking \/ Obeys("orchestrator")

\* So it is; and in the end they do pay, unless the process or the transaction
\* failed in between, or the end of the appeal was heard before its beginning.
DelegatorsPay ==
    /\ []PayAtMostOnce
    /\ \A s \in SlashIds : Wired /\ Due(s) ~> propagated[s] = 1 \/ s \in dropped
=============================================================================
