---------------------------- MODULE Invitations -----------------------------
(* Whom the orchestrator invites to bid.  The end of handleDiscovery takes    *)
(* the eligible agents of the roster, asks the registry of each whether it is *)
(* active, and when nobody is left rebuilds the roster from the registry and  *)
(* tries once more (orchestrator.js:1896-1971, 2510-2562, 1177-1338).  The    *)
(* handlers of several discoveries do so at once, over one roster and one     *)
(* cache of answers.  A read of the registry is awaited, and what it answers  *)
(* may no longer hold when it is stored: sending the read and storing its     *)
(* answer are steps of their own, and the answer is any standing that the     *)
(* agent had between the two.                                                 *)
(*                                                                            *)
(* The roster that a process begins with is the one an earlier process saved. *)
(* An agent's stake, reputation and specializations only make it fit or unfit *)
(* for the contract, and the roster's entries of unfit agents are left out,   *)
(* with them those made from an unreadable profile, which have no stake and a *)
(* name of their own.                                                         *)
EXTENDS Integers, FiniteSets

CONSTANTS
    Agents,         \* agents of the registry, numbered as they registered
    Discoveries,    \* handlers that have a job to announce
    Startup,        \* the rebuilding of the roster at start-up, not one of them
    MaxTroubles,    \* bound: reads and publications that fail
    MaxChanges      \* bound: changes of the registry

VARIABLES
    registry,       \* AgentRegistry: what it says of each agent
    roster,         \* Roster.agents, and whether lastSeen is past the expiry
    cache,          \* onchainActiveCache: the answer, and its age
    run,            \* the handlers and the start-up: where each awaits
    steady,         \* history: agents active and fit ever since a handler began,
                    \*   with no older answer on its way then and no failure since
    troubles, changes

inviteVars == <<registry, roster, cache, run, steady, troubles, changes>>

Runners == Discoveries \cup {Startup}
Standings == {"inactive", "unfit", "fit"}
Active(a) == registry[a] \in {"unfit", "fit"}

\* A runner: the agents it has yet to ask about, those it keeps, how often it has
\* evaluated the roster, the agent that it awaits an answer about, the standings
\* that agent had since, and whether an old answer serves if there is none.
Run(pc) == [pc |-> pc, todo |-> {}, kept |-> {}, pass |-> 0,
            at |-> {}, seen |-> {}, old |-> FALSE]
At(r, pc) == run[r].pc = pc

\* The runner sends a read about an agent.
Reads(r, a, pc, old) ==
    run' = [run EXCEPT ![r].pc = pc, ![r].todo = @ \ {a}, ![r].at = {a},
                       ![r].seen = {registry[a]}, ![r].old = old]

\* An answer on its way to a runner may be older than the registry's standing.
Outdated(a) == \E r \in Runners : a \in run[r].at /\ run[r].seen # {registry[a]}

Unknown == [active |-> FALSE, age |-> "expired"]
Answer(active) == [active |-> active, age |-> "fresh"]

(***************************************************************************)
(* Faulty variants, one plausible slip each; no specification uses them.   *)
(***************************************************************************)
CacheUntouched(a, active) == cache          \* the rebuilding does not refresh the cache

-----------------------------------------------------------------------------
\* A failure concerns every handler that runs: it is promised nothing more.

Trouble ==
    /\ troubles < MaxTroubles /\ troubles' = troubles + 1
    /\ steady' = [r \in Runners |-> {}]
AllWell == UNCHANGED <<troubles, steady>>

Moves(r, next) == run' = [run EXCEPT ![r] = next]

\* Agents are dealt with in their order.
First(a, todo) == a \in todo /\ \A b \in todo : a <= b

\* The filter has these agents to ask about and keeps those.
Asking(todo, kept, pass) ==
    [Run(IF todo # {} THEN "asking"
         ELSE IF kept = {} /\ pass = 1 THEN "listing" ELSE "publishing")
       EXCEPT !.todo = todo, !.kept = kept, !.pass = pass]

\* evaluateEligibility of these entries: stale ones leave the roster.
Evaluate(d, pass, entries) ==
    /\ Moves(d, Asking({a \in Agents : entries[a] = "fresh"}, {}, pass))
    /\ roster' = [a \in Agents |-> IF entries[a] = "stale" THEN "none" ELSE entries[a]]

\* The rebuilding has these agents left; after the last one the handler evaluates
\* the roster again.
Rebuilding(r, todo, entries) ==
    IF todo = {} /\ r # Startup THEN Evaluate(r, 2, entries)
    ELSE /\ Moves(r, IF todo = {} THEN Run("done") ELSE [Run("listed") EXCEPT !.todo = todo])
         /\ roster' = entries

-----------------------------------------------------------------------------

\* The handler waits for the roster of the start-up, and evaluates.
Begin(d) ==
    /\ At(d, "idle") /\ At(Startup, "done") /\ \A e \in Discoveries : e < d => ~At(e, "idle")
    /\ Evaluate(d, 1, roster)
    /\ steady' = [steady EXCEPT ![d] = {a \in Agents : registry[a] = "fit" /\ ~Outdated(a)}]
    /\ UNCHANGED <<registry, cache, troubles, changes>>

\* What a handler makes of an answer about an agent: its job's invitation keeps it.
Keeps(d, a, todo, active) ==
    Moves(d, Asking(todo, IF active THEN run[d].kept \cup {a} ELSE run[d].kept, run[d].pass))

\* getCachedOnchainActiveStatus of one agent: a fresh answer of the cache serves,
\* otherwise the registry is asked, and the old answer remembered.
Ask(d, a) ==
    /\ At(d, "asking") /\ First(a, run[d].todo)
    /\ IF cache[a].age = "fresh" THEN Keeps(d, a, run[d].todo \ {a}, cache[a].active)
       ELSE Reads(d, a, "awaiting", cache[a].age = "old" /\ cache[a].active)
    /\ AllWell /\ UNCHANGED <<registry, roster, cache, changes>>

Answered(d, a) ==
    /\ At(d, "awaiting") /\ a \in run[d].at
    /\ \E standing \in run[d].seen :
           /\ cache' = [cache EXCEPT ![a] = Answer(standing # "inactive")]
           /\ Keeps(d, a, run[d].todo, standing # "inactive")
    /\ AllWell /\ UNCHANGED <<registry, roster, changes>>

\* After failed attempts the old answer serves, unless it has expired since.
AskFails(d, a) ==
    /\ At(d, "awaiting") /\ a \in run[d].at
    /\ \E active \in {FALSE, run[d].old} : Keeps(d, a, run[d].todo, active)
    /\ Trouble /\ UNCHANGED <<registry, roster, cache, changes>>

\* syncRosterFromRegistry: getAllAgents; a failure leaves the roster as it is.
List(r) ==
    /\ At(r, "listing")
    /\ \/ Rebuilding(r, Agents, roster) /\ AllWell
       \/ /\ Moves(r, Run(IF r = Startup THEN "done" ELSE "publishing"))
          /\ Trouble /\ UNCHANGED roster
    /\ UNCHANGED <<registry, cache, changes>>

\* What the rebuilding makes of an answer.
Cached(a, active) == [cache EXCEPT ![a] = Answer(active)]

\* The rebuilding asks whether an agent is active.
SyncActive(r, a) ==
    /\ At(r, "listed") /\ First(a, run[r].todo)
    /\ Reads(r, a, "checking", FALSE)
    /\ AllWell /\ UNCHANGED <<registry, roster, cache, changes>>

\* The profile of an active one is read next.
SyncActivated(r, a) ==
    /\ At(r, "checking") /\ a \in run[r].at /\ run[r].seen # {"inactive"}
    /\ cache' = Cached(a, TRUE) /\ Reads(r, a, "profile", FALSE)
    /\ AllWell /\ UNCHANGED <<registry, roster, changes>>

\* An agent that is inactive, or whose status cannot be read, counts as inactive,
\* also in the cache.
SyncInactive(r, a) ==
    /\ At(r, "checking") /\ a \in run[r].at
    /\ IF "inactive" \in run[r].seen THEN AllWell ELSE Trouble
    /\ cache' = Cached(a, FALSE) /\ Rebuilding(r, run[r].todo, roster)
    /\ UNCHANGED <<registry, changes>>

\* The profile of an active agent is entered in the roster; it may have become
\* inactive since.
SyncProfile(r) ==
    LET Enters(entry) == Rebuilding(r, run[r].todo,
                           [a \in Agents |-> IF a \in run[r].at THEN entry ELSE roster[a]])
    IN  /\ At(r, "profile")
        /\ \/ Enters("fresh") /\ run[r].seen # {"unfit"}
           \/ Enters("none") /\ run[r].seen # {"fit"}
        /\ AllWell /\ UNCHANGED <<registry, cache, changes>>

\* Or it cannot be read.
ProfileFails(r) ==
    /\ At(r, "profile") /\ Rebuilding(r, run[r].todo, roster)
    /\ Trouble /\ UNCHANGED <<registry, cache, changes>>

\* inviteAgents: one message names all of them, or nobody is invited.
Publish(d) ==
    /\ At(d, "publishing")
    /\ IF run[d].kept = {} THEN Moves(d, Run("nobody")) /\ AllWell
       ELSE \/ /\ Moves(d, Run("invited"))
               /\ steady' = [steady EXCEPT ![d] = {}] /\ UNCHANGED troubles
            \/ Moves(d, Run("unheard")) /\ Trouble
    /\ UNCHANGED <<registry, roster, cache, changes>>

-----------------------------------------------------------------------------
\* What else goes on.

\* AGENT_REGISTERED, with the stake and reputation its agent claims.
AgentRegistered(a) ==
    /\ roster' = [roster EXCEPT ![a] = "fresh"] /\ roster[a] # "fresh"
    /\ AllWell /\ UNCHANGED <<registry, cache, run, changes>>

\* A rebuilding under way has dealt with an agent, or is about to.
Renewed(r, a) == run[r].pc \in {"listed", "checking", "profile"} /\ a \notin run[r].todo

\* No PONG for the expiry, which is longer than any rebuilding takes.
GrowsStale(a) ==
    /\ roster[a] = "fresh" /\ ~\E r \in Runners : Renewed(r, a)
    /\ roster' = [roster EXCEPT ![a] = "stale"]
    /\ AllWell /\ UNCHANGED <<registry, cache, run, changes>>

\* An old answer still serves when the registry cannot be read; one that says
\* inactive is no better than none.
Ages(a) ==
    /\ cache[a].age # "expired"
    /\ cache' = [cache EXCEPT ![a] = IF @ = Answer(TRUE) THEN [@ EXCEPT !.age = "old"] ELSE Unknown]
    /\ AllWell /\ UNCHANGED <<registry, roster, run, changes>>

RegistryChanges(a, standing) ==
    /\ changes < MaxChanges /\ changes' = changes + 1
    /\ standing # registry[a]
    /\ registry' = [registry EXCEPT ![a] = standing]
    /\ steady' = [r \in Runners |-> steady[r] \ {a}]
    /\ run' = [r \in Runners |-> IF a \in run[r].at
                                 THEN [run[r] EXCEPT !.seen = @ \cup {standing}] ELSE run[r]]
    /\ UNCHANGED <<roster, cache, troubles>>

-----------------------------------------------------------------------------

Init ==
    /\ registry \in [Agents -> Standings]
    /\ roster \in [Agents -> {"none", "fresh", "stale"}]
    /\ cache = [a \in Agents |-> Unknown]
    /\ run = [r \in Runners |-> Run(IF r = Startup THEN "listing" ELSE "idle")]
    /\ steady = [r \in Runners |-> {}]
    /\ troubles = 0 /\ changes = 0

Next ==
    \/ \E d \in Discoveries : Begin(d) \/ Publish(d)
    \/ \E d \in Discoveries, a \in Agents : Ask(d, a) \/ Answered(d, a) \/ AskFails(d, a)
    \/ \E r \in Runners : List(r) \/ SyncProfile(r) \/ ProfileFails(r)
    \/ \E r \in Runners, a \in Agents :
          SyncActive(r, a) \/ SyncActivated(r, a) \/ SyncInactive(r, a)
    \/ \E a \in Agents : AgentRegistered(a) \/ GrowsStale(a) \/ Ages(a)
    \/ \E a \in Agents, standing \in Standings : RegistryChanges(a, standing)

Spec == Init /\ [][Next]_inviteVars

-----------------------------------------------------------------------------

\* A job is announced to somebody: when a handler ends without anyone to invite,
\* either a read failed while it ran, in this handler or in another, or no agent
\* was active and fit all that time without an answer from before, of this or
\* another handler, still on its way when the handler began: such an answer may
\* overwrite what a later one left in the cache or in the roster, and the agent is
\* passed over.  Nor does it say that all such agents are invited: one that the
\* cache wrongly takes for inactive is passed over as long as there is another.
SomebodyIsInvited ==
    \A d \in Discoveries : At(d, "nobody") => steady[d] = {}
=============================================================================
