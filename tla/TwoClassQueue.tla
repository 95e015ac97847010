---------------------------- MODULE TwoClassQueue ----------------------------
(***************************************************************************)
(* What the orchestrator's write queue promises its callers: their         *)
(* transactions are sent one at a time, each once, the ones of a priority  *)
(* in the order of their calls, and the sender never rests while one       *)
(* waits.  Which priority goes first is left open.                         *)
(***************************************************************************)
EXTENDS FiniteSets

CONSTANTS Tasks, High

VARIABLES
    waiting,        \* the tasks that wait
    ahead,          \* pairs of them of the same priority: the first was called before
    sending         \* the task being sent, if any

vars == <<waiting, ahead, sending>>

SamePriority(t, u) == t \in High <=> u \in High

\* A waiting task no other one of its priority is ahead of.
First(t) == t \in waiting /\ \A u \in waiting : <<u, t>> \notin ahead

Init == waiting = {} /\ ahead = {} /\ sending = {}

\* Sends at once what finds the sender at rest.
Submit(t) ==
    /\ t \notin waiting \cup sending
    /\ IF sending = {} THEN sending' = {t} /\ UNCHANGED <<waiting, ahead>>
       ELSE /\ UNCHANGED sending
            /\ waiting' = waiting \cup {t}
            /\ ahead' = ahead \cup {<<u, t>> : u \in {u \in waiting : SamePriority(u, t)}}

\* A send is over, and the next begins.
Proceed ==
    /\ sending # {}
    /\ \/ \E t \in waiting :
            /\ First(t)
            /\ sending' = {t} /\ waiting' = waiting \ {t}
            /\ ahead' = {p \in ahead : p[1] # t /\ p[2] # t}
       \/ /\ waiting = {}
          /\ sending' = {} /\ UNCHANGED <<waiting, ahead>>

Next == Proceed \/ \E t \in Tasks : Submit(t)

Spec == Init /\ [][Next]_vars
=============================================================================
