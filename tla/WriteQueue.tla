----------------------------- MODULE WriteQueue -----------------------------
(***************************************************************************)
(* The orchestrator's write queue: every transaction of its one wallet     *)
(* goes through it, so that nonces are handed out one at a time.  Winner   *)
(* selection may ask for high priority, which a streak cap keeps from      *)
(* shutting the others out.                                                *)
(*                                                                         *)
(* The process is single-threaded: an action is the code from one await to *)
(* the next.  A send settles, with success or an error, at any later time. *)
(***************************************************************************)
EXTENDS Integers, Sequences, FiniteSets, SequencesExt

CONSTANTS
    Tasks,          \* callers; each has one write pending at most
    High,           \* those that ask for high priority
    MaxHighStreak   \* writeQueueMaxHighStreak

ASSUME QueueAssumption == High \subseteq Tasks /\ MaxHighStreak \in Nat \ {0}

VARIABLES
    fastPath,       \* fastWinnerPathEnabled, read when the process starts
    queue,          \* _writeQueue
    running,        \* _writeQueueRunning
    sending,        \* tasks whose sendFn is awaited by a drain loop
    streak,         \* _highPriorityStreak, counted up to the cap
    \* history
    passing,        \* the high task being sent was taken while a normal one waited
    passed          \* such tasks sent with success since the last normal one,
                    \* counted up to one above the cap

vars == <<fastPath, queue, running, sending, streak, passing, passed>>

-----------------------------------------------------------------------------

IsHigh(t) == t \in High
IsNormal(t) == t \notin High

\* The position of the first normal task, or 0.
FirstNormal(q) == SelectInSeq(q, IsNormal)

(***************************************************************************)
(* Faulty variants, one plausible slip each; no specification uses them.   *)
(***************************************************************************)
NeverDue(s) == FALSE                    \* forgets the streak cap
CountsNothing(s, t) == 0                \* resets the streak with every send
Jumped(q, t) ==                         \* a high task goes before the other high ones
    IF fastPath /\ IsHigh(t) THEN <<t>> \o q ELSE Append(q, t)

-----------------------------------------------------------------------------

\* _enqueueWriteWithPriority: a high task goes before the first normal one.
Enqueued(q, t) ==
    IF fastPath /\ IsHigh(t) /\ FirstNormal(q) # 0
    THEN InsertAt(q, FirstNormal(q), t)
    ELSE Append(q, t)

\* The streak is at its cap.
Due(s) == s >= MaxHighStreak

\* _dequeueNextWriteTask: where the next task is taken from.
NextIndex(q, s) == IF fastPath /\ Due(s) /\ FirstNormal(q) # 0 THEN FirstNormal(q) ELSE 1

\* The streak after task t was sent.
Counted(s, t) == IF ~IsHigh(t) THEN 0 ELSE IF s < MaxHighStreak THEN s + 1 ELSE s

\* The history after a send: one more task has passed a waiting normal one.
OneMorePassed(p) == IF passing /\ p <= MaxHighStreak THEN p + 1 ELSE p

MayDrain == ~running

\* The flag of a drain loop that found the queue empty.
Stopped == FALSE

\* The drain loop at its head, with queue q, streak s and history p, while
\* the tasks in others are being sent: the next send begins, or the loop ends.
Drain(q, s, p, others) ==
    /\ streak' = s
    /\ IF q = <<>>
       THEN /\ queue' = q
            /\ running' = Stopped
            /\ sending' = others
            /\ passing' = FALSE
            /\ passed' = p
       ELSE LET k == NextIndex(q, s) IN
            /\ queue' = RemoveAt(q, k)
            /\ running' = TRUE
            /\ sending' = others \cup {q[k]}
            /\ passing' = (IsHigh(q[k]) /\ FirstNormal(q) # 0)
            /\ passed' = IF IsHigh(q[k]) THEN p ELSE 0
    /\ UNCHANGED fastPath

\* A caller asks for a write; if no loop runs, its send begins at once.
Enqueue(t) ==
    /\ t \notin ToSet(queue) \cup sending
    /\ IF MayDrain THEN Drain(Enqueued(queue, t), streak, passed, sending)
       ELSE /\ queue' = Enqueued(queue, t)
            /\ UNCHANGED <<fastPath, running, sending, streak, passing, passed>>

\* A send succeeds: the streak is counted.
Resolve(t) ==
    /\ t \in sending
    /\ Drain(queue, Counted(streak, t), OneMorePassed(passed), sending \ {t})

\* A send fails: the streak stays as it was.
Reject(t) ==
    /\ t \in sending
    /\ Drain(queue, streak, passed, sending \ {t})

Init ==
    /\ fastPath \in BOOLEAN
    /\ queue = <<>> /\ running = FALSE /\ sending = {} /\ streak = 0
    /\ passing = FALSE /\ passed = 0

Next == \E t \in Tasks : Enqueue(t) \/ Resolve(t) \/ Reject(t)

Spec == Init /\ [][Next]_vars

\* Every send settles (the RPC client gives up after a time), and one that is
\* tried again and again succeeds in the end.  Callers may stop calling.
Fairness ==
    /\ WF_vars(\E t \in Tasks : Resolve(t) \/ Reject(t))
    /\ \A t \in Tasks : SF_vars(Resolve(t))

FairSpec == Spec /\ Fairness

-----------------------------------------------------------------------------
(***************************************************************************)
(* Properties.                                                             *)
(***************************************************************************)

\* Types; no task is queued twice or while it is being sent.
TypeOK ==
    /\ fastPath \in BOOLEAN
    /\ queue \in Seq(Tasks)
    /\ running \in BOOLEAN
    /\ sending \subseteq Tasks
    /\ streak \in 0..MaxHighStreak
    /\ passing \in BOOLEAN
    /\ passed \in Nat

\* The flag is up exactly while one send is awaited: two are never on their
\* way together (they would race for a nonce), and a queued task always has a
\* loop that will come to it, whenever the flag fell.
OneLoop ==
    /\ running <=> sending # {}
    /\ queue # <<>> => running
    /\ \A t, u \in sending : t = u

\* While a normal task waits, at most MaxHighStreak high ones are sent with
\* success before it, however calls, successes and failures interleave.
BoundedOvertaking == fastPath => passed <= MaxHighStreak

\* Every task that is queued is sent in the end, even if high ones never stop
\* coming.
EveryTaskIsSent == \A t \in Tasks : t \in ToSet(queue) ~> t \in sending

\* Pairs of queued tasks of the same priority, the first before the second.
Ahead(q) ==
    {p \in ToSet(q) \X ToSet(q) :
        /\ IsHigh(p[1]) <=> IsHigh(p[2])
        /\ \E i, j \in DOMAIN q : i < j /\ q[i] = p[1] /\ q[j] = p[2]}

\* The queue implements the two-class queue: splicing and picking from the
\* middle keep the order of the calls within each priority, lose nothing and
\* send nothing twice.
Classes == INSTANCE TwoClassQueue WITH waiting <- ToSet(queue), ahead <- Ahead(queue)

ImplementsTwoClasses == Classes!Spec
=============================================================================
