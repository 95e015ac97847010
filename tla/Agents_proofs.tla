---------------------------- MODULE Agents_proofs ----------------------------
(***************************************************************************)
(* Proofs about the agents: AgentBidding, for any jobs, handlers,          *)
(* attempts, faults and restarts, and each of the three agents; and        *)
(* AuditPipeline as PipelineProcesses instantiates it, for any number of   *)
(* winners and troubles.                                                   *)
(***************************************************************************)
EXTENDS AgentBidding, PipelineProcesses, FiniteSetTheorems, SequenceTheorems, TLAPS

\* The steps of a handler, and its record.
Steps == Marked \cup {"idle", "waiting", "leaving", "skipping"}

CallShape == [pc : Steps, job : Jobs \cup {None}, behind : Calls \cup {None},
              attempt : Nat, unsure : BOOLEAN]

Memory == [pending : SUBSET Jobs, submitted : SUBSET Jobs, inFlight : SUBSET Jobs]

\* What holds of the handlers, wherever the queue is: whoever is busy has a job,
\* the lock names a handler that runs, who waits has somebody to wait for, two
\* that submit for a job make it overlapped, one that was submitted and not
\* audited has no other submission, and an audited one is not submitted again.
Busy(calls) == \A c \in Calls : calls[c].pc # "idle" => calls[c].job \in Jobs

LockHeld(calls, l) ==
    \A j \in Jobs : l[j] # None => calls[l[j]].pc # "idle" /\ calls[l[j]].job = j

Released(calls) ==
    \A c \in Calls : calls[c].pc = "waiting" =>
        \E d \in Calls \ {c} : d = calls[c].behind /\ calls[d].pc # "idle" /\ calls[d].job = calls[c].job

Separate(calls, o) ==
    \A c, d \in Calls :
        calls[c].pc \in Marked /\ calls[d].pc \in Marked /\ calls[c].job = calls[d].job =>
            c = d \/ calls[c].job \in o

Submitted(calls, m, o) ==
    \A j \in m.pending \ o : \A c \in Calls :
        calls[c].pc \in Marked /\ calls[c].job = j => calls[c].pc \in {"announcing", "failing"}

Audited(calls, m, o) ==
    \A j \in Jobs \ o : audits[j] # 0 =>
        /\ audits[j] = 1 /\ j \notin m.pending /\ status[j] = "won"
        /\ \A c \in Calls : calls[c].job = j => calls[c].pc # "awaiting"

Handlers(calls, m, l, o) ==
    /\ calls \in [Calls -> CallShape] /\ m \in Memory /\ l \in [Jobs -> Calls \cup {None}] /\ o \subseteq Jobs
    /\ Busy(calls) /\ LockHeld(calls, l) /\ Released(calls)
    /\ Separate(calls, o) /\ Submitted(calls, m, o) /\ Audited(calls, m, o)

\* What holds of the queue.
QueueOf(calls, q) ==
    /\ q \in Seq(Calls)
    /\ \A c \in Calls : calls[c].pc = "queued" <=> \E i \in DOMAIN q : q[i] = c
    /\ \A i, k \in DOMAIN q : q[i] = q[k] => i = k

OneRuns(calls, running, q) ==
    /\ running \in BOOLEAN /\ (q # <<>> => running)
    /\ running => \E c \in Calls : calls[c].pc \in Executing
    /\ \A c \in Calls : calls[c].pc \in Executing => running
    /\ \A c, d \in Calls : calls[c].pc \in Executing /\ calls[d].pc \in Executing => c = d

Chain ==
    /\ audits \in [Jobs -> Nat] /\ bids \subseteq Jobs
    /\ status \in [Jobs -> {"open", "closing", "won", "lost", "cancelled"}]
    /\ \A j \in Jobs : status[j] = "won" => j \in bids

BidInv ==
    /\ Handlers(call, memory, lock, overlapped)
    /\ QueueOf(call, queue) /\ OneRuns(call, draining, queue)
    /\ Chain

-----------------------------------------------------------------------------
(***************************************************************************)
(* A handler leaves the lock.                                              *)
(***************************************************************************)

\* What leaving makes of the handlers: that one is idle, those behind it have
\* begun, and the others are where they were.
Handed(c, calls) ==
    /\ calls \in [Calls -> CallShape] /\ calls[c] = Idle
    /\ \A e \in Calls \ {c} :
         \/ calls[e] = call[e] /\ ~(call[e].pc = "waiting" /\ call[e].behind = c)
         \/ /\ call[e].pc = "waiting" /\ calls[e].pc \in {"leaving", "skipping", "preflight"}
            /\ calls[e].job = call[e].job
            /\ calls[e].pc = "preflight" => call[e].job \notin memory.pending

LEMMA IdleShape == Idle \in CallShape /\ Idle.pc = "idle"
BY DEF Idle, CallShape, Steps

LEMMA Memories ==
  ASSUME NEW m \in Memory, NEW j \in Jobs
  PROVE  /\ Unmarked(m, j) \in Memory /\ Unmarked(m, j).pending = m.pending
         /\ CleanedUp(m, j) \in Memory /\ CleanedUp(m, j).pending = m.pending \ {j}
         /\ Known(m, j) \in Memory /\ Known(m, j).pending = m.pending
         /\ Recorded(m, j) \in Memory /\ Recorded(m, j).pending = m.pending \cup {j}
         /\ Cleared(m, j) \in Memory /\ Cleared(m, j).pending = m.pending \ {j}
BY DEF Memory, Unmarked, CleanedUp, Known, Recorded, Cleared

LEMMA AdmittedMemory ==
  ASSUME NEW m \in Memory, NEW j \in Jobs, NEW pc
  PROVE  Admitted(m, j, pc) \in Memory /\ Admitted(m, j, pc).pending = m.pending
BY DEF Memory, Admitted

LEMMA Admission ==
  ASSUME NEW m \in Memory, NEW j \in Jobs, NEW pc \in Admissions(m, j)
  PROVE  pc \in {"leaving", "skipping", "preflight"} /\ (pc = "preflight" => j \notin m.pending)
BY DEF Admissions

\* Those behind a handler begin at the same point.
Begins(r, pc) == [r EXCEPT !.pc = pc, !.behind = None]

Begun(c, calls, pc) ==
    [e \in Calls |-> IF e = c THEN Idle
                     ELSE IF e \in Behind(c) THEN Begins(calls[e], pc)
                     ELSE calls[e]]

LEMMA BeginsShape ==
  ASSUME NEW r \in CallShape, NEW pc \in Steps
  PROVE  Begins(r, pc) \in CallShape /\ Begins(r, pc).pc = pc /\ Begins(r, pc).job = r.job
BY DEF Begins, CallShape

LEMMA BegunHanded ==
  ASSUME Handlers(call, memory, lock, overlapped), NEW c \in Calls,
         call[c].pc \notin {"idle", "waiting"},
         NEW pc \in {"leaving", "skipping", "preflight"},
         pc = "preflight" => call[c].job \notin memory.pending
  PROVE  Handed(c, Begun(c, call, pc))
<1>1. call \in [Calls -> CallShape] /\ Released(call) BY DEF Handlers
<1>2. Behind(c) \subseteq Calls \ {c} BY DEF Behind
<1>3. ASSUME NEW e \in Behind(c)
      PROVE  /\ call[e].pc = "waiting" /\ call[e].job = call[c].job
             /\ Begins(call[e], pc) \in CallShape /\ Begins(call[e], pc).pc = pc
             /\ Begins(call[e], pc).job = call[e].job
  <2>1. call[e].pc = "waiting" /\ call[e].job = call[c].job BY <1>1, <1>3 DEF Behind, Released
  <2>2. call[e] \in CallShape BY <1>1, <1>3 DEF Behind
  <2>3. pc \in Steps BY DEF Steps, Marked
  <2> QED BY <2>1, <2>2, <2>3, BeginsShape
<1>4. Idle \in CallShape BY IdleShape
<1> DEFINE calls == Begun(c, call, pc)
<1>5. calls \in [Calls -> CallShape] BY <1>1, <1>3, <1>4 DEF Begun
<1>6. calls[c] = Idle BY DEF Begun
<1>7. ASSUME NEW e \in Calls \ {c}
      PROVE  IF e \in Behind(c) THEN calls[e] = Begins(call[e], pc) ELSE calls[e] = call[e]
  BY DEF Begun
<1> HIDE DEF calls
<1>8. ASSUME NEW e \in Calls \ {c}
      PROVE  \/ calls[e] = call[e] /\ ~(call[e].pc = "waiting" /\ call[e].behind = c)
             \/ /\ call[e].pc = "waiting" /\ calls[e].pc = pc /\ calls[e].job = call[e].job
                /\ pc = "preflight" => call[e].job \notin memory.pending
  <2>1. CASE e \in Behind(c) BY <1>3, <1>7, <2>1
  <2>2. CASE e \notin Behind(c) BY <1>7, <2>2 DEF Behind
  <2> QED BY <2>1, <2>2
<1> QED BY <1>5, <1>6, <1>8 DEF Handed, calls

\* The outcomes of leaving.
LEMMA LeftHanded ==
  ASSUME Handlers(call, memory, lock, overlapped), NEW c \in Calls,
         call[c].pc \notin {"idle", "waiting"},
         NEW m \in Memory, m.pending = memory.pending, NEW failed \in BOOLEAN,
         NEW s \in Left(c, m, failed)
  PROVE  /\ Handed(c, s.call) /\ s.lock = [lock EXCEPT ![call[c].job] = None]
         /\ s.memory \in Memory /\ s.memory.pending \subseteq memory.pending
<1> DEFINE j == call[c].job
           Cleanup(n) == IF failed THEN CleanedUp(n, j) ELSE n
<1>1. j \in Jobs BY DEF Handlers, Busy
<1>2. \A n \in Memory : Cleanup(n) \in Memory /\ Cleanup(n).pending \subseteq n.pending
  <2>1. ASSUME NEW n \in Memory
        PROVE  CleanedUp(n, j) \in Memory /\ CleanedUp(n, j).pending = n.pending \ {j}
    BY <1>1, Memories
  <2> QED BY <2>1
<1>3. CASE Behind(c) = {}
  <2>1. s = [memory |-> Cleanup(m), lock |-> [lock EXCEPT ![j] = None], call |-> [call EXCEPT ![c] = Idle]]
    BY <1>3 DEF Left
  <2>2. call \in [Calls -> CallShape] BY DEF Handlers
  <2>3. [call EXCEPT ![c] = Idle] \in [Calls -> CallShape] BY <2>2, IdleShape
  <2>4. Handed(c, [call EXCEPT ![c] = Idle]) BY <1>3, <2>2, <2>3 DEF Handed, Behind
  <2> HIDE DEF Cleanup
  <2> QED BY <1>2, <2>1, <2>4
<1>4. CASE Behind(c) # {}
  <2>1. PICK pc \in Admissions(m, j) :
          s = [memory |-> Cleanup(Admitted(m, j, pc)), lock |-> [lock EXCEPT ![j] = None],
               call |-> Begun(c, call, pc)]
    BY <1>4 DEF Left, Begun, Begins
  <2>2. pc \in {"leaving", "skipping", "preflight"} /\ (pc = "preflight" => j \notin memory.pending)
    BY <1>1, Admission
  <2>3. Admitted(m, j, pc) \in Memory /\ Admitted(m, j, pc).pending = memory.pending
    BY <1>1, AdmittedMemory
  <2>4. Handed(c, Begun(c, call, pc)) BY <2>2, BegunHanded
  <2> HIDE DEF Cleanup
  <2> QED BY <1>2, <2>1, <2>3, <2>4
<1> QED BY <1>3, <1>4

\* Leaving keeps what holds of the handlers.
LEMMA HandedKeeps ==
  ASSUME Handlers(call, memory, lock, overlapped), NEW c \in Calls,
         call[c].pc \notin {"idle", "waiting"},
         NEW calls, Handed(c, calls),
         NEW m \in Memory, m.pending \subseteq memory.pending,
         NEW l, l = [lock EXCEPT ![call[c].job] = None],
         NEW o, o = Overlaps(calls), overlapped \subseteq Jobs, None \notin Calls
  PROVE  Handlers(calls, m, l, o)
<1>1. /\ call \in [Calls -> CallShape] /\ memory \in Memory /\ lock \in [Jobs -> Calls \cup {None}]
      /\ Busy(call) /\ LockHeld(call, lock) /\ Released(call)
      /\ Separate(call, overlapped) /\ Submitted(call, memory, overlapped) /\ Audited(call, memory, overlapped)
  BY DEF Handlers
<1>2. /\ calls \in [Calls -> CallShape] /\ calls[c].pc = "idle"
      /\ \A e \in Calls \ {c} :
           \/ calls[e] = call[e] /\ ~(call[e].pc = "waiting" /\ call[e].behind = c)
           \/ /\ call[e].pc = "waiting" /\ calls[e].pc \in {"leaving", "skipping", "preflight"}
              /\ calls[e].job = call[e].job
              /\ calls[e].pc = "preflight" => call[e].job \notin memory.pending
  BY IdleShape DEF Handed
<1> DEFINE j == call[c].job
<1>3. j \in Jobs BY <1>1 DEF Busy
<1>4. o \subseteq Jobs /\ overlapped \subseteq o BY DEF Overlaps
<1>5. l \in [Jobs -> Calls \cup {None}] /\ l[j] = None /\ \A k \in Jobs \ {j} : l[k] = lock[k]
  BY <1>1, <1>3
<1>6. \A e \in Calls \ {c} : calls[e].job = call[e].job /\ (call[e].pc # "idle" => calls[e].pc # "idle")
                             /\ (calls[e].pc # "idle" => call[e].pc # "idle")
  BY <1>2
<1> HIDE DEF j
<1>7. Busy(calls) BY <1>1, <1>2, <1>6 DEF Busy
<1>8. LockHeld(calls, l)
  <2> SUFFICES ASSUME NEW k \in Jobs, l[k] # None
               PROVE  calls[l[k]].pc # "idle" /\ calls[l[k]].job = k
    BY DEF LockHeld
  <2>1. k # j /\ l[k] = lock[k] /\ l[k] \in Calls BY <1>5
  <2>2. call[l[k]].pc # "idle" /\ call[l[k]].job = k BY <1>1, <2>1 DEF LockHeld
  <2>3. l[k] # c BY <2>1, <2>2 DEF j
  <2> QED BY <1>6, <2>1, <2>2, <2>3
<1>9. Released(calls)
  <2> SUFFICES ASSUME NEW e \in Calls, calls[e].pc = "waiting"
               PROVE  \E d \in Calls \ {e} : d = calls[e].behind /\ calls[d].pc # "idle" /\ calls[d].job = calls[e].job
    BY DEF Released
  <2>1. e # c /\ calls[e] = call[e] /\ call[e].behind # c BY <1>2
  <2>2. PICK d \in Calls \ {e} : d = call[e].behind /\ call[d].pc # "idle" /\ call[d].job = call[e].job
    BY <1>1, <2>1 DEF Released
  <2> QED BY <1>6, <2>1, <2>2
<1>10. Separate(calls, o) BY <1>1, <1>2, <1>3, <1>6, <1>7 DEF Separate, Overlaps, Busy, Marked, Executing
<1>11. Submitted(calls, m, o)
  <2> SUFFICES ASSUME NEW k \in m.pending \ o, NEW e \in Calls, calls[e].pc \in Marked, calls[e].job = k
               PROVE  calls[e].pc \in {"announcing", "failing"}
    BY DEF Submitted
  <2>1. k \in memory.pending \ overlapped BY <1>4
  <2>2. e # c BY <1>2 DEF Marked, Executing
  <2>3. calls[e].pc \notin {"leaving", "skipping"} BY DEF Marked, Executing
  <2>4. calls[e] = call[e] BY <1>2, <2>1, <2>2, <2>3
  <2> QED BY <1>1, <2>1, <2>4 DEF Submitted
<1>12. Audited(calls, m, o)
  <2> SUFFICES ASSUME NEW k \in Jobs \ o, audits[k] # 0
               PROVE  /\ audits[k] = 1 /\ k \notin m.pending /\ status[k] = "won"
                      /\ \A e \in Calls : calls[e].job = k => calls[e].pc # "awaiting"
    BY DEF Audited
  <2>1. /\ audits[k] = 1 /\ k \notin memory.pending /\ status[k] = "won"
        /\ \A e \in Calls : call[e].job = k => call[e].pc # "awaiting"
    BY <1>1, <1>4 DEF Audited
  <2> QED BY <1>2, <2>1
<1> QED BY <1>2, <1>4, <1>5, <1>7, <1>8, <1>9, <1>10, <1>11, <1>12 DEF Handlers

\* The queue and its loop when a handler leaves that neither is queued nor runs.
LEMMA HandedQueue ==
  ASSUME NEW c \in Calls, NEW calls, Handed(c, calls), QueueOf(call, queue), call[c].pc # "queued"
  PROVE  QueueOf(calls, queue)
<1>1. calls[c].pc = "idle" BY IdleShape DEF Handed
<1>2. \A e \in Calls \ {c} : calls[e].pc = "queued" <=> call[e].pc = "queued" BY DEF Handed
<1> QED BY <1>1, <1>2 DEF QueueOf

LEMMA HandedExecuting ==
  ASSUME NEW c \in Calls, NEW calls, Handed(c, calls)
  PROVE  /\ calls[c].pc \notin Executing
         /\ \A e \in Calls \ {c} : calls[e].pc \in Executing <=> call[e].pc \in Executing
<1>1. calls[c].pc = "idle" BY IdleShape DEF Handed
<1> QED BY <1>1 DEF Handed, Executing


-----------------------------------------------------------------------------
(***************************************************************************)
(* A handler moves between its marks, and the drain loop.                  *)
(***************************************************************************)

LEMMA Moves ==
  ASSUME NEW calls, NEW m, NEW l, NEW o, Handlers(calls, m, l, o),
         NEW c \in Calls, NEW r \in CallShape,
         calls[c].pc \in Marked, r.pc \in Marked, r.job = calls[c].job,
         calls[c].pc \in {"announcing", "failing"} => r.pc \in {"announcing", "failing"},
         r.pc = "awaiting" => status[r.job] # "won"
  PROVE  Handlers([calls EXCEPT ![c] = r], m, l, o)
<1>1. /\ calls \in [Calls -> CallShape] /\ m \in Memory /\ l \in [Jobs -> Calls \cup {None}] /\ o \subseteq Jobs
      /\ Busy(calls) /\ LockHeld(calls, l) /\ Released(calls)
      /\ Separate(calls, o) /\ Submitted(calls, m, o) /\ Audited(calls, m, o)
  BY DEF Handlers
<1> DEFINE moved == [calls EXCEPT ![c] = r]
<1>2. moved \in [Calls -> CallShape] /\ moved[c] = r /\ \A e \in Calls \ {c} : moved[e] = calls[e] BY <1>1
<1> HIDE DEF moved
<1>3. /\ r.pc \notin {"idle", "waiting"} /\ calls[c].pc \notin {"idle", "waiting"}
      /\ r.job \in Jobs
  BY <1>1 DEF Marked, Executing, Busy
<1>4. Busy(moved) BY <1>1, <1>2, <1>3 DEF Busy
<1>5. \A e \in Calls : moved[e].job = calls[e].job /\ (moved[e].pc # "idle" <=> calls[e].pc # "idle")
                       /\ (moved[e].pc \in Marked <=> calls[e].pc \in Marked)
  BY <1>2, <1>3
<1>6. LockHeld(moved, l)
  <2> SUFFICES ASSUME NEW k \in Jobs, l[k] # None
               PROVE  moved[l[k]].pc # "idle" /\ moved[l[k]].job = k
    BY DEF LockHeld
  <2>1. l[k] \in Calls BY <1>1
  <2> QED BY <1>1, <1>5, <2>1 DEF LockHeld
<1>7. Released(moved)
  <2> SUFFICES ASSUME NEW e \in Calls, moved[e].pc = "waiting"
               PROVE  \E d \in Calls \ {e} : d = moved[e].behind /\ moved[d].pc # "idle" /\ moved[d].job = moved[e].job
    BY DEF Released
  <2>1. e # c /\ moved[e] = calls[e] BY <1>2, <1>3
  <2>2. PICK d \in Calls \ {e} : d = calls[e].behind /\ calls[d].pc # "idle" /\ calls[d].job = calls[e].job
    BY <1>1, <2>1 DEF Released
  <2> QED BY <1>5, <2>1, <2>2
<1>8. Separate(moved, o) BY <1>1, <1>5 DEF Separate
<1>9. Submitted(moved, m, o) BY <1>1, <1>2, <1>5 DEF Submitted
<1>10. Audited(moved, m, o)
  <2> SUFFICES ASSUME NEW k \in Jobs \ o, audits[k] # 0
               PROVE  /\ audits[k] = 1 /\ k \notin m.pending /\ status[k] = "won"
                      /\ \A e \in Calls : moved[e].job = k => moved[e].pc # "awaiting"
    BY DEF Audited
  <2>1. /\ audits[k] = 1 /\ k \notin m.pending /\ status[k] = "won"
        /\ \A e \in Calls : calls[e].job = k => calls[e].pc # "awaiting"
    BY <1>1 DEF Audited
  <2> QED BY <1>2, <1>5, <2>1
<1> QED BY <1>1, <1>2, <1>4, <1>6, <1>7, <1>8, <1>9, <1>10 DEF Handlers, moved

\* What holds of the handlers stays, when the chain and the audits do.
LEMMA Carried ==
  ASSUME NEW calls, NEW m, NEW l, NEW o, Handlers(calls, m, l, o),
         call' = calls, memory' = m, lock' = l, overlapped' = o, UNCHANGED <<audits, status>>
  PROVE  Handlers(call, memory, lock, overlapped)'
BY DEF Handlers, Busy, LockHeld, Released, Separate, Submitted, Audited

\* The loop goes on when no task runs.
LEMMA DrainsOn ==
  ASSUME NEW calls, NEW m, NEW l, NEW o, Handlers(calls, m, l, o), QueueOf(calls, queue),
         \A e \in Calls : calls[e].pc \notin Executing,
         draining = TRUE, DrainOn(calls),
         memory' = m, lock' = l, overlapped' = o, UNCHANGED <<audits, status>>
  PROVE  /\ Handlers(call, memory, lock, overlapped)'
         /\ QueueOf(call, queue)' /\ OneRuns(call, draining, queue)'
<1>1. CASE queue = <<>>
  <2>1. draining' = FALSE /\ call' = calls /\ queue' = queue BY <1>1 DEF DrainOn
  <2>2. Handlers(call, memory, lock, overlapped)' BY <2>1, Carried
  <2>3. QueueOf(call, queue)' BY <2>1 DEF QueueOf
  <2>4. OneRuns(call, draining, queue)' BY <1>1, <2>1 DEF OneRuns
  <2> QED BY <2>2, <2>3, <2>4
<1>2. CASE queue # <<>>
  <2>1. queue \in Seq(Calls) /\ (\A i, k \in DOMAIN queue : queue[i] = queue[k] => i = k)
        /\ \A c \in Calls : calls[c].pc = "queued" <=> \E i \in DOMAIN queue : queue[i] = c
    BY DEF QueueOf
  <2>2. /\ Head(queue) \in Calls /\ Head(queue) = queue[1] /\ 1 \in DOMAIN queue
        /\ Tail(queue) \in Seq(Calls) /\ Len(queue) \in Nat /\ Len(queue) # 0
        /\ DOMAIN queue = 1..Len(queue) /\ DOMAIN Tail(queue) = 1..Len(queue) - 1
        /\ \A i \in 1..Len(queue) - 1 : Tail(queue)[i] = queue[i + 1]
    BY <1>2, <2>1
  <2>3. PICK h : h = Head(queue) OBVIOUS
  <2>4. h \in Calls /\ calls[h].pc = "queued" BY <2>1, <2>2, <2>3
  <2>5. calls \in [Calls -> CallShape] BY DEF Handlers
  <2>6. PICK r : r = [calls[h] EXCEPT !.pc = "window"] OBVIOUS
  <2>7. r \in CallShape /\ r.pc = "window" /\ r.job = calls[h].job
    BY <2>4, <2>5, <2>6 DEF CallShape, Steps, Marked, Executing
  <2>8. PICK moved : moved = [calls EXCEPT ![h] = r] OBVIOUS
  <2>9. Handlers(moved, m, l, o) BY <2>4, <2>7, <2>8, Moves DEF Marked, Executing
  <2>10. call' = moved /\ queue' = Tail(queue) /\ draining' = TRUE BY <1>2, <2>3, <2>6, <2>8 DEF DrainOn
  <2>11. Handlers(call, memory, lock, overlapped)' BY <2>9, <2>10, Carried
  <2>12. moved[h].pc = "window" /\ \A e \in Calls \ {h} : moved[e] = calls[e] BY <2>4, <2>5, <2>7, <2>8
  <2>13. \A e \in Calls : moved[e].pc \in Executing <=> e = h BY <2>12 DEF Executing
  <2>14. OneRuns(moved, TRUE, Tail(queue)) BY <2>4, <2>13 DEF OneRuns
  <2>15. \A e \in Calls : moved[e].pc = "queued" <=> e # h /\ \E i \in DOMAIN queue : queue[i] = e
    BY <2>1, <2>12
  <2>16. \A e \in Calls : (e # h /\ \E i \in DOMAIN queue : queue[i] = e) <=> \E i \in DOMAIN Tail(queue) : Tail(queue)[i] = e
    <3> SUFFICES ASSUME NEW e \in Calls
                 PROVE (e # h /\ \E i \in DOMAIN queue : queue[i] = e) <=> \E i \in DOMAIN Tail(queue) : Tail(queue)[i] = e
      OBVIOUS
    <3>1. ASSUME e # h, NEW i \in DOMAIN queue, queue[i] = e
          PROVE  \E k \in DOMAIN Tail(queue) : Tail(queue)[k] = e
      <4>1. i \in 1..Len(queue) /\ i # 1 BY <3>1, <2>2, <2>3
      <4>2. i - 1 \in 1..Len(queue) - 1 /\ (i - 1) + 1 = i BY <4>1, <2>2
      <4>3. Tail(queue)[i - 1] = queue[i] BY <4>2, <2>2
      <4> QED BY <3>1, <4>2, <4>3, <2>2
    <3>2. ASSUME NEW i \in DOMAIN Tail(queue), Tail(queue)[i] = e
          PROVE  e # h /\ \E k \in DOMAIN queue : queue[k] = e
      <4>1. i + 1 \in DOMAIN queue /\ i + 1 # 1 /\ queue[i + 1] = e BY <3>2, <2>2
      <4>2. queue[i + 1] # queue[1] BY <4>1, <2>1, <2>2
      <4> QED BY <4>1, <4>2, <2>2, <2>3
    <3> QED BY <3>1, <3>2
  <2>17. \A i, k \in DOMAIN Tail(queue) : Tail(queue)[i] = Tail(queue)[k] => i = k
    <3> SUFFICES ASSUME NEW i \in DOMAIN Tail(queue), NEW k \in DOMAIN Tail(queue), Tail(queue)[i] = Tail(queue)[k]
                 PROVE  i = k
      OBVIOUS
    <3>1. i + 1 \in DOMAIN queue /\ k + 1 \in DOMAIN queue /\ queue[i + 1] = queue[k + 1] BY <2>2
    <3>2. i + 1 = k + 1 BY <2>1, <3>1
    <3> QED BY <2>2, <3>2
  <2>18. QueueOf(moved, Tail(queue)) BY <2>2, <2>15, <2>16, <2>17 DEF QueueOf
  <2>19. QueueOf(call, queue)' /\ OneRuns(call, draining, queue)' BY <2>10, <2>14, <2>18 DEF QueueOf, OneRuns
  <2> QED BY <2>11, <2>19
<1> QED BY <1>1, <1>2

-----------------------------------------------------------------------------
(***************************************************************************)
(* The ways a handler goes on.                                             *)
(***************************************************************************)

\* The handler leaves, and the queue is not concerned.
LEMMA Leaves ==
  ASSUME BidInv, NEW c \in Calls, call[c].pc \notin Executing \cup {"idle", "waiting", "queued"},
         NEW m \in Memory, m.pending = memory.pending, NEW failed \in BOOLEAN,
         Leave(c, m, failed), UNCHANGED status
  PROVE  BidInv'
<1>1. Handlers(call, memory, lock, overlapped) /\ overlapped \subseteq Jobs BY DEF BidInv, Handlers
<1>2. PICK s \in Left(c, m, failed) :
        memory' = s.memory /\ lock' = s.lock /\ call' = s.call /\ overlapped' = Overlaps(s.call)
  BY DEF Leave
<1>3. UNCHANGED <<queue, draining, audits, bids>> BY DEF Leave, chain
<1>4. /\ Handed(c, s.call) /\ s.lock = [lock EXCEPT ![call[c].job] = None]
      /\ s.memory \in Memory /\ s.memory.pending \subseteq memory.pending
  BY <1>1, LeftHanded
<1>5. PICK o : o = Overlaps(s.call) OBVIOUS
<1>6. PICK calls, n, l : calls = s.call /\ n = s.memory /\ l = s.lock OBVIOUS
<1>7. Handlers(calls, n, l, o) BY <1>1, <1>4, <1>5, <1>6, HandedKeeps, BiddingAssumption
<1>8. Handlers(call, memory, lock, overlapped)' BY <1>2, <1>3, <1>5, <1>6, <1>7, Carried
<1>9. QueueOf(calls, queue) BY <1>4, <1>6, HandedQueue DEF BidInv
<1>10. OneRuns(calls, draining, queue)
  BY <1>4, <1>6, HandedExecuting DEF BidInv, OneRuns
<1>11. QueueOf(call, queue)' /\ OneRuns(call, draining, queue)'
  BY <1>2, <1>3, <1>6, <1>9, <1>10 DEF QueueOf, OneRuns
<1>12. Chain' BY <1>3 DEF BidInv, Chain
<1> QED BY <1>8, <1>11, <1>12 DEF BidInv

\* The task of the handler ends without a submission, and the loop goes on.
LEMMA Ends ==
  ASSUME BidInv, NEW c \in Calls, call[c].pc \in Executing,
         NEW m \in Memory, m.pending = memory.pending,
         EndsTask(c, m), UNCHANGED status
  PROVE  BidInv'
<1>1. Handlers(call, memory, lock, overlapped) /\ overlapped \subseteq Jobs /\ call[c].job \in Jobs
  BY DEF BidInv, Handlers, Busy, Executing
<1>2. PICK j : j = call[c].job OBVIOUS
<1>3. PICK unmarked : unmarked = Unmarked(m, j) OBVIOUS
<1>4. unmarked \in Memory /\ unmarked.pending = memory.pending BY <1>1, <1>2, <1>3, Memories
<1>5. PICK s \in Left(c, unmarked, FALSE) :
        memory' = s.memory /\ lock' = s.lock /\ DrainOn(s.call) /\ overlapped' = Overlaps(s.call)
  BY <1>2, <1>3 DEF EndsTask
<1>6. UNCHANGED <<audits, bids>> BY DEF EndsTask, chain
<1>7. call[c].pc \notin {"idle", "waiting", "queued"} BY DEF Executing
<1>8. /\ Handed(c, s.call) /\ s.lock = [lock EXCEPT ![call[c].job] = None]
      /\ s.memory \in Memory /\ s.memory.pending \subseteq memory.pending
  BY <1>1, <1>4, <1>7, LeftHanded
<1>9. PICK o : o = Overlaps(s.call) OBVIOUS
<1>10. PICK calls, n, l : calls = s.call /\ n = s.memory /\ l = s.lock OBVIOUS
<1>11. Handlers(calls, n, l, o) BY <1>1, <1>7, <1>8, <1>9, <1>10, HandedKeeps, BiddingAssumption
<1>12. QueueOf(calls, queue) BY <1>7, <1>8, <1>10, HandedQueue DEF BidInv
<1>13. draining = TRUE /\ \A e \in Calls : calls[e].pc \notin Executing
  BY <1>8, <1>10, HandedExecuting DEF BidInv, OneRuns
<1>14. Handlers(call, memory, lock, overlapped)' /\ QueueOf(call, queue)' /\ OneRuns(call, draining, queue)'
  BY <1>5, <1>6, <1>9, <1>10, <1>11, <1>12, <1>13, DrainsOn
<1>15. Chain' BY <1>6 DEF BidInv, Chain
<1> QED BY <1>14, <1>15 DEF BidInv

\* The task of the handler has ended, and the handler goes on without it.
LEMMA TaskIsOver ==
  ASSUME BidInv, NEW c \in Calls, call[c].pc \in Executing,
         NEW r \in {"announcing", "failing"},
         NEW calls, calls = [call EXCEPT ![c].pc = r], DrainOn(calls),
         NEW m, Handlers(calls, m, lock, overlapped), memory' = m,
         UNCHANGED <<lock, overlapped, audits, bids, status>>
  PROVE  BidInv'
<1>1. call \in [Calls -> CallShape] BY DEF BidInv, Handlers
<1>2. calls[c].pc = r /\ \A e \in Calls \ {c} : calls[e] = call[e] BY <1>1 DEF CallShape
<1>3. draining = TRUE /\ \A e \in Calls : calls[e].pc \notin Executing
  BY <1>2 DEF BidInv, OneRuns, Executing
<1>4. \A e \in Calls : calls[e].pc = "queued" <=> call[e].pc = "queued" BY <1>2 DEF Executing
<1>5. QueueOf(calls, queue) BY <1>4 DEF BidInv, QueueOf
<1>6. PICK l, o : l = lock /\ o = overlapped OBVIOUS
<1>7. Handlers(call, memory, lock, overlapped)' /\ QueueOf(call, queue)' /\ OneRuns(call, draining, queue)'
  BY <1>3, <1>5, <1>6, DrainsOn
<1>8. Chain' BY DEF BidInv, Chain
<1> QED BY <1>7, <1>8 DEF BidInv

\* The task is rejected.
LEMMA Rejects ==
  ASSUME BidInv, NEW c \in Calls, call[c].pc \in Executing, RejectsTask(c)
  PROVE  BidInv'
<1>1. Handlers(call, memory, lock, overlapped) BY DEF BidInv
<1>2. call \in [Calls -> CallShape] BY <1>1 DEF Handlers
<1>3. PICK calls : calls = [call EXCEPT ![c].pc = "failing"] OBVIOUS
<1>4. PICK r : r = [call[c] EXCEPT !.pc = "failing"] OBVIOUS
<1>5. r \in CallShape /\ r.pc = "failing" /\ r.job = call[c].job
  BY <1>2, <1>4 DEF CallShape, Steps, Marked
<1>6. calls = [call EXCEPT ![c] = r] BY <1>3, <1>4
<1>7. Handlers(calls, memory, lock, overlapped) BY <1>1, <1>5, <1>6, Moves DEF Marked, Executing
<1>8. /\ DrainOn(calls) /\ memory' = memory
      /\ UNCHANGED <<lock, overlapped, audits, bids, status>>
  BY <1>3 DEF RejectsTask, history, chain
<1>9. PICK m : m = memory OBVIOUS
<1> QED BY <1>3, <1>7, <1>8, <1>9, TaskIsOver

\* The handler takes its next step in the task.
LEMMA GoesOn ==
  ASSUME BidInv, NEW c \in Calls, NEW r \in CallShape, r.job = call[c].job,
         call[c].pc \in Executing, r.pc \in Executing, r.pc = "awaiting" => call[c].job \notin bids,
         call' = [call EXCEPT ![c] = r],
         UNCHANGED <<memory, lock, queue, draining, overlapped, audits, bids, status>>
  PROVE  BidInv'
<1>1. Handlers(call, memory, lock, overlapped) /\ call \in [Calls -> CallShape] /\ call[c].job \in Jobs
  BY DEF BidInv, Handlers, Busy, Executing
<1>2. r.pc = "awaiting" => status[r.job] # "won" BY <1>1 DEF BidInv, Chain
<1>3. PICK calls : calls = [call EXCEPT ![c] = r] OBVIOUS
<1>4. Handlers(calls, memory, lock, overlapped) BY <1>1, <1>2, <1>3, Moves DEF Marked, Executing
<1>5. PICK m, l, o : m = memory /\ l = lock /\ o = overlapped OBVIOUS
<1>6. Handlers(call, memory, lock, overlapped)' BY <1>3, <1>4, <1>5, Carried
<1>7. \A e \in Calls : (calls[e].pc = "queued" <=> call[e].pc = "queued")
                       /\ (calls[e].pc \in Executing <=> call[e].pc \in Executing)
  BY <1>1, <1>3 DEF Executing
<1>8. QueueOf(calls, queue) /\ OneRuns(calls, draining, queue) BY <1>7 DEF BidInv, QueueOf, OneRuns
<1>9. QueueOf(call, queue)' /\ OneRuns(call, draining, queue)' BY <1>3, <1>8 DEF QueueOf, OneRuns
<1>10. Chain' BY DEF BidInv, Chain
<1> QED BY <1>6, <1>9, <1>10 DEF BidInv

LEMMA Records ==
  ASSUME BidInv, NEW c \in Calls
  PROVE  /\ call[c] \in CallShape /\ call \in [Calls -> CallShape] /\ memory \in Memory
         /\ call[c].pc # "idle" => call[c].job \in Jobs
BY DEF BidInv, Handlers, Busy

LEMMA GoesTo ==
  ASSUME BidInv, NEW c \in Calls, NEW pc \in Executing, pc # "awaiting", call[c].pc \in Executing,
         Goto(c, pc), UNCHANGED chain
  PROVE  BidInv'
<1>1. call[c] \in CallShape /\ call \in [Calls -> CallShape] BY Records
<1>2. PICK r : r = [call[c] EXCEPT !.pc = pc] OBVIOUS
<1>3. r \in CallShape /\ r.pc = pc /\ r.job = call[c].job BY <1>1, <1>2 DEF CallShape, Steps, Marked
<1>4. /\ call' = [call EXCEPT ![c] = r]
      /\ UNCHANGED <<memory, lock, queue, draining, overlapped, audits, bids, status>>
  BY <1>1, <1>2 DEF Goto, history, chain
<1> QED BY <1>3, <1>4, GoesOn

\* A check or a publication throws.
LEMMA Fails ==
  ASSUME BidInv, NEW c \in Calls, call[c].pc \in {"preflight", "announcing"},
         Goto(c, "failing"), UNCHANGED chain
  PROVE  BidInv'
<1>1. call[c] \in CallShape /\ call \in [Calls -> CallShape] BY Records
<1>2. PICK r : r = [call[c] EXCEPT !.pc = "failing"] OBVIOUS
<1>3. r \in CallShape /\ r.pc = "failing" /\ r.job = call[c].job BY <1>1, <1>2 DEF CallShape, Steps, Marked
<1>4. PICK calls : calls = [call EXCEPT ![c] = r] OBVIOUS
<1>5. /\ call' = calls /\ UNCHANGED <<memory, lock, queue, draining, overlapped, audits, bids, status>>
  BY <1>1, <1>2, <1>4 DEF Goto, history, chain
<1>6. Handlers(calls, memory, lock, overlapped) BY <1>3, <1>4, Moves DEF BidInv, Marked, Executing
<1>7. PICK m, l, o : m = memory /\ l = lock /\ o = overlapped OBVIOUS
<1>8. Handlers(call, memory, lock, overlapped)' BY <1>5, <1>6, <1>7, Carried
<1>9. \A e \in Calls : (calls[e].pc = "queued" <=> call[e].pc = "queued")
                       /\ (calls[e].pc \in Executing <=> call[e].pc \in Executing)
  BY <1>1, <1>3, <1>4 DEF Executing
<1>10. QueueOf(calls, queue) /\ OneRuns(calls, draining, queue) BY <1>9 DEF BidInv, QueueOf, OneRuns
<1>11. QueueOf(call, queue)' /\ OneRuns(call, draining, queue)' BY <1>5, <1>10 DEF QueueOf, OneRuns
<1>12. Chain' BY <1>5 DEF BidInv, Chain
<1> QED BY <1>8, <1>11, <1>12 DEF BidInv

LEMMA CarriedQueue ==
  ASSUME NEW calls, NEW q, NEW running, QueueOf(calls, q), OneRuns(calls, running, q),
         call' = calls, queue' = q, draining' = running
  PROVE  QueueOf(call, queue)' /\ OneRuns(call, draining, queue)'
BY DEF QueueOf, OneRuns

\* The checks have passed: the task is queued, or its loop begins.
LEMMA TaskBegins ==
  ASSUME BidInv, NEW c \in Calls, call[c].pc = "preflight",
         NEW pc, pc = IF draining THEN "queued" ELSE "window",
         call' = [call EXCEPT ![c].pc = pc],
         queue' = IF draining THEN Append(queue, c) ELSE queue, draining' = TRUE,
         UNCHANGED <<memory, lock, overlapped, audits, bids, status>>
  PROVE  BidInv'
<1>1. call[c] \in CallShape /\ call \in [Calls -> CallShape] BY Records
<1>2. draining \in BOOLEAN /\ pc \in {"queued", "window"} BY DEF BidInv, OneRuns
<1>3. PICK r : r = [call[c] EXCEPT !.pc = pc] OBVIOUS
<1>4. r \in CallShape /\ r.pc = pc /\ r.job = call[c].job
  BY <1>1, <1>2, <1>3 DEF CallShape, Steps, Marked, Executing
<1>5. PICK calls : calls = [call EXCEPT ![c] = r] OBVIOUS
<1>6. call' = calls BY <1>1, <1>3, <1>5
<1>7. Handlers(calls, memory, lock, overlapped) BY <1>2, <1>4, <1>5, Moves DEF BidInv, Marked, Executing
<1>8. PICK m, l, o : m = memory /\ l = lock /\ o = overlapped OBVIOUS
<1>9. Handlers(call, memory, lock, overlapped)' BY <1>6, <1>7, <1>8, Carried
<1>10. PICK running : running = TRUE OBVIOUS
<1>11. calls[c].pc = pc /\ \A e \in Calls \ {c} : calls[e] = call[e] BY <1>1, <1>4, <1>5
<1>12. CASE draining
  <2>1. pc = "queued" /\ queue' = Append(queue, c) BY <1>12
  <2>2. queue \in Seq(Calls) /\ (\A i, k \in DOMAIN queue : queue[i] = queue[k] => i = k)
        /\ \A e \in Calls : call[e].pc = "queued" <=> \E i \in DOMAIN queue : queue[i] = e
    BY DEF BidInv, QueueOf
  <2>3. PICK q : q = Append(queue, c) OBVIOUS
  <2>4. /\ q \in Seq(Calls) /\ Len(queue) \in Nat /\ DOMAIN queue = 1..Len(queue)
        /\ DOMAIN q = 1..Len(queue) + 1 /\ q[Len(queue) + 1] = c
        /\ \A i \in 1..Len(queue) : q[i] = queue[i]
    BY <2>2, <2>3
  <2>5. \A i \in 1..Len(queue) : queue[i] # c BY <2>2, <2>4
  <2>6. \A i, k \in DOMAIN q : q[i] = q[k] => i = k
    <3> SUFFICES ASSUME NEW i \in DOMAIN q, NEW k \in DOMAIN q, q[i] = q[k] PROVE i = k
      OBVIOUS
    <3>1. (i \in 1..Len(queue) \/ i = Len(queue) + 1) /\ (k \in 1..Len(queue) \/ k = Len(queue) + 1) BY <2>4
    <3> QED BY <2>2, <2>4, <2>5, <3>1
  <2>7. \A e \in Calls : (\E i \in DOMAIN q : q[i] = e) <=> e = c \/ \E i \in DOMAIN queue : queue[i] = e
    <3>1. \A i \in DOMAIN q : q[i] = c \/ \E k \in DOMAIN queue : queue[k] = q[i] BY <2>4
    <3>2. Len(queue) + 1 \in DOMAIN q /\ \A i \in DOMAIN queue : i \in DOMAIN q BY <2>4
    <3> QED BY <2>4, <3>1, <3>2
  <2>8. \A e \in Calls : calls[e].pc = "queued" <=> e = c \/ call[e].pc = "queued" BY <1>11, <2>1
  <2>9. QueueOf(calls, q) BY <2>2, <2>4, <2>6, <2>7, <2>8 DEF QueueOf
  <2>10. \A e \in Calls : calls[e].pc \in Executing <=> call[e].pc \in Executing BY <1>11, <2>1 DEF Executing
  <2>11. OneRuns(calls, running, q) BY <1>12, <1>10, <2>10 DEF BidInv, OneRuns
  <2>12. QueueOf(call, queue)' /\ OneRuns(call, draining, queue)'
    BY <1>6, <1>10, <2>1, <2>3, <2>9, <2>11, CarriedQueue
  <2> QED BY <1>9, <2>12 DEF BidInv, Chain
<1>13. CASE ~draining
  <2>1. pc = "window" /\ queue' = queue BY <1>13
  <2>2. \A e \in Calls : calls[e].pc = "queued" <=> call[e].pc = "queued" BY <1>11, <2>1
  <2>3. QueueOf(calls, queue) BY <2>2 DEF BidInv, QueueOf
  <2>4. \A e \in Calls : call[e].pc \notin Executing BY <1>13 DEF BidInv, OneRuns
  <2>5. \A e \in Calls : calls[e].pc \in Executing <=> e = c BY <1>11, <2>1, <2>4 DEF Executing
  <2>6. OneRuns(calls, running, queue) BY <1>10, <2>5 DEF OneRuns
  <2>14. PICK q : q = queue OBVIOUS
  <2>7. QueueOf(call, queue)' /\ OneRuns(call, draining, queue)'
    BY <1>6, <1>10, <2>1, <2>14, <2>3, <2>6, CarriedQueue
  <2> QED BY <1>9, <2>7 DEF BidInv, Chain
<1> QED BY <1>2, <1>12, <1>13

-----------------------------------------------------------------------------
(***************************************************************************)
(* A handler enters, and an answer is recorded.                            *)
(***************************************************************************)

LEMMA Enters ==
  ASSUME Handlers(call, memory, lock, overlapped), NEW c \in Calls, NEW j \in Jobs, call[c].pc = "idle",
         NEW r \in CallShape, r.job = j, r.pc \in {"waiting", "leaving", "skipping", "preflight"},
         r.pc = "preflight" => j \notin memory.pending,
         r.pc = "waiting" => r.behind = lock[j] /\ lock[j] # None,
         NEW calls, calls = [call EXCEPT ![c] = r],
         NEW m \in Memory, m.pending = memory.pending,
         NEW l, l = [lock EXCEPT ![j] = c],
         NEW o, o = Overlaps(calls)
  PROVE  Handlers(calls, m, l, o)
<1>1. /\ call \in [Calls -> CallShape] /\ memory \in Memory /\ lock \in [Jobs -> Calls \cup {None}]
      /\ Busy(call) /\ LockHeld(call, lock) /\ Released(call) /\ overlapped \subseteq Jobs
      /\ Separate(call, overlapped) /\ Submitted(call, memory, overlapped) /\ Audited(call, memory, overlapped)
  BY DEF Handlers
<1>2. calls \in [Calls -> CallShape] /\ calls[c] = r /\ \A e \in Calls \ {c} : calls[e] = call[e] BY <1>1
<1>3. l \in [Jobs -> Calls \cup {None}] /\ l[j] = c /\ \A k \in Jobs \ {j} : l[k] = lock[k] BY <1>1
<1>4. o \subseteq Jobs /\ overlapped \subseteq o BY <1>1 DEF Overlaps
<1>5. Busy(calls) BY <1>1, <1>2 DEF Busy
<1>6. LockHeld(calls, l)
  <2> SUFFICES ASSUME NEW k \in Jobs, l[k] # None
               PROVE  calls[l[k]].pc # "idle" /\ calls[l[k]].job = k
    BY DEF LockHeld
  <2>1. CASE k = j BY <1>2, <1>3, <2>1
  <2>2. CASE k # j
    <3>1. l[k] = lock[k] /\ l[k] \in Calls BY <1>3, <2>2
    <3>2. call[l[k]].pc # "idle" /\ call[l[k]].job = k BY <1>1, <3>1 DEF LockHeld
    <3> QED BY <1>2, <3>1, <3>2
  <2> QED BY <2>1, <2>2
<1>7. Released(calls)
  <2> SUFFICES ASSUME NEW e \in Calls, calls[e].pc = "waiting"
               PROVE  \E d \in Calls \ {e} : d = calls[e].behind /\ calls[d].pc # "idle" /\ calls[d].job = calls[e].job
    BY DEF Released
  <2>1. CASE e = c
    <3>1. calls[e].behind = lock[j] /\ lock[j] \in Calls /\ calls[e].job = j BY <1>1, <1>2, <2>1
    <3>2. call[lock[j]].pc # "idle" /\ call[lock[j]].job = j BY <1>1, <1>2, <2>1 DEF LockHeld
    <3> QED BY <1>2, <2>1, <3>1, <3>2
  <2>2. CASE e # c
    <3>1. calls[e] = call[e] BY <1>2, <2>2
    <3>2. PICK d \in Calls \ {e} : d = call[e].behind /\ call[d].pc # "idle" /\ call[d].job = call[e].job
      BY <1>1, <3>1 DEF Released
    <3> QED BY <1>2, <3>1, <3>2
  <2> QED BY <2>1, <2>2
<1>8. Separate(calls, o) BY <1>2, <1>5 DEF Separate, Overlaps, Busy, Marked, Executing
<1>9. Submitted(calls, m, o)
  <2> SUFFICES ASSUME NEW k \in m.pending \ o, NEW e \in Calls, calls[e].pc \in Marked, calls[e].job = k
               PROVE  calls[e].pc \in {"announcing", "failing"}
    BY DEF Submitted
  <2>1. e # c BY <1>2 DEF Marked, Executing
  <2> QED BY <1>1, <1>2, <1>4, <2>1 DEF Submitted
<1>10. Audited(calls, m, o)
  <2> SUFFICES ASSUME NEW k \in Jobs \ o, audits[k] # 0
               PROVE  /\ audits[k] = 1 /\ k \notin m.pending /\ status[k] = "won"
                      /\ \A e \in Calls : calls[e].job = k => calls[e].pc # "awaiting"
    BY DEF Audited
  <2>1. /\ audits[k] = 1 /\ k \notin memory.pending /\ status[k] = "won"
        /\ \A e \in Calls : call[e].job = k => call[e].pc # "awaiting"
    BY <1>1, <1>4 DEF Audited
  <2> QED BY <1>2, <2>1
<1> QED BY <1>2, <1>3, <1>4, <1>5, <1>6, <1>7, <1>8, <1>9, <1>10 DEF Handlers

\* The bid's memory is kept with the handler no longer submitting.
LEMMA Recording ==
  ASSUME Handlers(call, memory, lock, overlapped), NEW c \in Calls, call[c].pc = "awaiting",
         NEW m, m = Recorded(memory, call[c].job),
         NEW calls, calls = [call EXCEPT ![c].pc = "announcing"]
  PROVE  Handlers(calls, m, lock, overlapped)
<1>1. call \in [Calls -> CallShape] /\ memory \in Memory /\ call[c].job \in Jobs /\ call[c].pc \in Marked
  BY DEF Handlers, Busy, Marked, Executing
<1>2. PICK r : r = [call[c] EXCEPT !.pc = "announcing"] OBVIOUS
<1>3. r \in CallShape /\ r.pc = "announcing" /\ r.job = call[c].job
  BY <1>1, <1>2 DEF CallShape, Steps, Marked
<1>4. calls = [call EXCEPT ![c] = r] BY <1>2
<1>5. Handlers(calls, memory, lock, overlapped)
  <2>1. r.pc \in Marked /\ r.pc # "awaiting" /\ call[c].pc \notin {"announcing", "failing"} BY <1>3 DEF Marked
  <2>2. Handlers([call EXCEPT ![c] = r], memory, lock, overlapped) BY <1>1, <1>3, <2>1, Moves
  <2> QED BY <1>4, <2>2
<1>6. m \in Memory /\ m.pending = memory.pending \cup {call[c].job} BY <1>1, Memories
<1>7. calls[c] = r /\ \A e \in Calls \ {c} : calls[e] = call[e] BY <1>1, <1>4
<1>8. Submitted(calls, m, overlapped)
  <2> SUFFICES ASSUME NEW k \in m.pending \ overlapped, NEW e \in Calls, calls[e].pc \in Marked, calls[e].job = k
               PROVE  calls[e].pc \in {"announcing", "failing"}
    BY DEF Submitted
  <2>1. CASE e = c BY <1>3, <1>7, <2>1
  <2>2. CASE e # c
    <3>1. call[e].pc \in Marked /\ call[e].job = k BY <1>7, <2>2
    <3>2. k # call[c].job BY <1>1, <2>2, <3>1 DEF Handlers, Separate
    <3> QED BY <1>5, <1>6, <3>2 DEF Handlers, Submitted
  <2> QED BY <2>1, <2>2
<1>9. Audited(calls, m, overlapped)
  <2>1. \A k \in Jobs \ overlapped : audits[k] # 0 => k # call[c].job BY DEF Handlers, Audited
  <2> QED BY <1>5, <1>6, <2>1 DEF Handlers, Audited
<1> QED BY <1>5, <1>6, <1>8, <1>9 DEF Handlers

-----------------------------------------------------------------------------
(***************************************************************************)
(* One lemma for each action.                                              *)
(***************************************************************************)

LEMMA InitBid == Init => BidInv
<1> SUFFICES ASSUME Init PROVE BidInv OBVIOUS
<1> USE DEF Init
<1>1. \A c \in Calls : call[c] = Idle /\ call[c].pc = "idle" BY IdleShape
<1>2. call \in [Calls -> CallShape] /\ lock \in [Jobs -> Calls \cup {None}] /\ memory \in Memory /\ memory.pending = {}
  BY IdleShape DEF NoMemory, Memory
<1>3. /\ Busy(call) /\ LockHeld(call, lock) /\ Released(call) /\ Separate(call, overlapped)
      /\ Submitted(call, memory, overlapped) /\ Audited(call, memory, overlapped)
  BY <1>1, <1>2 DEF Busy, LockHeld, Released, Separate, Submitted, Audited, Marked, Executing
<1>4. Handlers(call, memory, lock, overlapped) BY <1>2, <1>3 DEF Handlers
<1>5. QueueOf(call, queue) BY <1>1 DEF QueueOf
<1>6. OneRuns(call, draining, queue) BY <1>1 DEF OneRuns, Executing
<1> QED BY <1>4, <1>5, <1>6 DEF BidInv, Chain

LEMMA StartsKeeps == ASSUME BidInv, Starts PROVE BidInv'
BY DEF Starts, history, chain, BidInv, Handlers, Busy, LockHeld, Released, Separate, Submitted, Audited,
       QueueOf, OneRuns, Chain

LEMMA CrashKeeps == ASSUME BidInv, Crash PROVE BidInv'
<1> PICK calls, m, l : calls = [c \in Calls |-> Idle] /\ m = NoMemory /\ l = [j \in Jobs |-> None] OBVIOUS
<1>1. /\ call' = calls /\ memory' = m /\ lock' = l /\ queue' = <<>> /\ draining' = FALSE
      /\ UNCHANGED <<overlapped, audits, bids, status>>
  BY DEF Crash, history, chain
<1>2. \A c \in Calls : calls[c].pc = "idle" BY IdleShape
<1>3. calls \in [Calls -> CallShape] /\ l \in [Jobs -> Calls \cup {None}] /\ m \in Memory /\ m.pending = {}
  BY IdleShape DEF NoMemory, Memory
<1>4. /\ Busy(calls) /\ LockHeld(calls, l) /\ Released(calls) /\ Separate(calls, overlapped)
      /\ Submitted(calls, m, overlapped)
  BY <1>2, <1>3 DEF Busy, LockHeld, Released, Separate, Submitted, Marked, Executing
<1>5. Audited(calls, m, overlapped) BY <1>2, <1>3 DEF BidInv, Handlers, Audited
<1>6. Handlers(calls, m, l, overlapped) BY <1>3, <1>4, <1>5 DEF BidInv, Handlers
<1> PICK o : o = overlapped OBVIOUS
<1>7. Handlers(call, memory, lock, overlapped)' BY <1>1, <1>6, Carried
<1>8. QueueOf(call, queue)' BY <1>1, <1>2 DEF QueueOf
<1>9. OneRuns(call, draining, queue)' BY <1>1, <1>2 DEF OneRuns, Executing
<1> QED BY <1>1, <1>7, <1>8, <1>9 DEF BidInv, Chain

LEMMA InviteKeeps == ASSUME BidInv, NEW c \in Calls, NEW j \in Jobs, Invite(c, j) PROVE BidInv'
<1>1. call[c].pc = "idle" /\ call \in [Calls -> CallShape] /\ memory \in Memory
  BY Records DEF Invite
<1>2. Handlers(call, memory, lock, overlapped) /\ lock[j] \in Calls \cup {None} BY DEF BidInv, Handlers
<1>3. \E r \in CallShape, m \in Memory :
        /\ r.job = j /\ r.pc \in {"waiting", "leaving", "skipping", "preflight"}
        /\ r.pc = "preflight" => j \notin memory.pending
        /\ r.pc = "waiting" => r.behind = lock[j] /\ lock[j] # None
        /\ m.pending = memory.pending /\ memory' = m /\ call' = [call EXCEPT ![c] = r]
  <2>1. CASE lock[j] = None
    <3>1. PICK pc \in Admissions(memory, j) :
            /\ memory' = Admitted(memory, j, pc)
            /\ call' = [call EXCEPT ![c] = [Idle EXCEPT !.pc = pc, !.job = j]]
      BY <2>1 DEF Invite
    <3>2. pc \in {"leaving", "skipping", "preflight"} /\ (pc = "preflight" => j \notin memory.pending)
      BY <1>1, Admission
    <3>3. Admitted(memory, j, pc) \in Memory /\ Admitted(memory, j, pc).pending = memory.pending
      BY <1>1, AdmittedMemory
    <3>4. PICK r : r = [Idle EXCEPT !.pc = pc, !.job = j] OBVIOUS
    <3>5. r \in CallShape /\ r.pc = pc /\ r.job = j BY <3>2, <3>4 DEF Idle, CallShape, Steps, Marked
    <3> QED BY <3>1, <3>2, <3>3, <3>4, <3>5
  <2>2. CASE lock[j] # None
    <3>1. PICK r : r = [Idle EXCEPT !.pc = "waiting", !.job = j, !.behind = lock[j]] OBVIOUS
    <3>2. r \in CallShape /\ r.pc = "waiting" /\ r.job = j /\ r.behind = lock[j]
      BY <1>2, <2>2, <3>1 DEF Idle, CallShape, Steps, Marked
    <3>3. memory' = memory /\ call' = [call EXCEPT ![c] = r] BY <2>2, <3>1 DEF Invite
    <3> QED BY <1>1, <2>2, <3>2, <3>3
  <2> QED BY <2>1, <2>2
<1>4. PICK r \in CallShape, m \in Memory :
        /\ r.job = j /\ r.pc \in {"waiting", "leaving", "skipping", "preflight"}
        /\ r.pc = "preflight" => j \notin memory.pending
        /\ r.pc = "waiting" => r.behind = lock[j] /\ lock[j] # None
        /\ m.pending = memory.pending /\ memory' = m /\ call' = [call EXCEPT ![c] = r]
  BY <1>3
<1>5. PICK calls, l : calls = [call EXCEPT ![c] = r] /\ l = [lock EXCEPT ![j] = c] OBVIOUS
<1>6. call' = calls /\ lock' = l /\ overlapped' = Overlaps(calls) /\ UNCHANGED <<queue, draining, audits, bids, status>>
  BY <1>4, <1>5 DEF Invite, chain
<1>7. PICK o : o = Overlaps(calls) OBVIOUS
<1>8. Handlers(calls, m, l, o) BY <1>1, <1>2, <1>4, <1>5, <1>7, Enters
<1>9. Handlers(call, memory, lock, overlapped)' BY <1>4, <1>6, <1>7, <1>8, Carried
<1>10. \A e \in Calls : (calls[e].pc = "queued" <=> call[e].pc = "queued")
                        /\ (calls[e].pc \in Executing <=> call[e].pc \in Executing)
  BY <1>1, <1>4, <1>5 DEF Executing
<1>11. PICK q, running : q = queue /\ running = draining OBVIOUS
<1>12. QueueOf(calls, q) /\ OneRuns(calls, running, q) BY <1>10, <1>11 DEF BidInv, QueueOf, OneRuns
<1>13. QueueOf(call, queue)' /\ OneRuns(call, draining, queue)' BY <1>6, <1>11, <1>12, CarriedQueue
<1> QED BY <1>6, <1>9, <1>13 DEF BidInv, Chain

LEMMA LeavingKeeps == ASSUME BidInv, NEW c \in Calls, Leaving(c) PROVE BidInv'
<1>1. PICK m : m = memory OBVIOUS
<1>2. /\ call[c].pc = "leaving" /\ m \in Memory /\ m.pending = memory.pending /\ UNCHANGED status
      /\ Leave(c, m, FALSE)
  BY <1>1, Records DEF Leaving, Leave, chain
<1> QED BY <1>2, Leaves DEF Executing

LEMMA SkippingKeeps == ASSUME BidInv, NEW c \in Calls, Skipping(c) PROVE BidInv'
<1>1. PICK m : m = memory OBVIOUS
<1>2. /\ call[c].pc = "skipping" /\ m \in Memory /\ m.pending = memory.pending /\ UNCHANGED status
      /\ Leave(c, m, FALSE) \/ Leave(c, m, TRUE)
  BY <1>1, Records DEF Skipping, Leave, chain
<1> QED BY <1>2, Leaves DEF Executing

\* The mark of an invitation is removed when its handler leaves.
LEMMA LeavesUnmarked ==
  ASSUME BidInv, NEW c \in Calls, call[c].pc \in {"preflight", "announcing", "failing"},
         NEW failed \in BOOLEAN, Leave(c, Unmarked(memory, call[c].job), failed)
  PROVE  BidInv'
<1>1. PICK j : j = call[c].job OBVIOUS
<1>2. j \in Jobs /\ memory \in Memory BY <1>1, Records
<1>3. PICK m : m = Unmarked(memory, j) OBVIOUS
<1>4. m \in Memory /\ m.pending = memory.pending BY <1>2, <1>3, Memories
<1>5. Leave(c, m, failed) BY <1>1, <1>3
<1>6. UNCHANGED status BY <1>5 DEF Leave, chain
<1> QED BY <1>4, <1>5, <1>6, Leaves DEF Executing

LEMMA PreflightKeeps == ASSUME BidInv, NEW c \in Calls, Preflight(c) PROVE BidInv'
<1>1. call[c].pc = "preflight" BY DEF Preflight
<1>2. CASE /\ IF MustQueue
              THEN /\ queue' = Append(queue, c)
                   /\ call' = [call EXCEPT ![c].pc = "queued"]
                   /\ UNCHANGED draining
              ELSE /\ draining' = TRUE
                   /\ call' = [call EXCEPT ![c].pc = "window"]
                   /\ UNCHANGED queue
           /\ UNCHANGED <<fixed, memory, lock, history, chain>>
  <2>1. PICK pc : pc = IF draining THEN "queued" ELSE "window" OBVIOUS
  <2>2. draining \in BOOLEAN BY DEF BidInv, OneRuns
  <2>3. /\ call' = [call EXCEPT ![c].pc = pc] /\ draining' = TRUE
        /\ queue' = IF draining THEN Append(queue, c) ELSE queue
    BY <1>2, <2>1, <2>2 DEF MustQueue
  <2>4. UNCHANGED <<memory, lock, overlapped, audits, bids, status>> BY <1>2 DEF history, chain
  <2> QED BY <1>1, <2>1, <2>3, <2>4, TaskBegins
<1>3. CASE Leave(c, Unmarked(memory, call[c].job), FALSE) BY <1>1, <1>3, LeavesUnmarked
<1>4. CASE Goto(c, "failing") /\ UNCHANGED chain BY <1>1, <1>4, Fails
<1> QED BY <1>2, <1>3, <1>4 DEF Preflight

\* The task ends with a bid found on chain.
LEMMA EndsKnown ==
  ASSUME BidInv, NEW c \in Calls, call[c].pc \in Executing, EndsTask(c, Known(memory, call[c].job))
  PROVE  BidInv'
<1>1. PICK j : j = call[c].job OBVIOUS
<1>2. j \in Jobs /\ memory \in Memory BY <1>1, Records DEF Executing
<1>3. PICK m : m = Known(memory, j) OBVIOUS
<1>4. m \in Memory /\ m.pending = memory.pending BY <1>2, <1>3, Memories
<1>5. EndsTask(c, m) BY <1>1, <1>3
<1>6. UNCHANGED status BY <1>5 DEF EndsTask, chain
<1> QED BY <1>4, <1>5, <1>6, Ends

\* The task ends with nothing learnt.
LEMMA EndsPlain ==
  ASSUME BidInv, NEW c \in Calls, call[c].pc \in Executing, EndsTask(c, memory)
  PROVE  BidInv'
<1>1. PICK m : m = memory OBVIOUS
<1>2. m \in Memory /\ m.pending = memory.pending BY <1>1, Records
<1>3. EndsTask(c, m) /\ UNCHANGED status BY <1>1 DEF EndsTask, chain
<1> QED BY <1>2, <1>3, Ends

LEMMA WindowKeeps == ASSUME BidInv, NEW c \in Calls, Window(c) PROVE BidInv'
<1>1. call[c].pc = "window" /\ call[c].pc \in Executing BY DEF Window, Executing
<1>2. CASE Goto(c, "asking") /\ UNCHANGED chain BY <1>1, <1>2, GoesTo DEF Executing
<1>3. CASE EndsTask(c, memory) BY <1>1, <1>3, EndsPlain
<1>4. CASE RejectsTask(c) BY <1>1, <1>4, Rejects
<1> QED BY <1>2, <1>3, <1>4 DEF Window

LEMMA AskKeeps == ASSUME BidInv, NEW c \in Calls, Ask(c) PROVE BidInv'
<1>1. call[c].pc = "asking" /\ call[c].pc \in Executing BY DEF Ask, Executing
<1>2. CASE EndsTask(c, Known(memory, call[c].job)) BY <1>1, <1>2, EndsKnown
<1>3. CASE Goto(c, "scouting") /\ UNCHANGED chain BY <1>1, <1>3, GoesTo DEF Executing
<1>4. CASE RejectsTask(c) BY <1>1, <1>4, Rejects
<1> QED BY <1>2, <1>3, <1>4 DEF Ask

\* An attempt begins or ends, and the handler stays in its task.
LEMMA Attempts ==
  ASSUME BidInv, NEW c \in Calls, call[c].pc \in Executing,
         NEW pc \in Executing, pc # "awaiting", NEW attempt \in Nat, NEW unsure \in BOOLEAN,
         call' = [call EXCEPT ![c] = [call[c] EXCEPT !.pc = pc, !.attempt = attempt, !.unsure = unsure]],
         UNCHANGED <<memory, lock, queue, draining, overlapped, audits, bids, status>>
  PROVE  BidInv'
<1>1. call[c] \in CallShape BY Records
<1>2. PICK r : r = [call[c] EXCEPT !.pc = pc, !.attempt = attempt, !.unsure = unsure] OBVIOUS
<1>3. r \in CallShape /\ r.pc = pc /\ r.job = call[c].job BY <1>1, <1>2 DEF CallShape, Steps, Marked
<1> QED BY <1>2, <1>3, GoesOn

LEMMA ScoutKeeps == ASSUME BidInv, NEW c \in Calls, Scout(c) PROVE BidInv'
<1>1. call[c].pc = "scouting" /\ call[c].pc \in Executing BY DEF Scout, Executing
<1>2. CASE /\ call' = [call EXCEPT ![c].pc = "sending", ![c].attempt = 1]
           /\ UNCHANGED <<fixed, memory, lock, queue, draining, history, chain>>
  <2>1. call[c] \in CallShape /\ call \in [Calls -> CallShape] BY Records
  <2>2. PICK unsure : unsure = call[c].unsure OBVIOUS
  <2>3. unsure \in BOOLEAN BY <2>1, <2>2 DEF CallShape
  <2>4. call' = [call EXCEPT ![c] = [call[c] EXCEPT !.pc = "sending", !.attempt = 1, !.unsure = unsure]]
    BY <1>2, <2>1, <2>2 DEF CallShape
  <2>5. UNCHANGED <<memory, lock, queue, draining, overlapped, audits, bids, status>> BY <1>2 DEF history, chain
  <2>6. "sending" \in Executing /\ 1 \in Nat BY DEF Executing
  <2> QED BY <1>1, <2>3, <2>4, <2>5, <2>6, Attempts
<1>3. CASE EndsTask(c, memory) BY <1>1, <1>3, EndsPlain
<1> QED BY <1>2, <1>3 DEF Scout

LEMMA SendKeeps == ASSUME BidInv, NEW c \in Calls, Send(c) PROVE BidInv'
<1>1. call[c].pc = "sending" /\ call[c].pc \in Executing BY DEF Send, Executing
<1>2. call[c] \in CallShape /\ call \in [Calls -> CallShape] BY Records
<1>3. PICK attempt : attempt = call[c].attempt OBVIOUS
<1>4. attempt \in Nat BY <1>2, <1>3 DEF CallShape
<1>5. CASE call[c].job \notin bids /\ UNCHANGED <<status, bids>> /\ Goto(c, "awaiting")
  <2>1. PICK r : r = [call[c] EXCEPT !.pc = "awaiting"] OBVIOUS
  <2>2. r \in CallShape /\ r.pc = "awaiting" /\ r.job = call[c].job /\ r.pc \in Executing
    BY <1>2, <2>1 DEF CallShape, Steps, Marked, Executing
  <2>3. /\ call' = [call EXCEPT ![c] = r]
        /\ UNCHANGED <<memory, lock, queue, draining, overlapped, audits, bids, status>>
    BY <1>2, <1>5, <2>1 DEF Goto, history
  <2> QED BY <1>1, <1>5, <2>2, <2>3, GoesOn
<1>6. CASE EndsTask(c, Known(memory, call[c].job)) BY <1>1, <1>6, EndsKnown
<1>7. CASE /\ call' = [call EXCEPT ![c].pc = "late", ![c].unsure = FALSE]
           /\ UNCHANGED <<fixed, memory, lock, queue, draining, history, chain>>
  <2>1. call' = [call EXCEPT ![c] = [call[c] EXCEPT !.pc = "late", !.attempt = attempt, !.unsure = FALSE]]
    BY <1>2, <1>3, <1>7 DEF CallShape
  <2>2. UNCHANGED <<memory, lock, queue, draining, overlapped, audits, bids, status>> BY <1>7 DEF history, chain
  <2>3. "late" \in Executing BY DEF Executing
  <2> QED BY <1>1, <1>4, <2>1, <2>2, <2>3, Attempts
<1>8. CASE /\ call' = [call EXCEPT ![c].pc = "recheck", ![c].unsure = TRUE]
           /\ UNCHANGED <<fixed, memory, lock, queue, draining, history, status, bids>>
  <2>1. call' = [call EXCEPT ![c] = [call[c] EXCEPT !.pc = "recheck", !.attempt = attempt, !.unsure = TRUE]]
    BY <1>2, <1>3, <1>8 DEF CallShape
  <2>2. UNCHANGED <<memory, lock, queue, draining, overlapped, audits, bids, status>> BY <1>8 DEF history
  <2>3. "recheck" \in Executing BY DEF Executing
  <2> QED BY <1>1, <1>4, <2>1, <2>2, <2>3, Attempts
<1> QED BY <1>5, <1>6, <1>7, <1>8 DEF Send

LEMMA AnswerKeeps == ASSUME BidInv, NEW c \in Calls, Answer(c) PROVE BidInv'
<1>1. call[c].pc = "awaiting" /\ call[c].pc \in Executing BY DEF Answer, Executing
<1>2. call[c] \in CallShape /\ call \in [Calls -> CallShape] BY Records
<1>3. CASE /\ memory' = Recorded(memory, call[c].job)
           /\ DrainOn([call EXCEPT ![c].pc = "announcing"])
           /\ UNCHANGED <<fixed, lock, history, chain>>
  <2>1. PICK m, calls : m = Recorded(memory, call[c].job) /\ calls = [call EXCEPT ![c].pc = "announcing"] OBVIOUS
  <2>2. Handlers(calls, m, lock, overlapped) BY <1>1, <2>1, Recording DEF BidInv
  <2>3. memory' = m /\ DrainOn(calls) /\ UNCHANGED <<lock, overlapped, audits, bids, status>>
    BY <1>3, <2>1 DEF history, chain
  <2> QED BY <1>1, <2>1, <2>2, <2>3, TaskIsOver
<1>4. CASE /\ call' = [call EXCEPT ![c].pc = "recheck", ![c].unsure = TRUE]
           /\ UNCHANGED <<fixed, memory, lock, queue, draining, history, chain>>
  <2>1. PICK attempt : attempt = call[c].attempt OBVIOUS
  <2>2. attempt \in Nat BY <1>2, <2>1 DEF CallShape
  <2>3. call' = [call EXCEPT ![c] = [call[c] EXCEPT !.pc = "recheck", !.attempt = attempt, !.unsure = TRUE]]
    BY <1>2, <1>4, <2>1 DEF CallShape
  <2>4. UNCHANGED <<memory, lock, queue, draining, overlapped, audits, bids, status>> BY <1>4 DEF history, chain
  <2>5. "recheck" \in Executing BY DEF Executing
  <2> QED BY <1>1, <2>2, <2>3, <2>4, <2>5, Attempts
<1> QED BY <1>3, <1>4 DEF Answer

LEMMA RecheckKeeps == ASSUME BidInv, NEW c \in Calls, Recheck(c) PROVE BidInv'
<1>1. call[c].pc = "recheck" /\ call[c].pc \in Executing BY DEF Recheck, Executing
<1>2. CASE EndsTask(c, Known(memory, call[c].job)) BY <1>1, <1>2, EndsKnown
<1>3. CASE Goto(c, "late") /\ UNCHANGED chain BY <1>1, <1>3, GoesTo DEF Executing
<1> QED BY <1>2, <1>3 DEF Recheck

LEMMA LateKeeps == ASSUME BidInv, NEW c \in Calls, Late(c) PROVE BidInv'
<1>1. call[c].pc = "late" /\ call[c].pc \in Executing BY DEF Late, Executing
<1>2. CASE /\ call' = [call EXCEPT ![c].pc = "sending", ![c].attempt = @ + 1]
           /\ UNCHANGED <<fixed, memory, lock, queue, draining, history, chain>>
  <2>1. call[c] \in CallShape /\ call \in [Calls -> CallShape] BY Records
  <2>2. PICK attempt, unsure : attempt = call[c].attempt + 1 /\ unsure = call[c].unsure OBVIOUS
  <2>3. attempt \in Nat /\ unsure \in BOOLEAN BY <2>1, <2>2 DEF CallShape
  <2>4. call' = [call EXCEPT ![c] = [call[c] EXCEPT !.pc = "sending", !.attempt = attempt, !.unsure = unsure]]
    BY <1>2, <2>1, <2>2 DEF CallShape
  <2>5. UNCHANGED <<memory, lock, queue, draining, overlapped, audits, bids, status>> BY <1>2 DEF history, chain
  <2>6. "sending" \in Executing BY DEF Executing
  <2> QED BY <1>1, <2>3, <2>4, <2>5, <2>6, Attempts
<1>3. CASE RejectsTask(c) BY <1>1, <1>3, Rejects
<1>4. CASE EndsTask(c, memory) BY <1>1, <1>4, EndsPlain
<1> QED BY <1>2, <1>3, <1>4 DEF Late

LEMMA AnnounceKeeps == ASSUME BidInv, NEW c \in Calls, Announce(c) PROVE BidInv'
<1>1. call[c].pc = "announcing" BY DEF Announce
<1>2. CASE Leave(c, Unmarked(memory, call[c].job), FALSE) BY <1>1, <1>2, LeavesUnmarked
<1>3. CASE Goto(c, "failing") /\ UNCHANGED chain BY <1>1, <1>3, Fails
<1> QED BY <1>2, <1>3 DEF Announce

LEMMA FailingKeeps == ASSUME BidInv, NEW c \in Calls, Failing(c) PROVE BidInv'
BY LeavesUnmarked DEF Failing

\* An event reaches the agent: the handlers stay, the memory and the audits go on.
LEMMA EventHeard ==
  ASSUME BidInv, NEW m \in Memory, memory' = m,
         UNCHANGED <<lock, queue, draining, call, overlapped, bids>>,
         Audited(call, m, overlapped)', Chain', m.pending \subseteq memory.pending
  PROVE  BidInv'
<1>1. Submitted(call, m, overlapped) BY DEF BidInv, Handlers, Submitted
<1>2. /\ call' \in [Calls -> CallShape] /\ memory' \in Memory /\ lock' \in [Jobs -> Calls \cup {None}]
      /\ overlapped' \subseteq Jobs
      /\ Busy(call)' /\ LockHeld(call, lock)' /\ Released(call)' /\ Separate(call, overlapped)'
      /\ Submitted(call, memory, overlapped)'
  BY <1>1 DEF BidInv, Handlers, Busy, LockHeld, Released, Separate, Submitted
<1>3. Audited(call, memory, overlapped)' BY DEF Audited
<1>4. Handlers(call, memory, lock, overlapped)' BY <1>2, <1>3 DEF Handlers
<1>5. QueueOf(call, queue)' /\ OneRuns(call, draining, queue)' BY DEF BidInv, QueueOf, OneRuns
<1> QED BY <1>4, <1>5 DEF BidInv

LEMMA WinnerEventKeeps == ASSUME BidInv, NEW j \in Jobs, WinnerEvent(j) PROVE BidInv'
<1>1. memory \in Memory /\ Audited(call, memory, overlapped) /\ Submitted(call, memory, overlapped) /\ Chain
  BY DEF BidInv, Handlers
<1>2. PICK m : m = IF j \in memory.pending \cup memory.submitted THEN Cleared(memory, j) ELSE memory OBVIOUS
<1>3. memory' = m /\ UNCHANGED <<lock, queue, draining, call, overlapped, bids, status>>
  BY <1>2 DEF WinnerEvent, history, chain
<1>4. m \in Memory /\ m.pending \subseteq memory.pending /\ j \notin m.pending
  BY <1>1, <1>2, Memories DEF Memory
<1>5. CASE audits' = audits
  <2>1. Audited(call, m, overlapped)' BY <1>1, <1>3, <1>4, <1>5 DEF Audited
  <2>2. Chain' BY <1>1, <1>3, <1>5 DEF Chain
  <2> QED BY <1>3, <1>4, <2>1, <2>2, EventHeard
<1>6. CASE status[j] = "won" /\ j \in memory.pending /\ audits' = [audits EXCEPT ![j] = @ + 1]
  <2>1. audits \in [Jobs -> Nat] BY <1>1 DEF Chain
  <2>2. audits' \in [Jobs -> Nat] BY <1>6, <2>1
  <2>3. Chain' BY <1>1, <1>3, <2>2 DEF Chain
  <2>4. Audited(call, m, overlapped)'
    <3> SUFFICES ASSUME NEW k \in Jobs, k \notin overlapped', audits'[k] # 0
                 PROVE  /\ audits'[k] = 1 /\ k \notin m.pending /\ status'[k] = "won"
                        /\ \A c \in Calls : call'[c].job = k => call'[c].pc # "awaiting"
      BY DEF Audited
    <3>1. CASE k = j
      <4>1. audits[k] = 0 BY <1>1, <1>3, <1>6, <3>1 DEF Audited
      <4>2. audits'[k] = 1 BY <1>6, <2>1, <3>1, <4>1
      <4>3. \A c \in Calls : call[c].job = k => call[c].pc # "awaiting"
        BY <1>1, <1>3, <1>6, <3>1 DEF Submitted, Marked, Executing
      <4> QED BY <1>3, <1>4, <1>6, <3>1, <4>2, <4>3
    <3>2. CASE k # j
      <4>1. audits[k] = audits'[k] BY <1>6, <2>1, <3>2
      <4> QED BY <1>1, <1>3, <1>4, <4>1 DEF Audited
    <3> QED BY <3>1, <3>2
  <2> QED BY <1>3, <1>4, <2>3, <2>4, EventHeard
<1> QED BY <1>5, <1>6 DEF WinnerEvent, history

LEMMA CancelEventKeeps == ASSUME BidInv, NEW j \in Jobs, CancelEvent(j) PROVE BidInv'
<1>1. memory \in Memory /\ Audited(call, memory, overlapped) /\ Chain BY DEF BidInv, Handlers
<1>2. PICK m : m = Cleared(memory, j) OBVIOUS
<1>3. memory' = m /\ UNCHANGED <<lock, queue, draining, call, overlapped, bids, status, audits>>
  BY <1>2 DEF CancelEvent, history, chain
<1>4. m \in Memory /\ m.pending \subseteq memory.pending
  <2>1. Cleared(memory, j) \in Memory /\ Cleared(memory, j).pending = memory.pending \ {j} BY <1>1, Memories
  <2> QED BY <1>2, <2>1
<1>5. Audited(call, m, overlapped)' BY <1>1, <1>3, <1>4 DEF Audited
<1>6. Chain' BY <1>1, <1>3 DEF Chain
<1> QED BY <1>3, <1>4, <1>5, <1>6, EventHeard

LEMMA CloseKeeps == ASSUME BidInv, NEW j \in Jobs, Close(j) PROVE BidInv'
<1>1. memory \in Memory /\ Audited(call, memory, overlapped) /\ Chain BY DEF BidInv, Handlers
<1>2. UNCHANGED <<memory, lock, queue, draining, call, overlapped, bids, audits>> BY DEF Close, history
<1>3. PICK s \in {"closing", "won", "lost", "cancelled"} :
        /\ status[j] \in {"open", "closing"} /\ status' = [status EXCEPT ![j] = s] /\ (s = "won" => j \in bids)
  BY DEF Close
<1>4. \A k \in Jobs : status'[k] = IF k = j THEN s ELSE status[k] BY <1>1, <1>3 DEF Chain
<1>5. status' \in [Jobs -> {"open", "closing", "won", "lost", "cancelled"}] BY <1>1, <1>3 DEF Chain
<1>6. Chain' BY <1>1, <1>2, <1>3, <1>4, <1>5 DEF Chain
<1>7. PICK m : m = memory OBVIOUS
<1>8. Audited(call, m, overlapped)' BY <1>1, <1>2, <1>3, <1>4, <1>7 DEF Audited
<1> QED BY <1>1, <1>2, <1>6, <1>7, <1>8, EventHeard

LEMMA MineKeeps == ASSUME BidInv, NEW j \in Jobs, Mine(j) PROVE BidInv'
<1>1. UNCHANGED <<memory, lock, queue, draining, call, overlapped, status, audits>>
      /\ bids' \in {bids, bids \cup {j}}
  BY DEF Mine, history
<1>2. Handlers(call, memory, lock, overlapped)'
  BY <1>1 DEF BidInv, Handlers, Busy, LockHeld, Released, Separate, Submitted, Audited
<1>3. QueueOf(call, queue)' /\ OneRuns(call, draining, queue)' BY <1>1 DEF BidInv, QueueOf, OneRuns
<1>4. Chain' BY <1>1 DEF BidInv, Chain
<1> QED BY <1>2, <1>3, <1>4 DEF BidInv

LEMMA NothingKeeps == ASSUME BidInv, UNCHANGED vars PROVE BidInv'
BY DEF vars, fixed, history, chain, BidInv, Handlers, Busy, LockHeld, Released, Separate, Submitted, Audited,
       QueueOf, OneRuns, Chain

\* The three agents take the same steps.
LEMMA AgentKeeps ==
  ASSUME BidInv, StaticAgent \/ FuzzerAgent \/ LlmAgent PROVE BidInv'
<1>1. CASE Starts BY <1>1, StartsKeeps
<1>2. ASSUME NEW c \in Calls, Invited(c) PROVE BidInv'
  BY <1>2, InviteKeeps, LeavingKeeps, SkippingKeeps DEF Invited
<1>3. ASSUME NEW c \in Calls, Preflight(c) PROVE BidInv' BY <1>3, PreflightKeeps
<1>4. ASSUME NEW c \in Calls, Queued(c) PROVE BidInv' BY <1>4, WindowKeeps, AskKeeps, ScoutKeeps DEF Queued
<1>5. ASSUME NEW c \in Calls, Submission(c) PROVE BidInv'
  BY <1>5, SendKeeps, AnswerKeeps, RecheckKeeps, LateKeeps DEF Submission
<1>6. ASSUME NEW c \in Calls, Conclusion(c) PROVE BidInv' BY <1>6, AnnounceKeeps, FailingKeeps DEF Conclusion
<1>7. ASSUME NEW j \in Jobs, Events(j) PROVE BidInv' BY <1>7, WinnerEventKeeps, CancelEventKeeps DEF Events
<1>8. CASE StaticAgent BY <1>1, <1>2, <1>3, <1>4, <1>5, <1>6, <1>7, <1>8 DEF StaticAgent
<1>9. CASE FuzzerAgent
  BY <1>1, <1>2, <1>3, <1>4, <1>5, <1>6, <1>7, <1>9
     DEF FuzzerAgent, FuzzerStarts, FuzzerInvited, FuzzerPreflight, FuzzerQueue, FuzzerSubmission,
         FuzzerConclusion, FuzzerEvents
<1>10. CASE LlmAgent
  BY <1>1, <1>2, <1>3, <1>4, <1>5, <1>6, <1>7, <1>10
     DEF LlmAgent, LlmStarts, LlmInvited, LlmPreflight, LlmQueue, LlmSubmission, LlmConclusion, LlmEvents
<1> QED BY <1>8, <1>9, <1>10

\* The invariant of the agent's handlers, its queue and the chain.
THEOREM BiddingInvariant == Spec => []BidInv
<1>1. BidInv /\ [Next]_vars => BidInv'
  <2> SUFFICES ASSUME BidInv, [Next]_vars PROVE BidInv' OBVIOUS
  <2>1. CASE Crash BY <2>1, CrashKeeps
  <2>2. CASE StaticAgent \/ FuzzerAgent \/ LlmAgent BY <2>2, AgentKeeps
  <2>3. CASE \E j \in Jobs : Close(j) \/ Mine(j) BY <2>3, CloseKeeps, MineKeeps
  <2>4. CASE UNCHANGED vars BY <2>4, NothingKeeps
  <2> QED BY <2>1, <2>2, <2>3, <2>4 DEF Next
<1> QED BY InitBid, <1>1, PTL DEF Spec

-----------------------------------------------------------------------------
(***************************************************************************)
(* What follows.                                                           *)
(***************************************************************************)

LEMMA TakeTurns == ASSUME BidInv PROVE HandlersTakeTurns
<1>1. OneRuns(call, draining, queue) /\ QueueOf(call, queue) /\ Released(call) BY DEF BidInv, Handlers
<1>2. Cardinality(ExecutingCalls) = IF draining THEN 1 ELSE 0
  <2>1. CASE draining
    <3>1. PICK c \in Calls : call[c].pc \in Executing BY <1>1, <2>1 DEF OneRuns
    <3>2. ExecutingCalls = {c} BY <1>1, <3>1 DEF OneRuns, ExecutingCalls
    <3> QED BY <2>1, <3>2, FS_Singleton
  <2>2. CASE ~draining
    <3>1. ExecutingCalls = {} BY <1>1, <2>2 DEF OneRuns, ExecutingCalls
    <3> QED BY <2>2, <3>1, FS_EmptySet
  <2> QED BY <2>1, <2>2
<1>3. {c \in Calls : call[c].pc = "queued"} = ToSet(queue)
  <2>1. \A i \in DOMAIN queue : queue[i] \in Calls BY <1>1 DEF QueueOf
  <2> QED BY <1>1, <2>1 DEF QueueOf, ToSet
<1>4. queue # <<>> => draining BY <1>1 DEF OneRuns
<1>5. WaitersReleased BY <1>1 DEF Released, WaitersReleased
<1> QED BY <1>2, <1>3, <1>4, <1>5 DEF HandlersTakeTurns, OneBidAtATime

LEMMA AuditsOnce == ASSUME BidInv PROVE AuditedOnce
<1>1. Audited(call, memory, overlapped) /\ audits \in [Jobs -> Nat] BY DEF BidInv, Handlers, Chain
<1> QED BY <1>1 DEF Audited, AuditedOnce

\* Tasks and handlers take turns: one bid is submitted at a time, the queue
\* holds the tasks that wait for it, and whoever waits for a job's lock waits
\* for a handler that runs, whatever fails and however often the agent is
\* restarted.
THEOREM HandlersTakeTurnsHolds == Spec => []HandlersTakeTurns
BY BiddingInvariant, TakeTurns, PTL

\* A job that two handlers never submitted for at once is audited once at
\* most, over repeated invitations, repeated awards and restarts.
THEOREM AuditedOnceHolds == Spec => []AuditedOnce
BY BiddingInvariant, AuditsOnce, PTL

-----------------------------------------------------------------------------
(***************************************************************************)
(* The audits and the report.                                              *)
(***************************************************************************)

Auditing == {"static", "fuzzer", "llm"}
CycleSteps == {"idle", "analyzing", "storing", "publishing", "listing", "offering", "buying", "receipting",
               "creating", "posting", "logging", "waiting", "accepting", "done", "failed"}
\* Where a cycle may be once its findings are on the topic.
Past == {"listing", "offering", "done", "failed"}

JobEntry == [heard : Seq(Auditing), timer : {"unset", "running", "fired"}, aggregating : BOOLEAN]
Aggregate == [pc : {"none", "counting", "publishing", "fetching", "deleting", "writing", "stuck"},
              counted : SUBSET Auditing, shown : SUBSET Auditing]
Report == [counted : SUBSET Auditing, agentCount : Nat, shown : SUBSET Auditing, written : BOOLEAN]

\* The auditors whose submission is among the first n, those that an entry of
\* the report agent lists, and those that the first n reports show.
Received(t, n) == {t[i] : i \in 1 .. n}
Listed(j) == {j.heard[i] : i \in DOMAIN j.heard}
Shown(rs, n) == {a \in Auditing : \E k \in 1 .. n : a \in rs[k].shown}

PipelineShape ==
    /\ at \in [Auditing -> CycleSteps]
    /\ topic \in Seq(Auditing) /\ read \in 0 .. Len(topic)
    /\ job \in JobEntry /\ aggregate \in Aggregate /\ reports \in Seq(Report)
    /\ store \subseteq Auditing /\ excused \subseteq Auditing

\* Each auditor submits once, before the end of its cycle.
SubmitsOnce == \A i \in DOMAIN topic :
    at[topic[i]] \in Past /\ \A k \in DOMAIN topic : topic[i] = topic[k] => i = k

\* Only what was handed to the report agent is listed or counted; what it lists
\* is not counted yet, until the next report is published.
HeardBefore ==
    /\ Listed(job) \subseteq Received(topic, read) /\ aggregate.counted \subseteq Received(topic, read)
    /\ \A i \in DOMAIN reports : reports[i].counted \subseteq Received(topic, read)
    /\ \A i, k \in DOMAIN reports : i # k => reports[i].counted \cap reports[k].counted = {}
    /\ aggregate.pc \in {"none", "counting", "publishing"} =>
         \A i \in DOMAIN reports : Listed(job) \cap reports[i].counted = {}
    /\ aggregate.pc = "publishing" => aggregate.counted \subseteq Listed(job)

\* Findings are stored before they are submitted, and leave the store for a
\* report that shows them.
Somewhere == store \cup excused \cup aggregate.shown \cup Shown(reports, Len(reports))
StoredFirst == \A a \in Auditing :
    at[a] = "publishing" \/ (\E i \in DOMAIN topic : topic[i] = a) => a \in Somewhere

\* There is one report in the making at a time; it is the last, and what it
\* counts is shown.
InTheMaking ==
    /\ aggregate.pc # "none" => job.timer = "fired"
    /\ aggregate.pc \in {"fetching", "deleting", "writing"} =>
         /\ reports # <<>> /\ reports[Len(reports)].counted = aggregate.counted
         /\ reports[Len(reports)].shown = {}
    /\ aggregate.pc \in {"none", "counting", "publishing", "fetching"} => aggregate.shown = {}
    /\ aggregate.pc \in {"deleting", "writing"} =>
         aggregate.counted \subseteq aggregate.shown \cup excused \cup Shown(reports, Len(reports))

WrittenShown == \A i \in DOMAIN reports :
    reports[i].written => reports[i].counted \subseteq Shown(reports, i) \cup excused

ReportsKept == PipelineShape /\ SubmitsOnce /\ HeardBefore /\ StoredFirst /\ InTheMaking /\ WrittenShown

\* Nothing is promised after a restart of the report agent.
PipelineInv == replayed \in BOOLEAN /\ (~replayed => ReportsKept)

-----------------------------------------------------------------------------
\* The auditors' steps.

LEMMA CycleStep ==
  ASSUME ReportsKept, NEW a \in Auditing, NEW pc \in CycleSteps \ {"publishing"},
         at[a] \in Past => pc \in Past, at' = [at EXCEPT ![a] = pc],
         UNCHANGED <<store, topic, read, job, aggregate, reports, excused>>
  PROVE  ReportsKept'
<1>1. /\ at' \in [Auditing -> CycleSteps]
      /\ \A b \in Auditing : /\ at[b] \in Past => at'[b] \in Past
                             /\ at'[b] = "publishing" => at[b] = "publishing"
  BY DEF ReportsKept, PipelineShape
<1>2. PipelineShape' BY <1>1 DEF ReportsKept, PipelineShape
<1>3. SubmitsOnce'
  <2>1. \A i \in DOMAIN topic : topic[i] \in Auditing BY DEF ReportsKept, PipelineShape
  <2> QED BY <1>1, <2>1 DEF ReportsKept, SubmitsOnce
<1>4. HeardBefore' BY DEF ReportsKept, HeardBefore, Received, Listed
<1>5. StoredFirst'
  <2>1. Somewhere' = Somewhere BY DEF Somewhere, Shown
  <2> QED BY <1>1, <2>1 DEF ReportsKept, StoredFirst
<1>6. InTheMaking' /\ WrittenShown' BY DEF ReportsKept, InTheMaking, WrittenShown, Shown
<1> QED BY <1>2, <1>3, <1>4, <1>5, <1>6 DEF ReportsKept

LEMMA QuietStep ==
  ASSUME ReportsKept, UNCHANGED <<at, store, topic, read, job, aggregate, reports, excused>>
  PROVE  ReportsKept'
<1>1. PipelineShape' /\ SubmitsOnce' BY DEF ReportsKept, PipelineShape, SubmitsOnce
<1>2. HeardBefore' BY DEF ReportsKept, HeardBefore, Received, Listed
<1>3. Somewhere' = Somewhere BY DEF Somewhere, Shown
<1>4. StoredFirst' BY <1>3 DEF ReportsKept, StoredFirst
<1>5. InTheMaking' /\ WrittenShown' BY DEF ReportsKept, InTheMaking, WrittenShown, Shown
<1> QED BY <1>1, <1>2, <1>4, <1>5 DEF ReportsKept

\* A cycle goes on.
LEMMA CycleGoesOn ==
  ASSUME ReportsKept, NEW a \in Auditing, NEW pc, Pipeline!Goto(a, pc), pc \in CycleSteps \ {"publishing"},
         at[a] \in Past => pc \in Past,
         UNCHANGED <<store, topic, read, job, aggregate, reports, excused>>
  PROVE  ReportsKept'
BY CycleStep DEF Pipeline!Goto

LEMMA StoreKeeps == ASSUME ReportsKept, NEW a \in Auditing, Pipeline!Store(a) PROVE ReportsKept'
<1>1. /\ at[a] = "storing" /\ at' = [at EXCEPT ![a] = "publishing"]
      /\ UNCHANGED <<topic, read, job, aggregate, reports>>
      /\ \/ store' = store \cup {a} /\ excused' = excused
         \/ excused' = excused \cup {a} /\ store' = store
  BY DEF Pipeline!Store, Pipeline!Goto, Pipeline!reporting
<1>2. /\ at' \in [Auditing -> CycleSteps] /\ at[a] \notin Past
      /\ \A b \in Auditing : b # a => at'[b] = at[b]
  BY <1>1 DEF ReportsKept, PipelineShape, CycleSteps, Past
<1>3. PipelineShape' BY <1>1, <1>2 DEF ReportsKept, PipelineShape
<1>4. \A i \in DOMAIN topic : topic[i] \in Auditing /\ topic[i] # a
  BY <1>2 DEF ReportsKept, PipelineShape, SubmitsOnce
<1>5. SubmitsOnce' BY <1>1, <1>2, <1>4 DEF ReportsKept, SubmitsOnce
<1>6. HeardBefore' BY <1>1 DEF ReportsKept, HeardBefore, Received, Listed
<1>7. StoredFirst'
  <2>1. a \in Somewhere' /\ Somewhere \subseteq Somewhere' BY <1>1 DEF Somewhere, Shown
  <2> QED BY <1>1, <1>2, <1>4, <2>1 DEF ReportsKept, StoredFirst
<1>8. InTheMaking' /\ WrittenShown' BY <1>1 DEF ReportsKept, InTheMaking, WrittenShown, Shown
<1> QED BY <1>3, <1>5, <1>6, <1>7, <1>8 DEF ReportsKept

LEMMA SubmitKeeps == ASSUME ReportsKept, NEW a \in Auditing, Pipeline!Submit(a) PROVE ReportsKept'
<1>1. /\ at[a] = "publishing" /\ UNCHANGED <<store, excused, read, job, aggregate, reports>>
  BY DEF Pipeline!Submit, Pipeline!MaySubmit, Pipeline!reporting
<1>2. PICK pc \in Past : at' = [at EXCEPT ![a] = pc]
  BY DEF Pipeline!Submit, Pipeline!Published, Pipeline!PublicationFails, Pipeline!Goto, Past
<1>3. CASE topic' = topic
  <2>1. pc \in CycleSteps \ {"publishing"} BY DEF Past, CycleSteps
  <2> QED BY <1>1, <1>2, <1>3, <2>1, CycleStep
<1>4. CASE topic' = Append(topic, a)
  <2>1. /\ at' \in [Auditing -> CycleSteps] /\ at'[a] = pc /\ at[a] \notin Past /\ pc # "publishing"
        /\ \A b \in Auditing : b # a => at'[b] = at[b]
    BY <1>1, <1>2 DEF ReportsKept, PipelineShape, CycleSteps, Past
  <2>2. topic \in Seq(Auditing) /\ read \in 0 .. Len(topic) BY DEF ReportsKept, PipelineShape
  <2>3. /\ topic' \in Seq(Auditing) /\ DOMAIN topic = 1 .. Len(topic)
        /\ DOMAIN topic' = 1 .. (Len(topic) + 1) /\ Len(topic') = Len(topic) + 1
        /\ topic'[Len(topic) + 1] = a /\ \A i \in 1 .. Len(topic) : topic'[i] = topic[i]
    BY <1>4, <2>2
  <2>4. \A i \in 1 .. Len(topic) : topic[i] \in Auditing \ {a} /\ at[topic[i]] \in Past
    BY <2>1, <2>2, <2>3 DEF ReportsKept, SubmitsOnce
  <2>5. PipelineShape' BY <1>1, <2>1, <2>2, <2>3 DEF ReportsKept, PipelineShape
  <2>6. SubmitsOnce'
    <3> SUFFICES ASSUME NEW i \in 1 .. (Len(topic) + 1)
                 PROVE  /\ at'[topic'[i]] \in Past
                        /\ \A k \in 1 .. (Len(topic) + 1) : topic'[i] = topic'[k] => i = k
      BY <2>3 DEF SubmitsOnce
    <3>1. at'[topic'[i]] \in Past BY <2>1, <2>2, <2>3, <2>4
    <3>2. ASSUME NEW k \in 1 .. (Len(topic) + 1), topic'[i] = topic'[k] PROVE i = k
      <4>1. CASE i = Len(topic) + 1 \/ k = Len(topic) + 1 BY <2>2, <2>3, <2>4, <3>2, <4>1
      <4>2. CASE i \in 1 .. Len(topic) /\ k \in 1 .. Len(topic)
        BY <2>3, <3>2, <4>2 DEF ReportsKept, SubmitsOnce
      <4> QED BY <2>2, <4>1, <4>2
    <3> QED BY <3>1, <3>2
  <2>7. Received(topic', read) = Received(topic, read)
    <3>1. \A i \in 1 .. read : i \in 1 .. Len(topic) BY <2>2
    <3> QED BY <2>3, <3>1 DEF Received
  <2>8. HeardBefore' BY <1>1, <2>7 DEF ReportsKept, HeardBefore, Listed
  <2>9. StoredFirst'
    <3>1. Somewhere' = Somewhere /\ a \in Somewhere BY <1>1 DEF Somewhere, Shown, ReportsKept, StoredFirst
    <3>2. ASSUME NEW b \in Auditing \ {a}, at'[b] = "publishing" \/ \E i \in DOMAIN topic' : topic'[i] = b
          PROVE  b \in Somewhere
      <4>1. (\E i \in DOMAIN topic' : topic'[i] = b) => \E i \in DOMAIN topic : topic[i] = b
        BY <2>2, <2>3, <3>2
      <4> QED BY <2>1, <3>2, <4>1 DEF ReportsKept, StoredFirst
    <3> QED BY <3>1, <3>2 DEF StoredFirst
  <2>10. InTheMaking' /\ WrittenShown' BY <1>1 DEF ReportsKept, InTheMaking, WrittenShown, Shown
  <2> QED BY <2>5, <2>6, <2>8, <2>9, <2>10 DEF ReportsKept
<1> QED BY <1>3, <1>4 DEF Pipeline!Submit

-----------------------------------------------------------------------------
\* The report agent's steps.

\* What is read next is nowhere yet.
LEMMA HearKeeps == ASSUME ReportsKept, Pipeline!HearFindings PROVE ReportsKept'
<1>1. /\ read < Len(topic) /\ read' = read + 1
      /\ job' = Pipeline!WithTimer([job EXCEPT !.heard = Append(@, topic[read + 1])])
      /\ UNCHANGED <<at, store, topic, excused, aggregate, reports>>
  BY DEF Pipeline!HearFindings, Pipeline!findings
<1>2. topic \in Seq(Auditing) /\ read \in 0 .. Len(topic) /\ job \in JobEntry
  BY DEF ReportsKept, PipelineShape
<1>3. PICK a \in Auditing : a = topic[read + 1] BY <1>1, <1>2
<1>4. PICK entry \in JobEntry : entry = [job EXCEPT !.heard = Append(job.heard, a)]
  <2>1. job.heard \in Seq(Auditing) BY <1>2 DEF JobEntry
  <2>2. PICK heardNow : heardNow = Append(job.heard, a) OBVIOUS
  <2>3. heardNow \in Seq(Auditing) BY <2>1, <2>2
  <2>4. [job EXCEPT !.heard = heardNow] \in JobEntry BY <1>2, <2>3 DEF JobEntry
  <2> QED BY <2>2, <2>4
<1>5. /\ job' \in JobEntry /\ job'.heard = Append(job.heard, a)
      /\ job.timer = "fired" => job'.timer = "fired"
  <2>1. entry.heard = Append(job.heard, a) /\ entry.timer = job.timer BY <1>2, <1>4 DEF JobEntry
  <2>2. job' = IF entry.timer = "unset" THEN [entry EXCEPT !.timer = "running"] ELSE entry
    BY <1>1, <1>3, <1>4 DEF Pipeline!WithTimer
  <2> QED BY <2>1, <2>2 DEF JobEntry
<1>6. Listed(job') = Listed(job) \cup {a}
  <2>1. job.heard \in Seq(Auditing) BY <1>2 DEF JobEntry
  <2> QED BY <1>5, <2>1 DEF Listed
<1>7. PipelineShape' BY <1>1, <1>2, <1>5 DEF ReportsKept, PipelineShape
<1>8. Received(topic, read + 1) = Received(topic, read) \cup {a}
  <2>1. \A i : i \in 1 .. (read + 1) <=> i \in 1 .. read \/ i = read + 1 BY <1>2
  <2> QED BY <1>3, <2>1 DEF Received
<1>9. a \notin Received(topic, read)
  <2>1. \A i \in 1 .. read : i \in DOMAIN topic /\ read + 1 \in DOMAIN topic /\ i # read + 1 BY <1>1, <1>2
  <2> QED BY <1>3, <2>1 DEF ReportsKept, SubmitsOnce, Received
<1>10. HeardBefore'
  <2>1. Listed(job)' = Listed(job') /\ Received(topic, read)' = Received(topic, read + 1) BY <1>1 DEF Listed, Received
  <2>2. /\ Listed(job') \subseteq Received(topic, read + 1) /\ aggregate.counted \subseteq Received(topic, read + 1)
        /\ \A i \in DOMAIN reports : reports[i].counted \subseteq Received(topic, read + 1)
    BY <1>6, <1>8 DEF ReportsKept, HeardBefore
  <2>3. aggregate.pc \in {"none", "counting", "publishing"} =>
          \A i \in DOMAIN reports : Listed(job') \cap reports[i].counted = {}
    BY <1>6, <1>9 DEF ReportsKept, HeardBefore
  <2>4. aggregate.pc = "publishing" => aggregate.counted \subseteq Listed(job')
    BY <1>6 DEF ReportsKept, HeardBefore
  <2> QED BY <1>1, <2>1, <2>2, <2>3, <2>4 DEF ReportsKept, HeardBefore
<1>11. Somewhere' = Somewhere BY <1>1 DEF Somewhere, Shown
<1>12. SubmitsOnce' /\ StoredFirst' BY <1>1, <1>11 DEF ReportsKept, SubmitsOnce, StoredFirst
<1>13. InTheMaking' /\ WrittenShown' BY <1>1, <1>5 DEF ReportsKept, InTheMaking, WrittenShown, Shown
<1> QED BY <1>7, <1>10, <1>12, <1>13 DEF ReportsKept

LEMMA WindowEndsKeeps == ASSUME ReportsKept, Pipeline!WindowEnds PROVE ReportsKept'
<1>1. /\ job.timer = "running" /\ job' = [job EXCEPT !.timer = "fired", !.aggregating = TRUE]
      /\ aggregate' = aggregate \/ aggregate' = [Pipeline!NoAggregate EXCEPT !.pc = "counting"]
      /\ UNCHANGED <<at, store, topic, excused, read, reports>>
  BY DEF Pipeline!WindowEnds, Pipeline!findings
<1>2. job \in JobEntry /\ aggregate \in Aggregate /\ aggregate.pc = "none" /\ aggregate.shown = {}
  BY <1>1 DEF ReportsKept, PipelineShape, InTheMaking
<1>3. job' \in JobEntry /\ job'.heard = job.heard /\ job'.timer = "fired" BY <1>1, <1>2 DEF JobEntry
<1>4. aggregate' = aggregate \/ aggregate' = [pc |-> "counting", counted |-> {}, shown |-> {}]
  BY <1>1 DEF Pipeline!NoAggregate
<1>5. /\ aggregate' \in Aggregate /\ aggregate'.pc \in {"none", "counting"} /\ aggregate'.shown = {}
      /\ aggregate'.counted = {} \/ aggregate'.counted = aggregate.counted
  BY <1>2, <1>4 DEF Aggregate
<1>6. PipelineShape' BY <1>1, <1>3, <1>5 DEF ReportsKept, PipelineShape
<1>7. Listed(job') = Listed(job) BY <1>3 DEF Listed
<1>8. HeardBefore' BY <1>1, <1>2, <1>5, <1>7 DEF ReportsKept, HeardBefore, Received
<1>9. Somewhere' = Somewhere BY <1>1, <1>2, <1>5 DEF Somewhere, Shown
<1>10. SubmitsOnce' /\ StoredFirst' BY <1>1, <1>9 DEF ReportsKept, SubmitsOnce, StoredFirst
<1>11. InTheMaking' /\ WrittenShown' BY <1>1, <1>3, <1>5 DEF ReportsKept, InTheMaking, WrittenShown, Shown
<1> QED BY <1>6, <1>8, <1>10, <1>11 DEF ReportsKept

LEMMA CountKeeps == ASSUME ReportsKept, Pipeline!Count PROVE ReportsKept'
<1>1. /\ aggregate.pc = "counting"
      /\ aggregate' = [aggregate EXCEPT !.pc = "publishing", !.counted = Pipeline!ToSet(job.heard)]
      /\ UNCHANGED <<at, store, topic, excused, read, job, reports>>
  BY DEF Pipeline!Count, Pipeline!findings
<1>2. job \in JobEntry /\ aggregate \in Aggregate /\ aggregate.shown = {} /\ job.timer = "fired"
  BY <1>1 DEF ReportsKept, PipelineShape, InTheMaking
<1>3. Pipeline!ToSet(job.heard) = Listed(job) /\ Listed(job) \subseteq Auditing
  BY <1>2 DEF Pipeline!ToSet, Listed, JobEntry
<1>4. /\ aggregate' \in Aggregate /\ aggregate'.pc = "publishing" /\ aggregate'.counted = Listed(job)
      /\ aggregate'.shown = {}
  BY <1>1, <1>2, <1>3 DEF Aggregate
<1>5. PipelineShape' BY <1>1, <1>4 DEF ReportsKept, PipelineShape
<1>6. HeardBefore' BY <1>1, <1>4 DEF ReportsKept, HeardBefore, Received, Listed
<1>7. Somewhere' = Somewhere BY <1>1, <1>2, <1>4 DEF Somewhere, Shown
<1>8. SubmitsOnce' /\ StoredFirst' BY <1>1, <1>7 DEF ReportsKept, SubmitsOnce, StoredFirst
<1>9. InTheMaking' /\ WrittenShown' BY <1>1, <1>2, <1>4 DEF ReportsKept, InTheMaking, WrittenShown, Shown
<1> QED BY <1>5, <1>6, <1>8, <1>9 DEF ReportsKept

LEMMA PublishKeeps == ASSUME ReportsKept, Pipeline!PublishReport PROVE ReportsKept'
<1>1. PICK report : report = [counted |-> aggregate.counted, agentCount |-> Len(job.heard), shown |-> {},
                              written |-> FALSE]
  OBVIOUS
<1>2. /\ aggregate.pc = "publishing" /\ UNCHANGED <<at, store, topic, excused, read, job>>
      /\ \/ reports' = Append(reports, report) /\ aggregate' = [aggregate EXCEPT !.pc = "fetching"]
         \/ reports' \in {reports, Append(reports, report)} /\ aggregate' = [aggregate EXCEPT !.pc = "stuck"]
  BY <1>1 DEF Pipeline!PublishReport, Pipeline!findings
<1>3. /\ job \in JobEntry /\ aggregate \in Aggregate /\ reports \in Seq(Report)
      /\ aggregate.shown = {} /\ job.timer = "fired"
  BY <1>2 DEF ReportsKept, PipelineShape, InTheMaking
<1>4. /\ aggregate' \in Aggregate /\ aggregate'.pc \in {"fetching", "stuck"}
      /\ aggregate'.counted = aggregate.counted /\ aggregate'.shown = {}
      /\ aggregate'.pc = "fetching" => reports' = Append(reports, report)
  BY <1>2, <1>3 DEF Aggregate
<1>5. CASE reports' = reports
  <2>0. aggregate'.pc = "stuck"
    <3>1. Len(Append(reports, report)) = Len(reports) + 1 /\ Len(reports) \in Nat BY <1>3
    <3> QED BY <1>4, <1>5, <3>1
  <2>1. PipelineShape' BY <1>2, <1>4, <1>5 DEF ReportsKept, PipelineShape
  <2>2. HeardBefore' BY <1>2, <1>4, <1>5, <2>0 DEF ReportsKept, HeardBefore, Received, Listed
  <2>3. Somewhere' = Somewhere BY <1>2, <1>3, <1>4, <1>5 DEF Somewhere, Shown
  <2>4. SubmitsOnce' /\ StoredFirst' BY <1>2, <2>3 DEF ReportsKept, SubmitsOnce, StoredFirst
  <2>5. InTheMaking' /\ WrittenShown'
    BY <1>2, <1>3, <1>4, <1>5, <2>0 DEF ReportsKept, InTheMaking, WrittenShown, Shown
  <2> QED BY <2>1, <2>2, <2>4, <2>5 DEF ReportsKept
<1>6. CASE reports' = Append(reports, report)
  <2>1. report \in Report /\ report.counted = aggregate.counted /\ report.shown = {} /\ ~report.written
    <3>1. aggregate.counted \in SUBSET Auditing BY <1>3 DEF Aggregate
    <3>2. Len(job.heard) \in Nat BY <1>3 DEF JobEntry
    <3> QED BY <1>1, <3>1, <3>2 DEF Report
  <2>2. /\ reports' \in Seq(Report) /\ DOMAIN reports = 1 .. Len(reports) /\ Len(reports) \in Nat
        /\ DOMAIN reports' = 1 .. (Len(reports) + 1) /\ Len(reports') = Len(reports) + 1
        /\ reports'[Len(reports) + 1] = report /\ \A i \in 1 .. Len(reports) : reports'[i] = reports[i]
        /\ \A i : i \in 1 .. (Len(reports) + 1) <=> i \in 1 .. Len(reports) \/ i = Len(reports) + 1
    BY <1>3, <1>6, <2>1
  <2>3. PipelineShape' BY <1>2, <1>4, <2>2 DEF ReportsKept, PipelineShape
  <2>4. HeardBefore'
    <3>1. /\ aggregate.counted \subseteq Listed(job) /\ aggregate.counted \subseteq Received(topic, read)
          /\ \A i \in DOMAIN reports : aggregate.counted \cap reports[i].counted = {}
      BY <1>2 DEF ReportsKept, HeardBefore
    <3>2. \A i \in DOMAIN reports' : reports'[i].counted \subseteq Received(topic, read)
      BY <2>1, <2>2, <3>1 DEF ReportsKept, HeardBefore
    <3>3. ASSUME NEW i \in DOMAIN reports', NEW k \in DOMAIN reports', i # k
          PROVE  reports'[i].counted \cap reports'[k].counted = {}
      <4>1. CASE i \in DOMAIN reports /\ k \in DOMAIN reports
        BY <2>2, <3>3, <4>1 DEF ReportsKept, HeardBefore
      <4>2. CASE i \notin DOMAIN reports \/ k \notin DOMAIN reports BY <2>1, <2>2, <3>1, <3>3, <4>2
      <4> QED BY <4>1, <4>2
    <3>4. Listed(job)' = Listed(job) /\ Received(topic, read)' = Received(topic, read)
      BY <1>2 DEF Listed, Received
    <3> QED BY <1>4, <3>1, <3>2, <3>3, <3>4 DEF ReportsKept, HeardBefore
  <2>5. Shown(reports', Len(reports')) = Shown(reports, Len(reports)) BY <2>1, <2>2 DEF Shown
  <2>6. Somewhere' = Somewhere BY <1>2, <1>3, <1>4, <2>5 DEF Somewhere
  <2>7. SubmitsOnce' /\ StoredFirst' BY <1>2, <2>6 DEF ReportsKept, SubmitsOnce, StoredFirst
  <2>8. InTheMaking'
    <3>1. reports' # <<>> /\ reports'[Len(reports')] = report BY <2>2
    <3> QED BY <1>2, <1>3, <1>4, <2>1, <3>1 DEF InTheMaking
  <2>9. WrittenShown'
    <3> SUFFICES ASSUME NEW i \in DOMAIN reports', reports'[i].written
                 PROVE  reports'[i].counted \subseteq Shown(reports', i) \cup excused
      BY <1>2 DEF WrittenShown
    <3>1. i \in 1 .. Len(reports) BY <2>1, <2>2
    <3>2. \A k \in 1 .. i : reports'[k] = reports[k] BY <2>2, <3>1
    <3>3. Shown(reports', i) = Shown(reports, i) BY <3>2 DEF Shown
    <3> QED BY <2>2, <3>1, <3>3 DEF ReportsKept, WrittenShown
  <2> QED BY <2>3, <2>4, <2>7, <2>8, <2>9 DEF ReportsKept
<1> QED BY <1>2, <1>5, <1>6

\* What is fetched is all that was counted and not shown before.
LEMMA FetchKeeps == ASSUME ReportsKept, Pipeline!Fetch PROVE ReportsKept'
<1>1. /\ aggregate.pc = "fetching" /\ UNCHANGED <<at, store, topic, read, job, reports>>
      /\ \/ /\ aggregate' = [aggregate EXCEPT !.pc = IF store = {} THEN "writing" ELSE "deleting", !.shown = store]
            /\ excused' = excused
         \/ /\ aggregate' = [aggregate EXCEPT !.pc = "writing"]
            /\ excused' = excused \cup aggregate.counted
  BY DEF Pipeline!Fetch
<1>2. /\ aggregate \in Aggregate /\ aggregate.shown = {} /\ store \subseteq Auditing /\ excused \subseteq Auditing
      /\ job.timer = "fired"
  BY <1>1 DEF ReportsKept, PipelineShape, InTheMaking
<1>3. /\ aggregate' \in Aggregate /\ aggregate'.pc \in {"writing", "deleting"}
      /\ aggregate'.counted = aggregate.counted /\ excused' \subseteq Auditing /\ excused \subseteq excused'
      /\ \/ aggregate'.shown = store /\ excused' = excused
         \/ aggregate'.shown = {} /\ excused' = excused \cup aggregate.counted
  BY <1>1, <1>2 DEF Aggregate
<1>4. PipelineShape' BY <1>1, <1>3 DEF ReportsKept, PipelineShape
<1>5. HeardBefore' BY <1>1, <1>3 DEF ReportsKept, HeardBefore, Received, Listed
<1>6. Somewhere \subseteq Somewhere' BY <1>1, <1>2, <1>3 DEF Somewhere, Shown
<1>7. SubmitsOnce' /\ StoredFirst' BY <1>1, <1>6 DEF ReportsKept, SubmitsOnce, StoredFirst
<1>8. aggregate.counted \subseteq store \cup excused \cup Shown(reports, Len(reports))
  <2> SUFFICES ASSUME NEW a \in aggregate.counted PROVE a \in store \cup excused \cup Shown(reports, Len(reports))
    OBVIOUS
  <2>1. a \in Auditing /\ a \in Received(topic, read) BY <1>2 DEF Aggregate, ReportsKept, HeardBefore
  <2>2. topic \in Seq(Auditing) /\ read \in 0 .. Len(topic) BY DEF ReportsKept, PipelineShape
  <2>3. \E i \in DOMAIN topic : topic[i] = a BY <2>1, <2>2 DEF Received
  <2> QED BY <1>2, <2>1, <2>3 DEF ReportsKept, StoredFirst, Somewhere
<1>9. InTheMaking'
  <2>1. Shown(reports, Len(reports))' = Shown(reports, Len(reports)) BY <1>1 DEF Shown
  <2>2. aggregate'.counted \subseteq aggregate'.shown \cup excused' \cup Shown(reports, Len(reports))
    BY <1>3, <1>8
  <2> QED BY <1>1, <1>2, <1>3, <2>1, <2>2 DEF ReportsKept, InTheMaking
<1>10. WrittenShown' BY <1>1, <1>3 DEF ReportsKept, WrittenShown, Shown
<1> QED BY <1>4, <1>5, <1>7, <1>9, <1>10 DEF ReportsKept

LEMMA DeleteKeeps == ASSUME ReportsKept, Pipeline!Delete PROVE ReportsKept'
<1>1. /\ aggregate.pc = "deleting" /\ aggregate' = [aggregate EXCEPT !.pc = "writing"]
      /\ UNCHANGED <<at, topic, read, job, reports>>
      /\ \/ store' = {} /\ excused' = excused \cup (store \ aggregate.shown)
         \/ store' = store /\ excused' = excused
  BY DEF Pipeline!Delete
<1>2. aggregate \in Aggregate /\ store \subseteq Auditing /\ excused \subseteq Auditing /\ job.timer = "fired"
  BY <1>1 DEF ReportsKept, PipelineShape, InTheMaking
<1>3. /\ aggregate' \in Aggregate /\ aggregate'.pc = "writing" /\ aggregate'.counted = aggregate.counted
      /\ aggregate'.shown = aggregate.shown
      /\ store' \subseteq Auditing /\ excused' \subseteq Auditing /\ excused \subseteq excused'
  BY <1>1, <1>2 DEF Aggregate
<1>4. PipelineShape' BY <1>1, <1>3 DEF ReportsKept, PipelineShape
<1>5. HeardBefore' BY <1>1, <1>3 DEF ReportsKept, HeardBefore, Received, Listed
<1>6. Somewhere \subseteq Somewhere' BY <1>1, <1>3 DEF Somewhere, Shown
<1>7. SubmitsOnce' /\ StoredFirst' BY <1>1, <1>6 DEF ReportsKept, SubmitsOnce, StoredFirst
<1>8. InTheMaking'
  <2>1. Shown(reports, Len(reports))' = Shown(reports, Len(reports)) BY <1>1 DEF Shown
  <2> QED BY <1>1, <1>2, <1>3, <2>1 DEF ReportsKept, InTheMaking
<1>9. WrittenShown' BY <1>1, <1>3 DEF ReportsKept, WrittenShown, Shown
<1> QED BY <1>4, <1>5, <1>7, <1>8, <1>9 DEF ReportsKept

LEMMA WriteKeeps == ASSUME ReportsKept, Pipeline!WriteReport PROVE ReportsKept'
<1> DEFINE last == Len(reports)
<1>1. /\ aggregate.pc = "writing" /\ UNCHANGED <<at, store, topic, read, excused>>
      /\ reports' = [reports EXCEPT ![last].shown = aggregate.shown, ![last].written = TRUE]
      /\ \/ job' = Pipeline!NoJob /\ aggregate' = Pipeline!NoAggregate
         \/ aggregate' = [aggregate EXCEPT !.pc = "stuck"] /\ job' = job
  BY DEF Pipeline!WriteReport, Pipeline!Emptied, Pipeline!findings
<1>2. /\ aggregate \in Aggregate /\ reports \in Seq(Report) /\ job \in JobEntry
      /\ reports # <<>> /\ reports[last].counted = aggregate.counted /\ reports[last].shown = {}
      /\ aggregate.counted \subseteq aggregate.shown \cup excused \cup Shown(reports, last)
      /\ job.timer = "fired"
  BY <1>1 DEF ReportsKept, PipelineShape, InTheMaking
<1>3. last \in 1 .. last /\ DOMAIN reports = 1 .. last /\ last \in Nat /\ last = Len(reports) BY <1>2, EmptySeq
<1>4. PICK report \in Report : report = [reports[last] EXCEPT !.shown = aggregate.shown, !.written = TRUE]
  <2>1. reports[last] \in Report /\ aggregate.shown \in SUBSET Auditing BY <1>2, <1>3 DEF Aggregate
  <2> QED BY <2>1 DEF Report
<1>5. report.counted = aggregate.counted /\ report.shown = aggregate.shown
  <2>1. reports[last] \in Report BY <1>2, <1>3
  <2> QED BY <1>2, <1>4, <2>1 DEF Report
<1>6. reports' = [reports EXCEPT ![last] = report] BY <1>1, <1>2, <1>3, <1>4
<1>7. /\ reports' \in Seq(Report) /\ Len(reports') = last /\ DOMAIN reports' = 1 .. last
      /\ reports'[last] = report /\ \A i \in 1 .. last : i # last => reports'[i] = reports[i]
  <2> HIDE DEF last
  <2>1. reports \in [1 .. last -> Report] BY <1>2, <1>3
  <2>2. reports' \in [1 .. last -> Report] BY <1>3, <1>6, <2>1
  <2>3. reports' \in Seq(Report) /\ Len(reports') = last BY <1>3, <2>2
  <2>4. reports'[last] = report /\ \A i \in 1 .. last : i # last => reports'[i] = reports[i]
    BY <1>3, <1>6, <2>1
  <2> QED BY <2>2, <2>3, <2>4
<1>8. \A i \in 1 .. last : reports'[i].counted = reports[i].counted BY <1>2, <1>5, <1>7
<1>9. /\ job' \in JobEntry /\ aggregate' \in Aggregate
      /\ \/ /\ aggregate'.pc = "none" /\ aggregate'.counted = {} /\ aggregate'.shown = {} /\ job'.heard = <<>>
         \/ /\ aggregate'.pc = "stuck" /\ aggregate'.counted = aggregate.counted
            /\ aggregate'.shown = aggregate.shown /\ job' = job
  <2>1. CASE job' = Pipeline!NoJob /\ aggregate' = Pipeline!NoAggregate
    BY <2>1 DEF Pipeline!NoJob, Pipeline!NoAggregate, JobEntry, Aggregate
  <2>2. CASE aggregate' = [aggregate EXCEPT !.pc = "stuck"] /\ job' = job BY <1>2, <2>2 DEF Aggregate
  <2> QED BY <1>1, <2>1, <2>2
<1>10. PipelineShape' BY <1>1, <1>7, <1>9 DEF ReportsKept, PipelineShape
<1> HIDE DEF last
<1>11. HeardBefore'
  <2>1. Listed(job') \subseteq Received(topic, read) /\ aggregate'.counted \subseteq Received(topic, read)
    BY <1>9 DEF ReportsKept, HeardBefore, Listed
  <2>2. aggregate'.pc = "none" => Listed(job') = {} BY <1>9 DEF Listed
  <2>3. aggregate'.pc \in {"none", "stuck"} BY <1>9
  <2>4. \A i, k \in DOMAIN reports' : i # k => reports'[i].counted \cap reports'[k].counted = {}
    BY <1>3, <1>7, <1>8 DEF ReportsKept, HeardBefore
  <2>5. \A i \in DOMAIN reports' : reports'[i].counted \subseteq Received(topic, read)
    BY <1>3, <1>7, <1>8 DEF ReportsKept, HeardBefore
  <2>6. Received(topic, read)' = Received(topic, read) BY <1>1 DEF Received
  <2>7. Listed(job)' = Listed(job') BY DEF Listed
  <2> QED BY <2>1, <2>2, <2>3, <2>4, <2>5, <2>6, <2>7 DEF HeardBefore
<1>12. \A n \in 1 .. last : Shown(reports, n) \subseteq Shown(reports', n)
  <2> SUFFICES ASSUME NEW n \in 1 .. last, NEW a \in Auditing, NEW k \in 1 .. n, a \in reports[k].shown
               PROVE  a \in reports'[k].shown
    BY DEF Shown
  <2>1. k \in 1 .. last BY <1>3
  <2>2. k # last BY <1>2
  <2> QED BY <1>7, <2>1, <2>2
<1>13. aggregate.shown \subseteq Shown(reports', last)
  <2>1. aggregate.shown \subseteq Auditing BY <1>2 DEF Aggregate
  <2> QED BY <1>3, <1>5, <1>7, <2>1 DEF Shown
<1>14. Somewhere \subseteq Somewhere'
  <2>1. Somewhere = store \cup excused \cup aggregate.shown \cup Shown(reports, last) BY DEF Somewhere, last
  <2>2. Shown(reports, Len(reports))' = Shown(reports', last) BY <1>7 DEF Shown
  <2>3. Somewhere' = store \cup excused \cup aggregate'.shown \cup Shown(reports', last)
    BY <1>1, <2>2 DEF Somewhere
  <2> QED BY <1>3, <1>12, <1>13, <2>1, <2>3
<1>15. SubmitsOnce' /\ StoredFirst' BY <1>1, <1>14 DEF ReportsKept, SubmitsOnce, StoredFirst
<1>16. InTheMaking' BY <1>2, <1>9 DEF InTheMaking
<1>17. WrittenShown'
  <2>0. \A n : Shown(reports, n)' = Shown(reports', n) BY DEF Shown
  <2> SUFFICES ASSUME NEW i \in 1 .. last, reports'[i].written
               PROVE  reports'[i].counted \subseteq Shown(reports', i) \cup excused
    BY <1>1, <1>7, <2>0 DEF WrittenShown
  <2>1. CASE i = last BY <1>2, <1>3, <1>5, <1>7, <1>12, <1>13, <2>1
  <2>2. CASE i # last
    <3>1. reports[i].written /\ reports[i].counted \subseteq Shown(reports, i) \cup excused
      BY <1>3, <1>7, <2>2 DEF ReportsKept, WrittenShown
    <3> QED BY <1>8, <1>12, <3>1
  <2> QED BY <2>1, <2>2
<1> QED BY <1>10, <1>11, <1>15, <1>16, <1>17 DEF ReportsKept

-----------------------------------------------------------------------------
\* Together.

LEMMA InitReports == Pipeline!Init => PipelineInv
<1> SUFFICES ASSUME Pipeline!Init PROVE ReportsKept /\ replayed \in BOOLEAN BY DEF PipelineInv
<1>1. /\ at = [a \in Auditing |-> "idle"] /\ store = {} /\ topic = <<>> /\ read = 0 /\ reports = <<>>
      /\ excused = {} /\ replayed = FALSE
      /\ job = [heard |-> <<>>, timer |-> "unset", aggregating |-> FALSE]
      /\ aggregate = [pc |-> "none", counted |-> {}, shown |-> {}]
  BY DEF Pipeline!Init, Pipeline!Auditors, Pipeline!NoJob, Pipeline!NoAggregate, Auditing
<1>2. /\ at \in [Auditing -> CycleSteps] /\ \A a \in Auditing : at[a] = "idle" BY <1>1 DEF CycleSteps
<1>3. DOMAIN topic = {} /\ DOMAIN reports = {} /\ Len(topic) = 0 /\ Len(reports) = 0
      /\ topic \in Seq(Auditing) /\ reports \in Seq(Report)
  BY <1>1
<1>4. job \in JobEntry /\ aggregate \in Aggregate BY <1>1 DEF JobEntry, Aggregate
<1>5. PipelineShape BY <1>1, <1>2, <1>3, <1>4 DEF PipelineShape
<1>6. SubmitsOnce /\ WrittenShown BY <1>3 DEF SubmitsOnce, WrittenShown
<1>7. HeardBefore
  <2>1. Listed(job) = {} /\ aggregate.counted = {} /\ aggregate.pc = "none" BY <1>1 DEF Listed
  <2> QED BY <1>3, <2>1 DEF HeardBefore
<1>8. StoredFirst BY <1>2, <1>3 DEF StoredFirst
<1>9. InTheMaking BY <1>1 DEF InTheMaking
<1> QED BY <1>1, <1>5, <1>6, <1>7, <1>8, <1>9 DEF ReportsKept

\* The other steps of the cycles, and of the dependency agent.
LEMMA CyclesKeep ==
  ASSUME ReportsKept, NEW a \in Auditing,
         \/ Pipeline!Awarded(a) \/ Pipeline!Analyze(a) \/ Pipeline!List(a) \/ Pipeline!Offer(a)
         \/ Pipeline!AuditorRestarts(a)
  PROVE  ReportsKept'
<1>1. CASE Pipeline!Awarded(a)
  <2>1. PICK pc \in {"analyzing", "buying", "creating"} : Pipeline!Goto(a, pc)
    BY <1>1 DEF Pipeline!Awarded, Pipeline!FirstStep, Auditing
  <2>2. at[a] \notin Past /\ pc \in CycleSteps \ {"publishing"} BY <1>1 DEF Pipeline!Awarded, Past, CycleSteps
  <2> QED BY <1>1, <2>1, <2>2, CycleGoesOn DEF Pipeline!Awarded, Pipeline!findings, Pipeline!reporting
<1>2. CASE Pipeline!Analyze(a)
  <2>1. at[a] \notin Past /\ Pipeline!Goto(a, "storing") BY <1>2 DEF Pipeline!Analyze, Pipeline!Analyzed, Past
  <2>2. "storing" \in CycleSteps \ {"publishing"} BY DEF CycleSteps
  <2> QED BY <1>2, <2>1, <2>2, CycleGoesOn DEF Pipeline!Analyze, Pipeline!findings, Pipeline!reporting
<1>3. CASE Pipeline!List(a) \/ Pipeline!Offer(a) \/ Pipeline!AuditorRestarts(a)
  <2>1. PICK pc \in {"offering", "done", "failed"} : Pipeline!Goto(a, pc)
    BY <1>3 DEF Pipeline!List, Pipeline!Offer, Pipeline!AuditorRestarts, Pipeline!Published,
                Pipeline!PublicationFails, Pipeline!Unlisted
  <2>2. pc \in Past /\ pc \in CycleSteps \ {"publishing"} BY DEF Past, CycleSteps
  <2>3. UNCHANGED <<store, topic, read, job, aggregate, reports, excused>>
    BY <1>3 DEF Pipeline!List, Pipeline!Offer, Pipeline!AuditorRestarts, Pipeline!findings, Pipeline!reporting
  <2> QED BY <2>1, <2>2, <2>3, CycleGoesOn
<1> QED BY <1>1, <1>2, <1>3

LEMMA BuyingKeeps ==
  ASSUME ReportsKept, Pipeline!HearOffer \/ Pipeline!Buy \/ Pipeline!Receipt
  PROVE  ReportsKept'
<1>1. UNCHANGED <<store, topic, read, job, aggregate, reports, excused>>
  BY DEF Pipeline!HearOffer, Pipeline!Buy, Pipeline!Receipt, Pipeline!findings, Pipeline!reporting
<1>2. CASE Pipeline!HearOffer BY <1>1, <1>2, QuietStep DEF Pipeline!HearOffer
<1>3. CASE Pipeline!Buy \/ Pipeline!Receipt
  <2>1. PICK pc \in {"receipting", "failed", "analyzing"} : Pipeline!Goto("fuzzer", pc)
    BY <1>3 DEF Pipeline!Buy, Pipeline!Receipt
  <2>2. at["fuzzer"] \notin Past /\ pc \in CycleSteps \ {"publishing"} /\ "fuzzer" \in Auditing
    BY <1>3 DEF Pipeline!Buy, Pipeline!Receipt, Past, CycleSteps, Auditing
  <2> QED BY <1>1, <2>1, <2>2, CycleGoesOn
<1> QED BY <1>2, <1>3

LlmStep == \/ Pipeline!CreateSub \/ Pipeline!PostSub \/ Pipeline!LogSub \/ Pipeline!HearAnswer
           \/ Pipeline!SubTimeout \/ Pipeline!AcceptSub \/ Pipeline!Infer

LEMMA LlmKeeps == ASSUME ReportsKept, LlmStep PROVE ReportsKept'
<1>1. UNCHANGED <<store, topic, read, job, aggregate, reports, excused>>
  BY DEF LlmStep, Pipeline!CreateSub, Pipeline!PostSub, Pipeline!LogSub, Pipeline!HearAnswer,
         Pipeline!SubTimeout, Pipeline!AcceptSub, Pipeline!Infer, Pipeline!findings, Pipeline!reporting
<1>2. CASE UNCHANGED at BY <1>1, <1>2, QuietStep
<1>3. CASE at' # at
  <2>1. /\ at["llm"] \in {"creating", "posting", "logging", "waiting", "accepting", "analyzing"}
        /\ \E pc \in {"posting", "failed", "logging", "waiting", "accepting", "analyzing", "storing"} :
             Pipeline!Goto("llm", pc)
    <3>1. CASE Pipeline!CreateSub BY <3>1 DEF Pipeline!CreateSub
    <3>2. CASE Pipeline!PostSub \/ Pipeline!LogSub
      BY <3>2 DEF Pipeline!PostSub, Pipeline!LogSub, Pipeline!Published, Pipeline!PublicationFails
    <3>3. CASE Pipeline!HearAnswer \/ Pipeline!SubTimeout
      BY <1>3, <3>3 DEF Pipeline!HearAnswer, Pipeline!SubTimeout
    <3>4. CASE Pipeline!AcceptSub BY <3>4 DEF Pipeline!AcceptSub, Pipeline!Published, Pipeline!PublicationFails
    <3>5. CASE Pipeline!Infer BY <3>5 DEF Pipeline!Infer, Pipeline!Analyzed, Pipeline!PublicationFails
    <3> QED BY <3>1, <3>2, <3>3, <3>4, <3>5 DEF LlmStep
  <2>2. PICK pc \in {"posting", "failed", "logging", "waiting", "accepting", "analyzing", "storing"} :
          Pipeline!Goto("llm", pc)
    BY <2>1
  <2>3. at["llm"] \notin Past /\ pc \in CycleSteps \ {"publishing"} /\ "llm" \in Auditing
    BY <2>1 DEF Past, CycleSteps, Auditing
  <2> QED BY <1>1, <2>2, <2>3, CycleGoesOn
<1> QED BY <1>2, <1>3

LEMMA ReportSteps ==
  ASSUME ReportsKept, [Pipeline!Next]_Pipeline!vars
  PROVE  ReportsKept' \/ Pipeline!ReporterRestarts
<1>1. \A a \in {"static", "fuzzer", "llm"} : a \in Auditing BY DEF Auditing
<1>2. ASSUME NEW a \in {"static", "fuzzer"}, Pipeline!Awarded(a) \/ Pipeline!Analyze(a) \/ Pipeline!Store(a)
               \/ Pipeline!Submit(a) \/ Pipeline!List(a) \/ Pipeline!Offer(a)
      PROVE  ReportsKept'
  BY <1>1, <1>2, CyclesKeep, StoreKeeps, SubmitKeeps
<1>3. CASE Pipeline!StaticCycle BY <1>2, <1>3 DEF Pipeline!StaticCycle
<1>4. CASE Pipeline!FuzzerCycle BY <1>2, <1>4, BuyingKeeps DEF Pipeline!FuzzerCycle
<1>5. CASE Pipeline!LlmCycle
  BY <1>1, <1>5, CyclesKeep, StoreKeeps, SubmitKeeps, LlmKeeps DEF Pipeline!LlmCycle, LlmStep
<1>6. CASE Pipeline!DependencyAgent \/ Pipeline!DependencyRestarts
  <2>1. UNCHANGED <<at, store, topic, read, job, aggregate, reports, excused>>
    BY <1>6 DEF Pipeline!DependencyAgent, Pipeline!SubBid, Pipeline!Deliver, Pipeline!TellResult,
                Pipeline!DependencyRestarts, Pipeline!findings, Pipeline!reporting
  <2> QED BY <2>1, QuietStep
<1>7. CASE Pipeline!HearFindings \/ Pipeline!Aggregation
  BY <1>7, HearKeeps, WindowEndsKeeps, CountKeeps, PublishKeeps, FetchKeeps, DeleteKeeps, WriteKeeps
     DEF Pipeline!Aggregation
<1>8. CASE Pipeline!Restarts
  BY <1>6, <1>8, CyclesKeep DEF Pipeline!Restarts, Pipeline!Auditors, Auditing
<1>9. CASE UNCHANGED Pipeline!vars
  BY <1>9, QuietStep DEF Pipeline!vars, Pipeline!findings, Pipeline!reporting
<1> QED BY <1>3, <1>4, <1>5, <1>6, <1>7, <1>8, <1>9 DEF Pipeline!Next

\* Only a restart of the report agent ends what is promised.
LEMMA RestartsMark ==
  ASSUME [Pipeline!Next]_Pipeline!vars
  PROVE  replayed' = replayed \/ Pipeline!ReporterRestarts
<1>1. CASE Pipeline!StaticCycle \/ Pipeline!FuzzerCycle
  BY <1>1 DEF Pipeline!StaticCycle, Pipeline!FuzzerCycle, Pipeline!Awarded, Pipeline!Analyze, Pipeline!Store,
     Pipeline!Submit, Pipeline!List, Pipeline!Offer, Pipeline!HearOffer, Pipeline!Buy, Pipeline!Receipt,
     Pipeline!reporting
<1>2. CASE Pipeline!LlmCycle \/ Pipeline!DependencyAgent
  BY <1>2 DEF Pipeline!LlmCycle, Pipeline!Awarded, Pipeline!Store, Pipeline!Submit, Pipeline!CreateSub,
     Pipeline!PostSub, Pipeline!LogSub, Pipeline!HearAnswer, Pipeline!SubTimeout, Pipeline!AcceptSub,
     Pipeline!Infer, Pipeline!DependencyAgent, Pipeline!SubBid, Pipeline!Deliver, Pipeline!TellResult,
     Pipeline!reporting
<1>3. CASE Pipeline!HearFindings \/ Pipeline!Aggregation
  BY <1>3 DEF Pipeline!HearFindings, Pipeline!Aggregation, Pipeline!WindowEnds, Pipeline!Count,
     Pipeline!PublishReport, Pipeline!Fetch, Pipeline!Delete, Pipeline!WriteReport
<1>4. CASE Pipeline!Restarts
  BY <1>4 DEF Pipeline!Restarts, Pipeline!AuditorRestarts, Pipeline!DependencyRestarts, Pipeline!reporting
<1>5. CASE UNCHANGED Pipeline!vars BY <1>5 DEF Pipeline!vars, Pipeline!reporting
<1> QED BY <1>1, <1>2, <1>3, <1>4, <1>5 DEF Pipeline!Next

\* At most one report counts an auditor, and it is shown.
LEMMA KeptIsCounted == ASSUME PipelineInv PROVE CountedAndShown
<1> SUFFICES ASSUME ~replayed PROVE CountedAndShown
  BY DEF CountedAndShown, Pipeline!CountedAndShown
<1>0. ReportsKept BY DEF PipelineInv
<1>1. \A i, k \in DOMAIN reports : i # k => reports[i].counted \cap reports[k].counted = {}
  BY <1>0 DEF ReportsKept, HeardBefore
<1>2. ASSUME NEW i \in DOMAIN reports, reports[i].written
      PROVE  reports[i].counted \subseteq (UNION {reports[k].shown : k \in 1 .. i}) \cup excused
  <2>1. \A a \in reports[i].counted : a \in excused \/ \E k \in 1 .. i : a \in reports[k].shown
    BY <1>0, <1>2 DEF ReportsKept, WrittenShown, Shown
  <2>2. \A a : (\E k \in 1 .. i : a \in reports[k].shown) => a \in UNION {reports[k].shown : k \in 1 .. i}
    OBVIOUS
  <2> QED BY <2>1, <2>2
<1> QED BY <1>1, <1>2 DEF CountedAndShown, Pipeline!CountedAndShown

\* Without a restart of the report agent an auditor's submission is added up in
\* one report only, and what a written report counts was shown by it or before,
\* or is excused, however submissions, window, clean-up and failures fall.
THEOREM CountedAndShownHolds == Pipeline!Spec => []CountedAndShown
<1>1. PipelineInv /\ [Pipeline!Next]_Pipeline!vars => PipelineInv'
  <2> SUFFICES ASSUME PipelineInv, [Pipeline!Next]_Pipeline!vars PROVE PipelineInv' OBVIOUS
  <2>1. CASE Pipeline!ReporterRestarts BY <2>1 DEF Pipeline!ReporterRestarts, PipelineInv
  <2>2. CASE ~Pipeline!ReporterRestarts
    <3>1. replayed' = replayed BY <2>2, RestartsMark
    <3>2. ASSUME ~replayed PROVE ReportsKept' BY <2>2, <3>2, ReportSteps DEF PipelineInv
    <3> QED BY <3>1, <3>2 DEF PipelineInv
  <2> QED BY <2>1, <2>2
<1>2. PipelineInv => CountedAndShown BY KeptIsCounted
<1> QED BY InitReports, <1>1, <1>2, PTL DEF Pipeline!Spec
==============================================================================
