------------------------- MODULE Orchestrator_proofs -------------------------
(***************************************************************************)
(* One selection and one cancellation at a time, no open auction given up, *)
(* and the best bid wins, for any agents, any number of calls in flight,   *)
(* failures and restarts; one chain of Hedera schedules at a time, for any *)
(* number of schedules; and one slash of the delegators for each slash of  *)
(* an agent.                                                               *)
(***************************************************************************)
EXTENDS WinnerSelection, OrchestratorProcesses, SumLemmas, SequenceTheorems, TLAPS

\* The list has a first of its highest scores: the best of the first n is that
\* of the first n - 1, or the n-th.
LEMMA BestIndexIsBest ==
  ASSUME NEW list \in Seq(Agents), list # <<>>
  PROVE  /\ BestIndex(list) \in DOMAIN list
         /\ \A k \in DOMAIN list : Score[list[k]] <= Score[list[BestIndex(list)]]
<1> DEFINE score(k) == Score[list[k]]
           Best(i, n) == /\ \A k \in 1..n : score(k) <= score(i)
                         /\ \A k \in 1..(i - 1) : score(k) < score(i)
           G == {n \in Nat : n <= Len(list) => n = 0 \/ \E i \in 1..n : Best(i, n)}
<1>1. DOMAIN list = 1..Len(list) /\ Len(list) \in Nat \ {0}
  BY EmptySeq
<1>2. \A k \in 1..Len(list) : score(k) \in Nat
  BY <1>1, ElementOfSeq, BoundsAssumption
<1> HIDE DEF score
<1>3. 0 \in G
  OBVIOUS
<1>4. ASSUME NEW n \in Nat, n \in G, n + 1 <= Len(list)
      PROVE  \E i \in 1..(n + 1) : Best(i, n + 1)
  <2>1. CASE n = 0
    <3>1. Best(1, 1)
      BY <1>1, <1>2
    <3> QED BY <2>1, <3>1
  <2>2. CASE n # 0
    <3>1. PICK i \in 1..n : Best(i, n)
      BY <1>1, <1>4, <2>2
    <3>2. /\ i \in 1..Len(list) /\ n + 1 \in 1..Len(list)
          /\ \A k \in 1..n : k \in 1..Len(list)
          /\ score(i) \in Nat /\ score(n + 1) \in Nat /\ \A k \in 1..n : score(k) \in Nat
      BY <1>1, <1>2, <1>4
    <3>3. CASE score(n + 1) <= score(i)
      <4>1. Best(i, n + 1)
        BY <3>1, <3>2, <3>3
      <4> QED BY <3>1, <4>1
    <3>4. CASE score(i) < score(n + 1)
      <4>1. \A k \in 1..n : score(k) < score(n + 1)
        BY <3>1, <3>2, <3>4
      <4>2. Best(n + 1, n + 1)
        BY <3>2, <4>1
      <4> QED BY <4>2
    <3> QED BY <3>2, <3>3, <3>4
  <2> QED BY <2>1, <2>2
<1> HIDE DEF Best
<1>5. Nat \subseteq G
  <2>1. ASSUME NEW n \in Nat, n \in G
        PROVE  n + 1 \in G
    <3>1. n + 1 <= Len(list) => \E i \in 1..(n + 1) : Best(i, n + 1)
      BY <1>4, <2>1
    <3> QED BY <3>1
  <2> HIDE DEF G
  <2> QED BY <1>3, <2>1, NaturalsByOne
<1>6. \E i \in DOMAIN list : Best(i, Len(list))
  <2>1. Len(list) \in G
    <3> HIDE DEF G
    <3> QED BY <1>1, <1>5
  <2> QED BY <1>1, <2>1
<1>7. \E i \in DOMAIN list : /\ \A k \in DOMAIN list : Score[list[k]] <= Score[list[i]]
                             /\ \A k \in 1..(i - 1) : Score[list[k]] < Score[list[i]]
  BY <1>1, <1>6 DEF Best, score
<1> QED BY <1>7 DEF BestIndex

-----------------------------------------------------------------------------

Shape ==
    /\ status \in Statuses /\ bids \in Seq(Agents) /\ winner \in Agents \cup {None}
    /\ expired \in BOOLEAN
    /\ pool \in Seq(Tx)
    /\ job \in Job /\ timer \in BOOLEAN
    /\ call \in [Calls -> Call]
    /\ {selecting, closing, reconciling} \subseteq Calls \cup {None}

\* A transaction with a sender is the only one of that sender, which waits for
\* its receipt.
Sent(kind) == IF kind = "select" THEN "selectSent" ELSE "cancelSent"

SendersWait ==
    \A i \in DOMAIN pool : pool[i].call # None =>
        /\ call[pool[i].call].at = Sent(pool[i].kind)
        /\ \A k \in DOMAIN pool : pool[k].call = pool[i].call => k = i

\* A cancellation that was mined has ended the auction.
MinedIsEnded == \A c \in Calls : call[c].at = "cancelMined" => status # "OPEN"

IInv == Shape /\ SingleFlight /\ SendersWait /\ MinedIsEnded /\ TerminalIsFinal

\* One call moves on: it holds the entry that its new place needs, and no other
\* call loses an entry.
Moves(c) ==
    /\ \E r \in Call : call' = [call EXCEPT ![c] = r]
    /\ call'[c].at \in SelectPoints => selecting' = c
    /\ call'[c].at \in ClosePoints => closing' = c
    /\ \A d \in Calls \ {c} :
         (selecting = d => selecting' = d) /\ (closing = d => closing' = d)
    /\ {selecting', closing', reconciling'} \subseteq Calls \cup {None}

-----------------------------------------------------------------------------

LEMMA PlacesDistinct ==
  /\ SelectPoints \cap ClosePoints = {}
  /\ SelectPoints \cup ClosePoints \cup RequestPoints \cup ReconcilePoints \subseteq Points
  /\ "idle" \in Points /\ "joinClose" \in Points
  /\ {"idle", "joinClose"} \cap (SelectPoints \cup ClosePoints) = {}
  /\ (RequestPoints \cup ReconcilePoints) \cap (SelectPoints \cup ClosePoints) = {}
BY DEF Points, SelectPoints, ClosePoints, RequestPoints, ReconcilePoints

LEMMA IdleShape == Idle \in Call /\ Idle.at = "idle"
BY BoundsAssumption DEF Idle, Call, Points, Statuses

LEMMA NewAttempt ==
  ASSUME NEW r \in Call, NEW point \in Points, NEW n \in 0..MaxAttempts
  PROVE  LET s == [r EXCEPT !.at = point, !.attempt = n]
         IN  s \in Call /\ s.at = point
BY DEF Call

\* The single flight survives the move of one call.
LEMMA FlightKept ==
  ASSUME IInv, NEW c \in Calls, Moves(c)
  PROVE  SingleFlight'
<1> SUFFICES ASSUME NEW d \in Calls
             PROVE  /\ call'[d].at \in SelectPoints => selecting' = d
                    /\ call'[d].at \in ClosePoints => closing' = d
  BY DEF SingleFlight
<1>1. CASE d = c
  BY <1>1 DEF Moves
<1>2. CASE d # c
  <2>1. call'[d] = call[d]
    BY <1>2 DEF Moves, IInv, Shape
  <2> QED BY <1>2, <2>1 DEF Moves, IInv, SingleFlight
<1> QED BY <1>1, <1>2

LEMMA PoolEntry ==
  ASSUME IInv, NEW i \in DOMAIN pool
  PROVE  pool[i] \in Tx /\ i \in 1..Len(pool) /\ Len(pool) \in Nat
<1>1. pool \in Seq(Tx)
  BY DEF IInv, Shape
<1> HIDE DEF Tx
<1>2. DOMAIN pool = 1..Len(pool) /\ Len(pool) \in Nat
  BY <1>1
<1> QED BY <1>1, <1>2, ElementOfSeq

\* A call that does not wait for a receipt has nothing in the pool.
LEMMA PoolKept ==
  ASSUME IInv, NEW c \in Calls, Moves(c), pool' = pool,
         call[c].at \notin {"selectSent", "cancelSent"}
  PROVE  SendersWait'
<1> SUFFICES ASSUME NEW i \in DOMAIN pool, pool[i].call # None
             PROVE  /\ call'[pool[i].call].at = Sent(pool[i].kind)
                    /\ \A k \in DOMAIN pool : pool[k].call = pool[i].call => k = i
  BY DEF SendersWait
<1>1. /\ call[pool[i].call].at = Sent(pool[i].kind)
      /\ \A k \in DOMAIN pool : pool[k].call = pool[i].call => k = i
  BY DEF IInv, SendersWait
<1>2. pool[i].call \in Calls
  BY PoolEntry DEF Tx
<1>3. pool[i].call # c
  BY <1>1 DEF Sent
<1>4. call'[pool[i].call] = call[pool[i].call]
  BY <1>2, <1>3 DEF Moves, IInv, Shape
<1> QED BY <1>1, <1>4

\* What a call has in the pool when it moves on has no sender any more.
LEMMA PoolOrphaned ==
  ASSUME IInv, NEW c \in Calls, Moves(c), pool' = Orphaned(pool, {c})
  PROVE  SendersWait' /\ pool' \in Seq(Tx)
<1>1. pool \in Seq(Tx) /\ Len(pool) \in Nat
  BY DEF IInv, Shape
<1>2. DOMAIN pool' = DOMAIN pool /\ DOMAIN pool = 1..Len(pool)
  BY <1>1 DEF Orphaned
<1>3. ASSUME NEW i \in DOMAIN pool
      PROVE  /\ pool[i] \in Tx /\ pool'[i] \in Tx /\ pool'[i].kind = pool[i].kind
             /\ pool'[i].call = IF pool[i].call = c THEN None ELSE pool[i].call
  <2>1. pool[i] \in Tx
    BY <1>1, <1>2
  <2>2. pool'[i] = IF pool[i].call \in {c} THEN [pool[i] EXCEPT !.call = None] ELSE pool[i]
    BY <1>1, <1>2 DEF Orphaned
  <2> QED BY <2>1, <2>2 DEF Tx
<1>4. pool' \in Seq(Tx)
  <2> DEFINE entry(i) == IF pool[i].call \in {c} THEN [pool[i] EXCEPT !.call = None] ELSE pool[i]
  <2>1. pool' = [i \in 1..Len(pool) |-> entry(i)]
    BY <1>2 DEF Orphaned
  <2>2. \A i \in 1..Len(pool) : entry(i) \in Tx
    BY <1>2, <1>3, <2>1
  <2> HIDE DEF entry
  <2>3. [i \in 1..Len(pool) |-> entry(i)] \in Seq(Tx)
    BY <1>1, <2>2, IsASeq
  <2> QED BY <2>1, <2>3
<1>5. SendersWait'
  <2> SUFFICES ASSUME NEW i \in DOMAIN pool, pool'[i].call # None
               PROVE  /\ call'[pool'[i].call].at = Sent(pool'[i].kind)
                      /\ \A k \in DOMAIN pool : pool'[k].call = pool'[i].call => k = i
    BY <1>2 DEF SendersWait
  <2>1. pool[i].call # c /\ pool'[i].call = pool[i].call /\ pool[i].call \in Calls
    BY <1>3 DEF Tx
  <2>2. /\ call[pool[i].call].at = Sent(pool[i].kind)
        /\ \A k \in DOMAIN pool : pool[k].call = pool[i].call => k = i
    BY <2>1 DEF IInv, SendersWait
  <2>3. call'[pool[i].call] = call[pool[i].call]
    BY <2>1 DEF Moves, IInv, Shape
  <2> QED BY <1>3, <2>1, <2>2, <2>3
<1> QED BY <1>4, <1>5

\* A call that sends has one transaction, and waits for its receipt.
LEMMA PoolSent ==
  ASSUME IInv, NEW c \in Calls, Moves(c), NEW tx \in Tx, tx.call = c,
         pool' = Append(pool, tx),
         call[c].at \notin {"selectSent", "cancelSent"}, call'[c].at = Sent(tx.kind)
  PROVE  SendersWait' /\ pool' \in Seq(Tx)
<1>1. pool \in Seq(Tx) /\ Len(pool) \in Nat
  BY DEF IInv, Shape
<1>2. /\ pool' \in Seq(Tx)
      /\ DOMAIN pool' = 1..(Len(pool) + 1) /\ DOMAIN pool = 1..Len(pool)
      /\ pool'[Len(pool) + 1] = tx
      /\ \A i \in DOMAIN pool : pool'[i] = pool[i]
  BY <1>1, AppendProperties
<1>3. ASSUME NEW i \in DOMAIN pool, pool[i].call # None
      PROVE  /\ pool[i].call # c /\ call'[pool[i].call].at = Sent(pool[i].kind)
             /\ \A k \in DOMAIN pool : pool[k].call = pool[i].call => k = i
  <2>1. /\ call[pool[i].call].at = Sent(pool[i].kind)
        /\ \A k \in DOMAIN pool : pool[k].call = pool[i].call => k = i
    BY <1>3 DEF IInv, SendersWait
  <2>2. pool[i].call \in Calls
    BY <1>3, PoolEntry DEF Tx
  <2>3. pool[i].call # c
    BY <2>1 DEF Sent
  <2>4. call'[pool[i].call] = call[pool[i].call]
    BY <2>2, <2>3 DEF Moves, IInv, Shape
  <2> QED BY <2>1, <2>3, <2>4
<1>4. c # None
  BY SlotsAssumption
<1>5. SendersWait'
  <2> SUFFICES ASSUME NEW i \in DOMAIN pool', pool'[i].call # None
               PROVE  /\ call'[pool'[i].call].at = Sent(pool'[i].kind)
                      /\ \A k \in DOMAIN pool' : pool'[k].call = pool'[i].call => k = i
    BY DEF SendersWait
  <2>1. CASE i \in DOMAIN pool
    BY <1>1, <1>2, <1>3, <2>1
  <2>2. CASE i = Len(pool) + 1
    BY <1>1, <1>2, <1>3, <1>4, <2>2
  <2> QED BY <1>1, <1>2, <2>1, <2>2
<1> QED BY <1>2, <1>5

-----------------------------------------------------------------------------
(***************************************************************************)
(* The operators by which calls begin, go on and end.                      *)
(***************************************************************************)

LEMMA ReturnMoves ==
  ASSUME IInv, NEW c \in Calls, Return(c)
  PROVE  Moves(c) /\ call'[c].at = "idle"
<1>1. call' = [call EXCEPT ![c] = Idle] /\ call'[c] = Idle
  BY DEF Return, IInv, Shape
<1>2. /\ \A d \in Calls \ {c} :
           (selecting = d => selecting' = d) /\ (closing = d => closing' = d)
      /\ {selecting', closing', reconciling'} \subseteq Calls \cup {None}
  BY DEF Return, Unlocked, IInv, Shape
<1> QED BY <1>1, <1>2, IdleShape, PlacesDistinct DEF Moves

\* A call that goes to a place where it needs no entry it has not got.
LEMMA MoveMoves ==
  ASSUME IInv, NEW c \in Calls, NEW point \in Points, Move(c, point), UNCHANGED locks,
         point \in SelectPoints => call[c].at \in SelectPoints,
         point \in ClosePoints => call[c].at \in ClosePoints
  PROVE  Moves(c) /\ call'[c].at = point
<1>1. call' = [call EXCEPT ![c] = [call[c] EXCEPT !.at = point]]
  BY DEF Move, IInv, Shape
<1>2. [call[c] EXCEPT !.at = point] \in Call
  BY DEF IInv, Shape, Call
<1>3. call'[c].at = point
  BY <1>1, <1>2 DEF IInv, Shape, Call
<1> QED BY <1>1, <1>2, <1>3 DEF Moves, locks, IInv, Shape, SingleFlight

LEMMA RetryMoves ==
  ASSUME IInv, NEW c \in Calls, NEW point \in {"select", "cancel"}, Retry(c, point),
         point = "select" => call[c].at \in SelectPoints,
         point = "cancel" => call[c].at \in ClosePoints
  PROVE  Moves(c) /\ call'[c].at \in {"idle", point}
<1>1. CASE Return(c)
  BY <1>1, ReturnMoves
<1>2. CASE /\ AttemptsLeft(c)
           /\ call' = [call EXCEPT ![c].at = point, ![c].attempt = @ + 1]
           /\ UNCHANGED locks
  <2> DEFINE n == call[c].attempt + 1
             r == [call[c] EXCEPT !.at = point, !.attempt = n]
  <2>1. call' = [call EXCEPT ![c] = r]
    BY <1>2 DEF IInv, Shape
  <2>2. call[c] \in Call /\ MaxAttempts \in Nat /\ point \in Points
    BY BoundsAssumption DEF IInv, Shape, Points, SelectPoints, ClosePoints
  <2>0. n \in 0..MaxAttempts
    BY <1>2, <2>2 DEF AttemptsLeft, Call
  <2> HIDE DEF n
  <2>3. r \in Call /\ r.at = point
    BY <2>2, <2>0, NewAttempt
  <2>4. call'[c].at = point
    BY <2>1, <2>3 DEF IInv, Shape
  <2>5. selecting = c \/ point # "select"
    BY DEF IInv, SingleFlight
  <2>6. closing = c \/ point # "cancel"
    BY DEF IInv, SingleFlight
  <2>7. (point \in SelectPoints => point # "cancel") /\ (point \in ClosePoints => point # "select")
    BY DEF SelectPoints, ClosePoints
  <2> HIDE DEF r
  <2> QED BY <1>2, <2>1, <2>3, <2>4, <2>5, <2>6, <2>7 DEF Moves, locks, IInv, Shape
<1> QED BY <1>1, <1>2 DEF Retry

LEMMA BeginSelectMoves ==
  ASSUME IInv, NEW c \in Calls, BeginSelect(c),
         call[c].at \notin SelectPoints \cup ClosePoints
  PROVE  /\ Moves(c) /\ call'[c].at \in {"idle", "precheck", "hydrate"}
         /\ job' = job /\ timer' \in BOOLEAN
<1>1. CASE ~MaySelect(c) \/ (~job.known /\ ~Rehydrate)
  BY <1>1, ReturnMoves DEF BeginSelect, MaySelect, IInv, Shape
<1>2. CASE ~(~MaySelect(c) \/ (~job.known /\ ~Rehydrate))
  <2> DEFINE point == IF job.known THEN "precheck" ELSE "hydrate"
  <2>1. /\ call' = [call EXCEPT ![c].at = point] /\ selecting = None /\ selecting' = c
        /\ timer' = FALSE /\ job' = job /\ closing' = closing /\ reconciling' = reconciling
    BY <1>2 DEF BeginSelect, Move, MaySelect
  <2>2. point \in SelectPoints /\ point \notin ClosePoints /\ point \in {"precheck", "hydrate"}
    BY DEF SelectPoints, ClosePoints
  <2> HIDE DEF point
  <2>3. [call[c] EXCEPT !.at = point] \in Call
    BY <2>2, PlacesDistinct DEF IInv, Shape, Call
  <2>4. call' = [call EXCEPT ![c] = [call[c] EXCEPT !.at = point]] /\ call'[c].at = point
    BY <2>1, <2>3 DEF IInv, Shape, Call
  <2>5. None \notin Calls
    BY SlotsAssumption
  <2> QED BY <2>1, <2>2, <2>3, <2>4, <2>5 DEF Moves, IInv, Shape
<1> QED BY <1>1, <1>2

LEMMA BeginCloseMoves ==
  ASSUME IInv, NEW c \in Calls, BeginClose(c),
         call[c].at \notin SelectPoints \cup ClosePoints
  PROVE  /\ Moves(c) /\ call'[c].at \in {"idle", "joinClose", "cancel"}
         /\ job' = [job EXCEPT !.known = TRUE] /\ timer' = timer
<1>1. job' = [job EXCEPT !.known = TRUE] /\ timer' = timer
  BY DEF BeginClose
<1>2. CASE job.cancelled
  BY <1>1, <1>2, ReturnMoves DEF BeginClose
<1>3. CASE ~job.cancelled /\ ~MayClose(c)
  <2>1. Move(c, "joinClose") /\ UNCHANGED locks
    BY <1>3 DEF BeginClose
  <2> QED BY <1>1, <2>1, MoveMoves, PlacesDistinct
<1>4. CASE ~job.cancelled /\ MayClose(c)
  <2> DEFINE r == [call[c] EXCEPT !.at = "cancel", !.attempt = 1]
  <2>1. /\ call' = [call EXCEPT ![c].at = "cancel", ![c].attempt = 1]
        /\ closing = None /\ closing' = c
        /\ selecting' = selecting /\ reconciling' = reconciling
    BY <1>4 DEF BeginClose, MayClose
  <2>0. 1 \in 0..MaxAttempts /\ "cancel" \in Points
    BY BoundsAssumption DEF Points, ClosePoints
  <2>2. r \in Call /\ r.at = "cancel"
    BY <2>0, NewAttempt DEF IInv, Shape
  <2>3. call' = [call EXCEPT ![c] = r] /\ call'[c].at = "cancel"
    BY <2>1, <2>2 DEF IInv, Shape
  <2>4. None \notin Calls /\ "cancel" \in ClosePoints /\ "cancel" \notin SelectPoints
    BY SlotsAssumption DEF SelectPoints, ClosePoints
  <2> HIDE DEF r
  <2> QED BY <1>1, <2>1, <2>2, <2>3, <2>4 DEF Moves, IInv, Shape
<1> QED BY <1>2, <1>3, <1>4

LEMMA JobShapes ==
  ASSUME NEW j \in Job
  PROVE  /\ [j EXCEPT !.known = TRUE] \in Job
         /\ [j EXCEPT !.known = TRUE].terminal = j.terminal
         /\ [j EXCEPT !.known = TRUE].cancelled = j.cancelled
         /\ Terminated(j) \in Job
         /\ Hydrated(j) \in Job
         /\ Hydrated(j).terminal = j.terminal /\ Hydrated(j).cancelled = j.cancelled
BY DEF Job, Terminated, Hydrated

LEMMA NoJobShape ==
  NoJob \in Job /\ ~NoJob.terminal /\ ~NoJob.cancelled
BY DEF NoJob, Job

LEMMA BegunShape ==
  ASSUME NEW point \in Points
  PROVE  Begun(point) \in Call /\ Begun(point).at = point
BY IdleShape DEF Begun, Call

\* A call that goes to a place where it needs no entry.
LEMMA PlainMoves ==
  ASSUME IInv, NEW c \in Calls, NEW r \in Call, call' = [call EXCEPT ![c] = r],
         r.at \notin SelectPoints \cup ClosePoints,
         selecting' = selecting, closing' = closing, reconciling' \in Calls \cup {None}
  PROVE  Moves(c) /\ call'[c].at = r.at
<1>1. call'[c] = r
  BY DEF IInv, Shape
<1> HIDE DEF Call
<1> QED BY <1>1 DEF Moves, IInv, Shape

\* What the actions of one call have in common.
LEMMA CallStep ==
  ASSUME IInv, NEW c \in Calls, Moves(c), UNCHANGED <<status, bids, winner, expired>>,
         pool' \in Seq(Tx), SendersWait',
         job' \in Job, timer' \in BOOLEAN,
         call'[c].at # "cancelMined",
         job'.terminal \/ job'.cancelled => job.terminal \/ job.cancelled \/ status # "OPEN"
  PROVE  IInv'
<1>1. SingleFlight'
  BY FlightKept
<1>2. Shape'
  <2>1. call' \in [Calls -> Call]
    BY DEF Moves, IInv, Shape
  <2> HIDE DEF Call, Tx, Job
  <2> QED BY <2>1 DEF Moves, IInv, Shape
<1>3. MinedIsEnded'
  <2> SUFFICES ASSUME NEW d \in Calls, call'[d].at = "cancelMined"
               PROVE  status # "OPEN"
    BY DEF MinedIsEnded
  <2>1. call'[d] = call[d]
    BY DEF Moves, IInv, Shape
  <2> QED BY <2>1 DEF IInv, MinedIsEnded
<1>4. TerminalIsFinal'
  BY DEF IInv, TerminalIsFinal
<1> QED BY <1>1, <1>2, <1>3, <1>4 DEF IInv

\* Of these, the ones that have nothing to do with the pool.
LEMMA ReadStep ==
  ASSUME IInv, NEW c \in Calls, Moves(c), UNCHANGED chain,
         job' \in Job, timer' \in BOOLEAN,
         call[c].at \notin {"selectSent", "cancelSent"}, call'[c].at # "cancelMined",
         job'.terminal \/ job'.cancelled => job.terminal \/ job.cancelled \/ status # "OPEN"
  PROVE  IInv'
<1>1. pool' = pool /\ UNCHANGED <<status, bids, winner, expired>> /\ pool \in Seq(Tx)
  BY DEF chain, IInv, Shape
<1>2. SendersWait'
  BY <1>1, PoolKept
<1> HIDE DEF Tx, Job
<1> QED BY <1>1, <1>2, CallStep

-----------------------------------------------------------------------------
(***************************************************************************)
(* The actions of a request and of a selection.                            *)
(***************************************************************************)

LEMMA ReadJobKeeps == ASSUME IInv, NEW c \in Calls, ReadJob(c) PROVE IInv'
<1>1. /\ UNCHANGED chain /\ job' = job /\ timer' = timer /\ call[c].at = "readJob"
      /\ job \in Job /\ timer \in BOOLEAN
  BY DEF ReadJob, At, IInv, Shape
<1>2. Moves(c) /\ call'[c].at \in {"idle", "readCount"}
  <2>1. CASE Return(c)
    BY <2>1, ReturnMoves
  <2>2. CASE ~Return(c)
    <3> DEFINE read == [call[c] EXCEPT !.at = "readCount", !.seen = status, !.late = expired]
               known == [call[c] EXCEPT !.at = "readCount", !.late = expired /\ job.dated]
    <3>0. call[c] \in Call /\ status \in Statuses /\ expired \in BOOLEAN
          /\ (expired /\ job.dated) \in BOOLEAN /\ "readCount" \in Points
      BY DEF IInv, Shape, Job, Points, RequestPoints
    <3>1. /\ call' \in {[call EXCEPT ![c] = read], [call EXCEPT ![c] = known]}
          /\ UNCHANGED locks
      BY <2>2 DEF ReadJob, IInv, Shape
    <3>2. /\ read \in Call /\ read.at = "readCount"
          /\ known \in Call /\ known.at = "readCount"
      BY <3>0 DEF Call
    <3>3. "readCount" \notin SelectPoints \cup ClosePoints
      BY DEF SelectPoints, ClosePoints
    <3>4. selecting' = selecting /\ closing' = closing /\ reconciling' \in Calls \cup {None}
      BY <3>1 DEF locks, IInv, Shape
    <3> HIDE DEF read, known
    <3> QED BY <3>1, <3>2, <3>3, <3>4, PlainMoves
  <2> QED BY <2>1, <2>2
<1> HIDE DEF Job
<1> QED BY <1>1, <1>2, ReadStep

\* What follows a decision to select, to cancel or neither.
LEMMA DecideMoves ==
  ASSUME IInv, NEW c \in Calls, NEW count, Decide(c, count),
         call[c].at \notin SelectPoints \cup ClosePoints
  PROVE  /\ Moves(c) /\ call'[c].at # "cancelMined"
         /\ job' \in Job /\ timer' \in BOOLEAN
         /\ job'.terminal = job.terminal /\ job'.cancelled = job.cancelled
<1>0. job \in Job /\ timer \in BOOLEAN
  BY DEF IInv, Shape
<1>1. CASE Closable(c) /\ count > 0
  BY <1>0, <1>1, BeginSelectMoves DEF Decide
<1>2. CASE Closable(c) /\ ~(count > 0)
  BY <1>0, <1>2, BeginCloseMoves, JobShapes DEF Decide
<1>3. CASE ~Closable(c)
  <2>1. Return(c) /\ timer' = (timer \/ Early(c))
        /\ job' = [job EXCEPT !.dated = @ \/ (job.known /\ Early(c))]
    BY <1>3 DEF Decide
  <2>2. job' \in Job /\ job'.terminal = job.terminal /\ job'.cancelled = job.cancelled
    <3> DEFINE dated == job.dated \/ (job.known /\ Early(c))
    <3>1. dated \in BOOLEAN
      OBVIOUS
    <3> HIDE DEF dated
    <3>2. job' = [job EXCEPT !.dated = dated]
      BY <2>1 DEF dated
    <3> QED BY <1>0, <3>1, <3>2 DEF Job
  <2>3. timer' \in BOOLEAN
    BY <2>1
  <2> QED BY <2>1, <2>2, <2>3, ReturnMoves
<1> QED BY <1>1, <1>2, <1>3

LEMMA ReadCountKeeps == ASSUME IInv, NEW c \in Calls, ReadCount(c) PROVE IInv'
<1>1. UNCHANGED chain /\ call[c].at = "readCount" /\ \E count \in {BidCount, 0} : Decide(c, count)
  BY DEF ReadCount, At
<1>2. call[c].at \notin SelectPoints \cup ClosePoints
  BY <1>1 DEF SelectPoints, ClosePoints
<1>3. /\ Moves(c) /\ call'[c].at # "cancelMined"
      /\ job' \in Job /\ timer' \in BOOLEAN
      /\ job'.terminal = job.terminal /\ job'.cancelled = job.cancelled
  BY <1>1, <1>2, DecideMoves
<1> HIDE DEF Job
<1> QED BY <1>1, <1>3, ReadStep

LEMMA ReadHintedKeeps == ASSUME IInv, NEW c \in Calls, ReadHinted(c) PROVE IInv'
<1>1. /\ UNCHANGED chain /\ call[c].at = "readHinted"
      /\ BeginSelect(c) \/ (Return(c) /\ UNCHANGED <<job, timer>>)
      /\ job \in Job /\ timer \in BOOLEAN
  BY DEF ReadHinted, At, IInv, Shape
<1>2. call[c].at \notin SelectPoints \cup ClosePoints
  BY <1>1 DEF SelectPoints, ClosePoints
<1>3. Moves(c) /\ call'[c].at # "cancelMined" /\ job' = job /\ timer' \in BOOLEAN
  BY <1>1, <1>2, BeginSelectMoves, ReturnMoves
<1> HIDE DEF Job
<1> QED BY <1>1, <1>3, ReadStep

LEMMA HydrateKeeps == ASSUME IInv, NEW c \in Calls, Hydrate(c) PROVE IInv'
<1>1. /\ UNCHANGED chain /\ call[c].at = "hydrate" /\ timer' = timer /\ timer \in BOOLEAN
      /\ job \in Job /\ bids \in Seq(Agents)
  BY DEF Hydrate, At, IInv, Shape
<1>2. CASE /\ Move(c, "precheck") /\ UNCHANGED locks
           /\ job' \in {Hydrated(NoJob), [Hydrated(NoJob) EXCEPT !.bidders = bids]}
  <2>1. call[c].at \in SelectPoints /\ "precheck" \in Points /\ "precheck" \notin ClosePoints
    BY <1>1 DEF SelectPoints, ClosePoints, Points
  <2>2. Moves(c) /\ call'[c].at = "precheck"
    BY <1>2, <2>1, MoveMoves
  <2>3. job' \in Job /\ ~job'.terminal /\ ~job'.cancelled
    BY <1>1, <1>2, NoJobShape DEF Hydrated, Job
  <2> HIDE DEF Job
  <2> QED BY <1>1, <2>2, <2>3, ReadStep
<1>3. CASE Return(c) /\ job' = job
  <2> HIDE DEF Job
  <2> QED BY <1>1, <1>3, ReturnMoves, ReadStep
<1> QED BY <1>2, <1>3 DEF Hydrate

LEMMA PrecheckKeeps == ASSUME IInv, NEW c \in Calls, Precheck(c) PROVE IInv'
<1>1. /\ UNCHANGED chain /\ call[c].at = "precheck" /\ timer' = timer /\ timer \in BOOLEAN
      /\ job' = job /\ job \in Job
  BY DEF Precheck, At, IInv, Shape
<1>2. CASE Move(c, "bids") /\ UNCHANGED locks
  <2>1. call[c].at \in SelectPoints /\ "bids" \in Points /\ "bids" \notin ClosePoints
    BY <1>1 DEF SelectPoints, ClosePoints, Points
  <2>2. Moves(c) /\ call'[c].at = "bids"
    BY <1>2, <2>1, MoveMoves
  <2> HIDE DEF Job
  <2> QED BY <1>1, <2>2, ReadStep
<1>3. CASE Return(c)
  <2> HIDE DEF Job
  <2> QED BY <1>1, <1>3, ReturnMoves, ReadStep
<1> QED BY <1>2, <1>3 DEF Precheck

LEMMA ReadBidsKeeps == ASSUME IInv, NEW c \in Calls, ReadBids(c) PROVE IInv'
<1>1. /\ UNCHANGED chain /\ call[c].at = "bids" /\ timer' = timer /\ timer \in BOOLEAN
      /\ job \in Job /\ bids \in Seq(Agents) /\ job.bidders \in Seq(Agents)
  BY DEF ReadBids, At, IInv, Shape, Job
<1>2. PICK list \in Seq(Agents) :
        \/ Return(c) /\ job' = [job EXCEPT !.bidders = list]
        \/ /\ list # <<>>
           /\ job' = [job EXCEPT !.bidders = list, !.winner = list[BestIndex(list)]]
           /\ call' = [call EXCEPT ![c].at = "select", ![c].attempt = 1,
                                   ![c].pick = list[BestIndex(list)],
                                   ![c].index = BestIndex(list)]
           /\ UNCHANGED locks
  BY <1>1 DEF ReadBids
<1>3. CASE Return(c) /\ job' = [job EXCEPT !.bidders = list]
  <2>1. job' \in Job /\ job'.terminal = job.terminal /\ job'.cancelled = job.cancelled
    BY <1>1, <1>3 DEF Job
  <2> HIDE DEF Job
  <2> QED BY <1>1, <1>3, <2>1, ReturnMoves, ReadStep
<1>4. CASE /\ list # <<>>
           /\ job' = [job EXCEPT !.bidders = list, !.winner = list[BestIndex(list)]]
           /\ call' = [call EXCEPT ![c].at = "select", ![c].attempt = 1,
                                   ![c].pick = list[BestIndex(list)],
                                   ![c].index = BestIndex(list)]
           /\ UNCHANGED locks
  <2> DEFINE index == BestIndex(list)
             pick == list[index]
             r == [call[c] EXCEPT !.at = "select", !.attempt = 1, !.pick = pick, !.index = index]
  <2>1. pick \in Agents \cup {None} /\ index \in Nat
    BY <1>4, BestIndexIsBest, ElementOfSeq
  <2> HIDE DEF index, pick
  <2>2. /\ job' = [job EXCEPT !.bidders = list, !.winner = pick]
        /\ call' = [call EXCEPT ![c] = r]
    BY <1>4 DEF index, pick, IInv, Shape
  <2>3. job' \in Job /\ job'.terminal = job.terminal /\ job'.cancelled = job.cancelled
    BY <1>1, <2>1, <2>2 DEF Job
  <2>4. 1 \in 0..MaxAttempts /\ "select" \in Points /\ "select" \notin ClosePoints
        /\ call[c].at \in SelectPoints
    BY <1>1, BoundsAssumption DEF Points, SelectPoints, ClosePoints
  <2>5. r \in Call /\ r.at = "select"
    BY <2>1, <2>4 DEF Call, IInv, Shape
  <2> HIDE DEF r
  <2>6. call'[c] = r
    BY <2>2 DEF IInv, Shape
  <2>7. Moves(c)
    BY <1>4, <2>2, <2>4, <2>5, <2>6 DEF Moves, locks, IInv, Shape, SingleFlight
  <2> HIDE DEF Job
  <2> QED BY <1>1, <2>3, <2>5, <2>6, <2>7, ReadStep
<1> QED BY <1>2, <1>3, <1>4

LEMMA SendSelectKeeps == ASSUME IInv, NEW c \in Calls, SendSelect(c) PROVE IInv'
<1>1. /\ UNCHANGED <<status, bids, winner, expired>> /\ call[c].at = "select"
      /\ timer' = timer /\ timer \in BOOLEAN /\ job' = job /\ job \in Job
  BY DEF SendSelect, At, IInv, Shape
<1>2. CASE Return(c) /\ UNCHANGED pool
  <2>1. UNCHANGED chain
    BY <1>1, <1>2 DEF chain
  <2> HIDE DEF Job
  <2> QED BY <1>1, <1>2, <2>1, ReturnMoves, ReadStep
<1>3. CASE /\ pool' = Append(pool, [call |-> c, kind |-> "select", index |-> call[c].index])
           /\ Move(c, "selectSent") /\ UNCHANGED locks
  <2> DEFINE tx == [call |-> c, kind |-> "select", index |-> call[c].index]
  <2>1. tx \in Tx /\ tx.call = c /\ Sent(tx.kind) = "selectSent"
    BY DEF Tx, Sent, IInv, Shape, Call
  <2>2. call[c].at \in SelectPoints /\ "selectSent" \in Points /\ "selectSent" \notin ClosePoints
    BY <1>1 DEF SelectPoints, ClosePoints, Points
  <2>3. Moves(c) /\ call'[c].at = "selectSent"
    BY <1>3, <2>2, MoveMoves
  <2>4. pool' = Append(pool, tx)
    BY <1>3
  <2> HIDE DEF tx, Job, Tx
  <2>5. SendersWait' /\ pool' \in Seq(Tx)
    BY <1>1, <2>1, <2>3, <2>4, PoolSent
  <2> QED BY <1>1, <2>3, <2>5, CallStep
<1> QED BY <1>2, <1>3 DEF SendSelect

LEMMA SelectTransientKeeps == ASSUME IInv, NEW c \in Calls, SelectTransient(c) PROVE IInv'
<1>1. /\ UNCHANGED <<status, bids, winner, expired>> /\ call[c].at \in SelectPoints
      /\ timer' = timer /\ timer \in BOOLEAN /\ job' = job /\ job \in Job
      /\ Retry(c, "select") /\ pool' = Orphaned(pool, {c})
  BY DEF SelectTransient, SelectPoints, IInv, Shape
<1>2. Moves(c) /\ call'[c].at \in {"idle", "select"}
  BY <1>1, RetryMoves
<1>3. SendersWait' /\ pool' \in Seq(Tx)
  BY <1>1, <1>2, PoolOrphaned
<1> HIDE DEF Job, Tx
<1> QED BY <1>1, <1>2, <1>3, CallStep

LEMMA SelectReceiptKeeps == ASSUME IInv, NEW c \in Calls, SelectReceipt(c) PROVE IInv'
<1>1. /\ UNCHANGED chain /\ call[c].at \in {"selectMined", "selectReverted"} /\ Return(c)
      /\ timer' = timer /\ timer \in BOOLEAN /\ job' = job /\ job \in Job
  BY DEF SelectReceipt, Mined, At, IInv, Shape
<1> HIDE DEF Job
<1> QED BY <1>1, ReturnMoves, ReadStep

-----------------------------------------------------------------------------
(***************************************************************************)
(* The actions of a cancellation and of the reconcile loop.                *)
(***************************************************************************)

\* The call gives up or tries again; the job is marked terminal only for the
\* revert reason that an ended auction gives.
LEMMA CancelFailsMoves ==
  ASSUME IInv, NEW c \in Calls, NEW error, CancelFails(c, error),
         call[c].at \in ClosePoints, error = "reason" => status # "OPEN"
  PROVE  /\ Moves(c) /\ call'[c].at \in {"idle", "cancel"}
         /\ job' \in Job /\ timer' \in BOOLEAN
         /\ job'.terminal \/ job'.cancelled => job.terminal \/ job.cancelled \/ status # "OPEN"
<1>1. job \in Job /\ timer \in BOOLEAN /\ Terminated(job) \in Job
  BY JobShapes DEF IInv, Shape
<1>2. CASE TerminalError(error)
  BY <1>1, <1>2, ReturnMoves DEF CancelFails, TerminalError
<1>3. CASE ~TerminalError(error)
  <2>1. (Retry(c, "cancel") \/ Return(c)) /\ job' = job /\ timer' = timer
    BY <1>3 DEF CancelFails
  <2>2. Moves(c) /\ call'[c].at \in {"idle", "cancel"}
    BY <2>1, RetryMoves, ReturnMoves
  <2> QED BY <1>1, <2>1, <2>2
<1> QED BY <1>2, <1>3

LEMMA SendCancelKeeps == ASSUME IInv, NEW c \in Calls, SendCancel(c) PROVE IInv'
<1>1. /\ UNCHANGED <<status, bids, winner, expired>> /\ call[c].at = "cancel"
      /\ call[c].at \in ClosePoints /\ job \in Job /\ timer \in BOOLEAN
  BY DEF SendCancel, At, ClosePoints, IInv, Shape
<1>2. CASE status # "OPEN" /\ CancelFails(c, "reason") /\ UNCHANGED pool
  <2>1. UNCHANGED chain
    BY <1>1, <1>2 DEF chain
  <2> HIDE DEF Job
  <2> QED BY <1>1, <1>2, <2>1, CancelFailsMoves, ReadStep
<1>3. CASE /\ pool' = Append(pool, [call |-> c, kind |-> "cancel", index |-> 0])
           /\ Move(c, "cancelSent") /\ UNCHANGED <<job, timer, locks>>
  <2> DEFINE tx == [call |-> c, kind |-> "cancel", index |-> 0]
  <2>1. tx \in Tx /\ tx.call = c /\ Sent(tx.kind) = "cancelSent"
    BY DEF Tx, Sent
  <2>2. "cancelSent" \in Points /\ "cancelSent" \notin SelectPoints
    BY DEF SelectPoints, ClosePoints, Points
  <2>3. Moves(c) /\ call'[c].at = "cancelSent"
    BY <1>1, <1>3, <2>2, MoveMoves
  <2>4. pool' = Append(pool, tx)
    BY <1>3
  <2> HIDE DEF tx, Job, Tx
  <2>5. SendersWait' /\ pool' \in Seq(Tx)
    BY <1>1, <2>1, <2>3, <2>4, PoolSent
  <2> QED BY <1>1, <1>3, <2>3, <2>5, CallStep
<1> QED BY <1>2, <1>3 DEF SendCancel

LEMMA CancelTransientKeeps == ASSUME IInv, NEW c \in Calls, CancelTransient(c) PROVE IInv'
<1>1. /\ UNCHANGED <<status, bids, winner, expired>> /\ call[c].at \in ClosePoints
      /\ CancelFails(c, "transient") /\ pool' = Orphaned(pool, {c})
  BY DEF CancelTransient
<1>2. /\ Moves(c) /\ call'[c].at # "cancelMined"
      /\ job' \in Job /\ timer' \in BOOLEAN
      /\ job'.terminal \/ job'.cancelled => job.terminal \/ job.cancelled \/ status # "OPEN"
  BY <1>1, CancelFailsMoves
<1>3. SendersWait' /\ pool' \in Seq(Tx)
  BY <1>1, <1>2, PoolOrphaned
<1> HIDE DEF Job, Tx
<1> QED BY <1>1, <1>2, <1>3, CallStep

LEMMA CancelReceiptKeeps == ASSUME IInv, NEW c \in Calls, CancelReceipt(c) PROVE IInv'
<1>1. UNCHANGED chain /\ job \in Job /\ Terminated(job) \in Job
  BY JobShapes DEF CancelReceipt, IInv, Shape
<1>2. CASE call[c].at = "cancelMined" /\ job' = Terminated(job) /\ timer' = FALSE /\ Return(c)
  <2>1. status # "OPEN"
    BY <1>2 DEF IInv, MinedIsEnded
  <2> HIDE DEF Job
  <2> QED BY <1>1, <1>2, <2>1, ReturnMoves, ReadStep
<1>3. CASE call[c].at = "cancelReverted" /\ CancelFails(c, "reverted")
  <2>1. call[c].at \in ClosePoints
    BY <1>3 DEF ClosePoints
  <2> HIDE DEF Job
  <2> QED BY <1>1, <1>3, <2>1, CancelFailsMoves, ReadStep
<1> QED BY <1>2, <1>3 DEF CancelReceipt, At

LEMMA JoinCloseKeeps == ASSUME IInv, NEW c \in Calls, JoinClose(c) PROVE IInv'
<1>1. /\ UNCHANGED chain /\ call[c].at = "joinClose" /\ Return(c)
      /\ timer' = timer /\ timer \in BOOLEAN /\ job' = job /\ job \in Job
  BY DEF JoinClose, At, IInv, Shape
<1> HIDE DEF Job
<1> QED BY <1>1, ReturnMoves, ReadStep

LEMMA InspectKeeps == ASSUME IInv, NEW c \in Calls, Inspect(c) PROVE IInv'
<1>1. /\ UNCHANGED chain /\ call[c].at = "inspect" /\ timer' = timer /\ timer \in BOOLEAN
      /\ job \in Job
  BY DEF Inspect, At, IInv, Shape
<1>2. CASE Move(c, "inspectCount") /\ UNCHANGED <<job, locks>>
  <2>1. "inspectCount" \in Points /\ "inspectCount" \notin SelectPoints \cup ClosePoints
    BY DEF SelectPoints, ClosePoints, ReconcilePoints, Points
  <2>2. Moves(c) /\ call'[c].at = "inspectCount"
    BY <1>2, <2>1, MoveMoves
  <2> HIDE DEF Job
  <2> QED BY <1>1, <1>2, <2>2, ReadStep
<1>3. CASE status # "OPEN" /\ job' = [job EXCEPT !.terminal = job.known] /\ Return(c)
  <2>1. job' \in Job
    BY <1>1, <1>3 DEF Job
  <2> HIDE DEF Job
  <2> QED BY <1>1, <1>3, <2>1, ReturnMoves, ReadStep
<1>4. CASE Return(c) /\ UNCHANGED job
  <2> HIDE DEF Job
  <2> QED BY <1>1, <1>4, ReturnMoves, ReadStep
<1> QED BY <1>2, <1>3, <1>4 DEF Inspect

\* Calls outside a selection and a cancellation begin and end as they like, the
\* entries of the single flights stay.
LEMMA FreeStep ==
  ASSUME IInv, call' \in [Calls -> Call],
         \A c \in Calls :
           \/ call'[c] = call[c]
           \/ /\ call[c].at \notin {"selectSent", "cancelSent"}
              /\ call'[c].at \notin SelectPoints \cup ClosePoints,
         selecting' = selecting, closing' = closing, reconciling' \in Calls \cup {None},
         status' = status, winner' = winner, pool' = pool,
         bids' \in Seq(Agents), expired' \in BOOLEAN,
         job' \in Job, timer' \in BOOLEAN,
         job'.terminal \/ job'.cancelled => job.terminal \/ job.cancelled \/ status # "OPEN"
  PROVE  IInv'
<1>1. Shape'
  <2> HIDE DEF Call, Tx, Job
  <2> QED BY DEF IInv, Shape
<1>2. SingleFlight'
  BY DEF IInv, SingleFlight
<1>3. SendersWait'
  <2> SUFFICES ASSUME NEW i \in DOMAIN pool, pool[i].call # None
               PROVE  /\ call'[pool[i].call].at = Sent(pool[i].kind)
                      /\ \A k \in DOMAIN pool : pool[k].call = pool[i].call => k = i
    BY DEF SendersWait
  <2>1. /\ call[pool[i].call].at = Sent(pool[i].kind)
        /\ \A k \in DOMAIN pool : pool[k].call = pool[i].call => k = i
    BY DEF IInv, SendersWait
  <2>2. pool[i].call \in Calls
    BY PoolEntry DEF Tx
  <2>3. call'[pool[i].call] = call[pool[i].call]
    BY <2>1, <2>2 DEF Sent
  <2> QED BY <2>1, <2>3
<1>4. MinedIsEnded'
  <2>1. "cancelMined" \in ClosePoints
    BY DEF ClosePoints
  <2> QED BY <2>1 DEF IInv, MinedIsEnded
<1>5. TerminalIsFinal'
  BY DEF IInv, TerminalIsFinal
<1> QED BY <1>1, <1>2, <1>3, <1>4, <1>5 DEF IInv

\* A free call begins.
LEMMA BeginStep ==
  ASSUME IInv, NEW c \in Calls, call[c].at = "idle",
         NEW point \in RequestPoints \cup ReconcilePoints,
         call' = [call EXCEPT ![c] = Begun(point)],
         UNCHANGED <<chain, selecting, closing>>, reconciling' \in Calls \cup {None},
         job' \in Job, timer' \in BOOLEAN,
         job'.terminal \/ job'.cancelled => job.terminal \/ job.cancelled \/ status # "OPEN"
  PROVE  IInv'
<1>1. call' \in [Calls -> Call] /\ call'[c].at = point
  BY BegunShape, PlacesDistinct DEF IInv, Shape
<1>2. \A d \in Calls \ {c} : call'[d] = call[d]
  BY DEF IInv, Shape
<1>3. call[c].at \notin {"selectSent", "cancelSent"} /\ point \notin SelectPoints \cup ClosePoints
  BY PlacesDistinct
<1>4. /\ status' = status /\ winner' = winner /\ pool' = pool
      /\ bids' \in Seq(Agents) /\ expired' \in BOOLEAN
  BY DEF chain, IInv, Shape
<1> HIDE DEF Call, Job
<1> QED BY <1>1, <1>2, <1>3, <1>4, FreeStep

\* No call moves.
LEMMA QuietStep ==
  ASSUME IInv, call' = call, UNCHANGED locks,
         status' = status, winner' = winner, pool' = pool,
         bids' \in Seq(Agents), expired' \in BOOLEAN,
         job' \in Job, timer' \in BOOLEAN,
         job'.terminal \/ job'.cancelled => job.terminal \/ job.cancelled \/ status # "OPEN"
  PROVE  IInv'
<1>1. call' \in [Calls -> Call] /\ reconciling' \in Calls \cup {None}
      /\ selecting' = selecting /\ closing' = closing
  BY DEF locks, IInv, Shape
<1> HIDE DEF Call, Job
<1> QED BY <1>1, FreeStep

LEMMA InspectCountKeeps == ASSUME IInv, NEW c \in Calls, InspectCount(c) PROVE IInv'
<1>1. UNCHANGED chain /\ call[c].at = "inspectCount" /\ job \in Job /\ timer \in BOOLEAN
      /\ call[c].at \notin SelectPoints \cup ClosePoints
  BY DEF InspectCount, At, IInv, Shape, SelectPoints, ClosePoints
<1>2. ASSUME NEW d \in Calls \ {c}, At(d, "idle"),
             call' = [call EXCEPT ![c] = Idle, ![d] = Begun("readHinted")],
             reconciling' = None, UNCHANGED <<job, timer, selecting, closing>>
      PROVE  IInv'
  <2>1. "readHinted" \in Points /\ {"idle", "readHinted"} \cap (SelectPoints \cup ClosePoints) = {}
    BY DEF Points, RequestPoints, SelectPoints, ClosePoints
  <2>2. /\ call' \in [Calls -> Call]
        /\ call'[c].at = "idle" /\ call'[d].at = "readHinted"
        /\ \A e \in Calls \ {c, d} : call'[e] = call[e]
    BY <1>2, <2>1, IdleShape, BegunShape DEF IInv, Shape
  <2>3. \A e \in Calls :
          \/ call'[e] = call[e]
          \/ /\ call[e].at \notin {"selectSent", "cancelSent"}
             /\ call'[e].at \notin SelectPoints \cup ClosePoints
    BY <1>1, <1>2, <2>1, <2>2 DEF At
  <2>4. /\ status' = status /\ winner' = winner /\ pool' = pool
        /\ bids' \in Seq(Agents) /\ expired' \in BOOLEAN
    BY <1>1 DEF chain, IInv, Shape
  <2> HIDE DEF Call, Job
  <2> QED BY <1>1, <1>2, <2>2, <2>3, <2>4, FreeStep
<1>3. CASE BeginClose(c)
  <2>1. /\ Moves(c) /\ call'[c].at # "cancelMined" /\ timer' = timer
        /\ job' = [job EXCEPT !.known = TRUE]
    BY <1>1, <1>3, BeginCloseMoves
  <2>2. job' \in Job /\ job'.terminal = job.terminal /\ job'.cancelled = job.cancelled
    BY <1>1, <2>1, JobShapes
  <2> HIDE DEF Job
  <2> QED BY <1>1, <2>1, <2>2, ReadStep
<1>4. CASE Return(c) /\ UNCHANGED <<job, timer>>
  <2> HIDE DEF Job
  <2> QED BY <1>1, <1>4, ReturnMoves, ReadStep
<1> QED BY <1>2, <1>3, <1>4 DEF InspectCount

-----------------------------------------------------------------------------
(***************************************************************************)
(* What starts the calls, the events, and the agents.                      *)
(***************************************************************************)

LEMMA TimerFiresKeeps == ASSUME IInv, NEW c \in Calls, TimerFires(c) PROVE IInv'
<1>1. /\ call[c].at = "idle" /\ call' = [call EXCEPT ![c] = Begun("readJob")]
      /\ UNCHANGED <<chain, selecting, closing>> /\ reconciling' \in Calls \cup {None}
      /\ job' = job /\ job \in Job /\ timer' \in BOOLEAN
  BY DEF TimerFires, At, locks, IInv, Shape
<1>2. "readJob" \in RequestPoints
  BY DEF RequestPoints
<1> HIDE DEF Job
<1> QED BY <1>1, <1>2, BeginStep

LEMMA ReportPublishedKeeps == ASSUME IInv, NEW c \in Calls, ReportPublished(c) PROVE IInv'
<1>1. /\ call[c].at = "idle" /\ UNCHANGED <<chain, timer, locks>>
      /\ job \in Job /\ timer \in BOOLEAN /\ winner \in Agents \cup {None}
  BY DEF ReportPublished, At, IInv, Shape
<1>2. PICK w \in {job.winner, winner} :
        /\ job' = [job EXCEPT !.known = TRUE, !.published = TRUE, !.winner = w]
        /\ call' \in {[call EXCEPT ![c] = Begun("readJob")], call}
  BY DEF ReportPublished
<1>3. job' \in Job /\ job'.terminal = job.terminal /\ job'.cancelled = job.cancelled
  <2>1. w \in Agents \cup {None}
    BY <1>1 DEF Job
  <2> QED BY <1>1, <1>2, <2>1 DEF Job
<1>4. "readJob" \in RequestPoints /\ reconciling' \in Calls \cup {None}
      /\ UNCHANGED <<selecting, closing>>
  BY <1>1 DEF RequestPoints, locks, IInv, Shape
<1>5. /\ status' = status /\ winner' = winner /\ pool' = pool
      /\ bids' \in Seq(Agents) /\ expired' \in BOOLEAN
  BY <1>1 DEF chain, IInv, Shape
<1> HIDE DEF Job
<1>6. CASE call' = [call EXCEPT ![c] = Begun("readJob")]
  BY <1>1, <1>3, <1>4, <1>6, BeginStep
<1>7. CASE call' = call
  BY <1>1, <1>3, <1>5, <1>7, QuietStep
<1> QED BY <1>2, <1>6, <1>7

LEMMA ReconcileStartsKeeps == ASSUME IInv, NEW c \in Calls, ReconcileStarts(c) PROVE IInv'
<1>1. /\ call[c].at = "idle" /\ call' = [call EXCEPT ![c] = Begun("inspect")]
      /\ UNCHANGED <<chain, selecting, closing>> /\ reconciling' \in Calls \cup {None}
      /\ job' = job /\ job \in Job /\ timer' = timer /\ timer \in BOOLEAN
  BY DEF ReconcileStarts, At, IInv, Shape
<1>2. "inspect" \in ReconcilePoints
  BY DEF ReconcilePoints
<1> HIDE DEF Job
<1> QED BY <1>1, <1>2, BeginStep

LEMMA BootstrapKeeps == ASSUME IInv, Bootstrap PROVE IInv'
<1>1. /\ call' = call /\ UNCHANGED locks
      /\ status' = status /\ winner' = winner /\ pool' = pool
      /\ bids' \in Seq(Agents) /\ expired' \in BOOLEAN
      /\ job' \in {job, Hydrated(job)} /\ job \in Job /\ timer' \in BOOLEAN
  BY DEF Bootstrap, chain, IInv, Shape
<1>2. job' \in Job /\ job'.terminal = job.terminal /\ job'.cancelled = job.cancelled
  BY <1>1, JobShapes
<1> HIDE DEF Job
<1> QED BY <1>1, <1>2, QuietStep

LEMMA HandleBidSubmittedKeeps ==
  ASSUME IInv, NEW a \in Agents, HandleBidSubmitted(a) PROVE IInv'
<1>1. /\ call' = call /\ UNCHANGED locks
      /\ status' = status /\ winner' = winner /\ pool' = pool
      /\ bids' \in Seq(Agents) /\ expired' \in BOOLEAN
      /\ job' = [job EXCEPT !.bidders = Append(job.bidders, a)] /\ job \in Job
      /\ timer' \in BOOLEAN
  BY DEF HandleBidSubmitted, chain, IInv, Shape
<1>2. job' \in Job /\ job'.terminal = job.terminal /\ job'.cancelled = job.cancelled
  <2>1. Append(job.bidders, a) \in Seq(Agents)
    BY <1>1 DEF Job
  <2> QED BY <1>1, <2>1 DEF Job
<1> HIDE DEF Job
<1> QED BY <1>1, <1>2, QuietStep

LEMMA WinnersSelectedEventKeeps == ASSUME IInv, WinnersSelectedEvent PROVE IInv'
<1>1. /\ call' = call /\ UNCHANGED locks
      /\ status' = status /\ winner' = winner /\ pool' = pool
      /\ bids' \in Seq(Agents) /\ expired' \in BOOLEAN
      /\ job' \in {job, [job EXCEPT !.winner = winner]} /\ job \in Job
      /\ winner \in Agents \cup {None}
      /\ timer' \in BOOLEAN
  BY DEF WinnersSelectedEvent, chain, IInv, Shape
<1>2. job' \in Job /\ job'.terminal = job.terminal /\ job'.cancelled = job.cancelled
  BY <1>1 DEF Job
<1> HIDE DEF Job
<1> QED BY <1>1, <1>2, QuietStep

LEMMA JobCancelledEventKeeps == ASSUME IInv, JobCancelledEvent PROVE IInv'
<1>1. /\ call' = call /\ UNCHANGED locks /\ status # "OPEN"
      /\ status' = status /\ winner' = winner /\ pool' = pool
      /\ bids' \in Seq(Agents) /\ expired' \in BOOLEAN
      /\ job' \in {job, Terminated(job)} /\ job \in Job /\ timer' \in BOOLEAN
  BY DEF JobCancelledEvent, chain, IInv, Shape
<1>2. job' \in Job
  BY <1>1, JobShapes
<1> HIDE DEF Job
<1> QED BY <1>1, <1>2, QuietStep

LEMMA SubmitBidKeeps == ASSUME IInv, NEW a \in Agents, SubmitBid(a) PROVE IInv'
<1>1. /\ call' = call /\ UNCHANGED locks
      /\ status' = status /\ winner' = winner /\ pool' = pool
      /\ bids' \in Seq(Agents) /\ expired' \in BOOLEAN
      /\ job' = job /\ job \in Job /\ timer' \in BOOLEAN
  BY DEF SubmitBid, memory, IInv, Shape
<1> HIDE DEF Job
<1> QED BY <1>1, QuietStep

LEMMA ExpireKeeps == ASSUME IInv, Expire PROVE IInv'
<1>1. /\ call' = call /\ UNCHANGED locks
      /\ status' = status /\ winner' = winner /\ pool' = pool
      /\ bids' \in Seq(Agents) /\ expired' \in BOOLEAN
      /\ job' = job /\ job \in Job /\ timer' \in BOOLEAN
  BY DEF Expire, memory, IInv, Shape
<1> HIDE DEF Job
<1> QED BY <1>1, QuietStep

-----------------------------------------------------------------------------
(***************************************************************************)
(* The chain and the restart.                                              *)
(***************************************************************************)

\* The sender of the transaction that is mined waits for it and for no other,
\* and learns how it ended.
LEMMA MineKeeps == ASSUME IInv, Mine PROVE IInv'
<1> DEFINE tx == Head(pool)
           ok == Succeeds(tx)
           place == Outcome(tx.kind, ok)
<1>1. pool \in Seq(Tx) /\ pool # <<>> /\ Len(pool) \in Nat \ {0}
      /\ tx = pool[1] /\ 1 \in DOMAIN pool
  BY EmptySeq DEF Mine, IInv, Shape
<1>2. tx \in Tx
  BY <1>1, PoolEntry
<1>3. /\ pool' \in Seq(Tx) /\ DOMAIN pool' = 1..(Len(pool) - 1)
      /\ \A i \in DOMAIN pool' : pool'[i] = pool[i + 1] /\ i + 1 \in DOMAIN pool
  <2>1. pool' = Tail(pool)
    BY DEF Mine
  <2> HIDE DEF Tx
  <2> QED BY <1>1, <2>1, HeadTailProperties
<1>4. /\ status' = IF ~ok THEN status ELSE IF tx.kind = "select" THEN "AUDITING" ELSE "CANCELLED"
      /\ winner' = IF ok /\ tx.kind = "select" THEN bids[tx.index] ELSE winner
      /\ call' = IF tx.call = None THEN call ELSE [call EXCEPT ![tx.call].at = place]
      /\ UNCHANGED <<bids, expired, job, timer, locks>>
  BY DEF Mine
<1>5. /\ status' \in Statuses /\ (status # "OPEN" => status' # "OPEN")
      /\ (ok => status' # "OPEN") /\ winner' \in Agents \cup {None}
  <2>1. ok /\ tx.kind = "select" => bids[tx.index] \in Agents \cup {None}
    <3> SUFFICES ASSUME ok, tx.kind = "select"
                 PROVE  bids[tx.index] \in Agents \cup {None}
      OBVIOUS
    <3>1. tx.index \in DOMAIN bids /\ bids \in Seq(Agents)
      BY DEF Succeeds, IInv, Shape
    <3>2. bids[tx.index] \in Agents
      BY <3>1, ElementOfSeq
    <3> QED BY <3>2
  <2>2. status \in Statuses /\ winner \in Agents \cup {None}
    BY DEF IInv, Shape
  <2> HIDE DEF ok, tx
  <2> QED BY <1>4, <2>1, <2>2 DEF Statuses, Succeeds
<1>6. ASSUME tx.call # None
      PROVE  /\ tx.call \in Calls /\ call[tx.call].at = Sent(tx.kind)
             /\ \A k \in DOMAIN pool : pool[k].call = tx.call => k = 1
  BY <1>1, <1>2, <1>6 DEF IInv, SendersWait, Tx
<1>7. /\ place \in Points
      /\ tx.kind = "select" => Sent(tx.kind) \in SelectPoints /\ place \in SelectPoints \ ClosePoints
      /\ tx.kind = "cancel" => Sent(tx.kind) \in ClosePoints /\ place \in ClosePoints \ SelectPoints
      /\ place = "cancelMined" => ok
  <2> HIDE DEF ok, tx
  <2> QED BY <1>2 DEF Outcome, Sent, Tx, Points, SelectPoints, ClosePoints
<1>8. tx.kind \in {"select", "cancel"}
  BY <1>2 DEF Tx
<1> HIDE DEF tx, ok, place
<1>9. /\ call' \in [Calls -> Call]
      /\ \A c \in Calls : c # tx.call => call'[c] = call[c]
      /\ tx.call # None => call'[tx.call].at = place
  <2>1. CASE tx.call = None
    BY <1>4, <2>1, SlotsAssumption DEF IInv, Shape
  <2>2. CASE tx.call # None
    <3>1. call' = [call EXCEPT ![tx.call] = [call[tx.call] EXCEPT !.at = place]]
      BY <1>4, <1>6, <2>2 DEF IInv, Shape
    <3>2. [call[tx.call] EXCEPT !.at = place] \in Call
      <4>1. PICK r \in Call : r = call[tx.call]
        BY <1>6, <2>2 DEF IInv, Shape
      <4>2. [r EXCEPT !.at = place] \in Call
        BY <1>7 DEF Call
      <4> QED BY <4>1, <4>2
    <3>3. [call[tx.call] EXCEPT !.at = place].at = place
      BY <1>6, <2>2 DEF IInv, Shape, Call
    <3> HIDE DEF Call
    <3> QED BY <1>6, <2>2, <3>1, <3>2, <3>3 DEF IInv, Shape
  <2> QED BY <2>1, <2>2
<1>10. Shape'
  <2> HIDE DEF Call, Tx, Job
  <2> QED BY <1>3, <1>4, <1>5, <1>9 DEF locks, IInv, Shape
<1>11. SingleFlight'
  <2> SUFFICES ASSUME NEW c \in Calls
               PROVE  /\ call'[c].at \in SelectPoints => selecting = c
                      /\ call'[c].at \in ClosePoints => closing = c
    BY <1>4 DEF SingleFlight, locks
  <2>1. CASE c = tx.call
    <3>1. tx.call # None
      BY <2>1, SlotsAssumption
    <3> QED BY <1>6, <1>7, <1>8, <1>9, <2>1, <3>1 DEF IInv, SingleFlight
  <2>2. CASE c # tx.call
    BY <1>9, <2>2 DEF IInv, SingleFlight
  <2> QED BY <2>1, <2>2
<1>12. SendersWait'
  <2> SUFFICES ASSUME NEW i \in DOMAIN pool', pool'[i].call # None
               PROVE  /\ call'[pool'[i].call].at = Sent(pool'[i].kind)
                      /\ \A k \in DOMAIN pool' : pool'[k].call = pool'[i].call => k = i
    BY DEF SendersWait
  <2>1. pool'[i] = pool[i + 1] /\ i + 1 \in DOMAIN pool /\ i \in Nat /\ i > 0
    BY <1>1, <1>3
  <2>2. /\ call[pool[i + 1].call].at = Sent(pool[i + 1].kind)
        /\ \A k \in DOMAIN pool : pool[k].call = pool[i + 1].call => k = i + 1
    BY <2>1 DEF IInv, SendersWait
  <2>3. pool[i + 1].call \in Calls
    BY <2>1, PoolEntry DEF Tx
  <2>4. pool[i + 1].call # tx.call
    BY <1>6, <2>1
  <2>5. ASSUME NEW k \in DOMAIN pool', pool'[k].call = pool'[i].call
        PROVE  k = i
    <3>1. k \in Nat /\ k + 1 \in DOMAIN pool /\ pool[k + 1].call = pool[i + 1].call
      BY <1>1, <1>3, <2>1, <2>5
    <3>2. k + 1 = i + 1
      BY <2>2, <3>1
    <3> QED BY <2>1, <3>1, <3>2
  <2> QED BY <1>9, <2>1, <2>2, <2>3, <2>4, <2>5
<1>13. MinedIsEnded'
  <2> SUFFICES ASSUME NEW c \in Calls, call'[c].at = "cancelMined"
               PROVE  status' # "OPEN"
    BY DEF MinedIsEnded
  <2>1. CASE c = tx.call
    BY <1>5, <1>7, <1>9, <2>1, SlotsAssumption
  <2>2. CASE c # tx.call
    BY <1>5, <1>9, <2>2 DEF IInv, MinedIsEnded
  <2> QED BY <2>1, <2>2
<1>14. TerminalIsFinal'
  BY <1>4, <1>5 DEF IInv, TerminalIsFinal
<1> QED BY <1>10, <1>11, <1>12, <1>13, <1>14 DEF IInv

LEMMA CrashKeeps == ASSUME IInv, Crash PROVE IInv'
<1>1. /\ UNCHANGED <<status, bids, winner, expired>> /\ job' = NoJob /\ timer' = FALSE
      /\ call' = [c \in Calls |-> Idle]
      /\ selecting' = None /\ closing' = None /\ reconciling' = None
      /\ pool' = Orphaned(pool, Calls)
  BY DEF Crash
<1>2. pool \in Seq(Tx) /\ Len(pool) \in Nat /\ DOMAIN pool = 1..Len(pool)
  BY DEF IInv, Shape
<1> DEFINE entry(i) == IF pool[i].call \in Calls THEN [pool[i] EXCEPT !.call = None] ELSE pool[i]
<1>3. pool' = [i \in 1..Len(pool) |-> entry(i)]
  BY <1>1, <1>2 DEF Orphaned
<1>4. \A i \in 1..Len(pool) : entry(i) \in Tx /\ entry(i).call = None
  <2> SUFFICES ASSUME NEW i \in 1..Len(pool)
               PROVE  entry(i) \in Tx /\ entry(i).call = None
    OBVIOUS
  <2>1. pool[i] \in Tx
    BY <1>2
  <2> QED BY <2>1 DEF Tx
<1> HIDE DEF entry
<1>5. pool' \in Seq(Tx)
  <2>1. \A i \in 1..Len(pool) : entry(i) \in Tx
    BY <1>4
  <2>2. [i \in 1..Len(pool) |-> entry(i)] \in Seq(Tx)
    BY <1>2, <2>1, IsASeq
  <2> QED BY <1>3, <2>2
<1>6. SendersWait'
  BY <1>3, <1>4 DEF SendersWait
<1>7. \A c \in Calls : call'[c] \in Call /\ call'[c].at = "idle"
  BY <1>1, IdleShape
<1>8. SingleFlight' /\ MinedIsEnded'
  BY <1>7, PlacesDistinct DEF SingleFlight, MinedIsEnded
<1>9. Shape'
  <2>1. NoJob \in Job
    BY NoJobShape
  <2> HIDE DEF Call, Tx, Job
  <2> QED BY <1>1, <1>5, <1>7, <2>1 DEF IInv, Shape
<1>10. TerminalIsFinal'
  BY <1>1, NoJobShape DEF TerminalIsFinal
<1> QED BY <1>6, <1>8, <1>9, <1>10 DEF IInv

LEMMA InitKeeps == ASSUME Init PROVE IInv
<1>1. \A c \in Calls : call[c] \in Call /\ call[c].at = "idle"
  BY IdleShape DEF Init
<1>2. SingleFlight /\ MinedIsEnded
  BY <1>1, PlacesDistinct DEF SingleFlight, MinedIsEnded
<1>3. job \in Job /\ ~job.terminal /\ ~job.cancelled
  BY NoJobShape, JobShapes DEF Init
<1>4. pool = <<>> /\ bids = <<>> /\ DOMAIN pool = {}
  BY DEF Init
<1>5. Shape
  <2>1. status \in Statuses /\ winner \in Agents \cup {None}
    BY DEF Init, Statuses
  <2> HIDE DEF Call, Tx, Job, Statuses
  <2>2. call \in [Calls -> Call]
    BY <1>1 DEF Init
  <2>3. pool \in Seq(Tx) /\ bids \in Seq(Agents)
    BY <1>4, EmptySeq
  <2> QED BY <1>3, <2>1, <2>2, <2>3 DEF Init, Shape
<1>6. SendersWait
  BY <1>4 DEF SendersWait
<1>7. TerminalIsFinal
  BY <1>3 DEF TerminalIsFinal
<1> QED BY <1>2, <1>5, <1>6, <1>7 DEF IInv

LEMMA StepKeeps == ASSUME IInv, [Next]_vars PROVE IInv'
<1>1. CASE UNCHANGED vars
  BY <1>1 DEF vars, chain, memory, locks, IInv, Shape, SingleFlight, SendersWait, MinedIsEnded,
              TerminalIsFinal
<1>2. ASSUME NEW c \in Calls, Continue(c)
      PROVE  IInv'
  BY <1>2, ReadJobKeeps, ReadCountKeeps, ReadHintedKeeps, HydrateKeeps, PrecheckKeeps,
     ReadBidsKeeps, SendSelectKeeps, SelectTransientKeeps, SelectReceiptKeeps, SendCancelKeeps,
     CancelTransientKeeps, CancelReceiptKeeps, JoinCloseKeeps, InspectKeeps, InspectCountKeeps
  DEF Continue
<1>3. ASSUME NEW c \in Calls, TimerFires(c) \/ ReportPublished(c) \/ ReconcileStarts(c)
      PROVE  IInv'
  BY <1>3, TimerFiresKeeps, ReportPublishedKeeps, ReconcileStartsKeeps
<1>4. ASSUME NEW a \in Agents, HandleBidSubmitted(a) \/ SubmitBid(a)
      PROVE  IInv'
  BY <1>4, HandleBidSubmittedKeeps, SubmitBidKeeps
<1>5. CASE Bootstrap \/ WinnersSelectedEvent \/ JobCancelledEvent \/ Expire \/ Mine \/ Crash
  BY <1>5, BootstrapKeeps, WinnersSelectedEventKeeps, JobCancelledEventKeeps, ExpireKeeps,
     MineKeeps, CrashKeeps
<1> QED BY <1>1, <1>2, <1>3, <1>4, <1>5 DEF Next

\* The inductive invariant: places, entries and the pool of transactions fit
\* together (inflightSelectWinnerJobs, inflightCloseJobs, the nonce order).
THEOREM InductiveInvariant == Spec => []IInv
<1>1. Init => IInv
  BY InitKeeps
<1>2. IInv /\ [Next]_vars => IInv'
  BY StepKeeps
<1> QED BY <1>1, <1>2, PTL DEF Spec

\* However many timers, reports and passes of the reconcile loop ask at once,
\* one selection and one cancellation of the job run at a time.
THEOREM SingleFlightHolds == Spec => []SingleFlight
<1>1. IInv => SingleFlight
  BY DEF IInv
<1> QED BY <1>1, InductiveInvariant, PTL

\* The orchestrator never marks an open auction as over, whatever reads and
\* receipts fail, and however often it restarts.
THEOREM TerminalIsFinalHolds == Spec => []TerminalIsFinal
<1>1. IInv => TerminalIsFinal
  BY DEF IInv
<1> QED BY <1>1, InductiveInvariant, PTL

-----------------------------------------------------------------------------
(***************************************************************************)
(* The best bid wins.                                                      *)
(***************************************************************************)

\* Where a call has ranked the bids.
Ranked == {"select", "selectSent", "selectMined", "selectReverted"}

\* What a call has learned holds still, since a deadline that has passed stays so
\* and bids come only before it.
SoundCall(r) ==
    /\ r.late \/ r.at = "inspectCount" => expired
    /\ r.at \in SelectPoints \cup {"readHinted"} => expired /\ bids # <<>>
    /\ r.at \in Ranked => r.index = BestIndex(bids) /\ r.pick = bids[BestIndex(bids)]
    /\ r.at = "selectMined" => status = "AUDITING"
    /\ r.at \in ClosePoints => expired /\ bids = <<>>

\* What was sent names the best bid, or there is none.
SoundTx(tx) ==
    /\ expired
    /\ tx.kind = "select" => bids # <<>> /\ tx.index = BestIndex(bids)
    /\ tx.kind = "cancel" => bids = <<>>

SoundEnd ==
    /\ status = "OPEN" => winner = None
    /\ status = "AUDITING" => expired /\ bids # <<>> /\ winner = bids[BestIndex(bids)]
    /\ status = "CANCELLED" => expired /\ bids = <<>> /\ winner = None
    /\ announced \subseteq {winner} \ {None}

Sound ==
    /\ SoundEnd
    /\ \A c \in Calls : SoundCall(call[c])
    /\ \A i \in DOMAIN pool : SoundTx(pool[i])

\* While no read and no receipt has failed.
Steady == failures \in Nat /\ (failures = 0 => Sound)

LEMMA FailSound == ASSUME Steady, Fail PROVE Steady'
BY BoundsAssumption DEF Steady, Fail

LEMMA IdleSound ==
  /\ SoundCall(Idle)
  /\ \A point \in {"readJob", "inspect"} : SoundCall(Begun(point))
BY DEF SoundCall, Idle, Begun, Ranked, SelectPoints, ClosePoints

\* The auction is as it was, and what is learned, sent and announced is right.
LEMMA SoundStep ==
  ASSUME Steady, UNCHANGED <<status, bids, winner, expired, failures>>,
         Sound => announced' \subseteq {winner} \ {None},
         Sound => \A c \in Calls : call'[c] = call[c] \/ SoundCall(call'[c]),
         Sound => \A i \in DOMAIN pool' : SoundTx(pool'[i])
  PROVE  Steady'
<1> SUFFICES ASSUME Sound
             PROVE  Sound'
  BY DEF Steady
<1>1. SoundEnd'
  BY DEF Sound, SoundEnd
<1>2. ASSUME NEW c \in Calls
      PROVE  SoundCall(call[c])'
  <2>1. SoundCall(call'[c])
    BY DEF Sound
  <2> QED BY <2>1 DEF SoundCall
<1>3. ASSUME NEW i \in DOMAIN pool'
      PROVE  SoundTx(pool[i])'
  BY DEF SoundTx
<1> QED BY <1>1, <1>2, <1>3 DEF Sound

\* Of these, the steps that send and announce nothing.
LEMMA SoundRead ==
  ASSUME Steady, UNCHANGED <<chain, announced, failures>>,
         Sound => \A c \in Calls : call'[c] = call[c] \/ SoundCall(call'[c])
  PROVE  Steady'
<1>1. /\ UNCHANGED <<status, bids, winner, expired, failures>>
      /\ Sound => announced' \subseteq {winner} \ {None}
      /\ Sound => \A i \in DOMAIN pool' : SoundTx(pool'[i])
  BY DEF chain, Sound, SoundEnd
<1> QED BY <1>1, SoundStep

\* Of these, the steps of one call that goes on.
LEMMA SoundCallStep ==
  ASSUME IInv, Steady, NEW c \in Calls, NEW r, call' = [call EXCEPT ![c] = r],
         UNCHANGED <<chain, announced, failures>>, Sound => SoundCall(r)
  PROVE  Steady'
<1>1. call'[c] = r /\ \A d \in Calls \ {c} : call'[d] = call[d]
  BY DEF IInv, Shape
<1> QED BY <1>1, SoundRead

LEMMA SoundReturn ==
  ASSUME IInv, Steady, NEW c \in Calls, Return(c), UNCHANGED <<chain, announced, failures>>
  PROVE  Steady'
BY SoundCallStep, IdleSound DEF Return

\* What a call knows is right at its next place.
LEMMA SoundMove ==
  ASSUME IInv, Steady, NEW c \in Calls, NEW point \in Points, Move(c, point),
         UNCHANGED <<chain, announced, failures>>,
         point = "inspectCount" => expired,
         Sound /\ point \in SelectPoints \cup {"readHinted"} => expired /\ bids # <<>>,
         point \in ClosePoints => expired /\ bids = <<>>,
         point \notin Ranked
  PROVE  Steady'
<1> DEFINE r == [call[c] EXCEPT !.at = point]
<1>1. call[c] \in Call /\ call' = [call EXCEPT ![c] = r]
  BY DEF Move, IInv, Shape
<1>2. r.at = point /\ r.late = call[c].late /\ r.index = call[c].index /\ r.pick = call[c].pick
  BY <1>1 DEF Call
<1> HIDE DEF r
<1>3. Sound => SoundCall(r)
  BY <1>2 DEF Sound, SoundCall, Ranked
<1> QED BY <1>1, <1>3, SoundCallStep

-----------------------------------------------------------------------------

LEMMA ReadJobSound == ASSUME IInv, Steady, NEW c \in Calls, ReadJob(c) PROVE Steady'
<1>1. CASE Fail
  BY <1>1, FailSound
<1>2. CASE /\ call' = [call EXCEPT ![c].at = "readCount", ![c].seen = status, ![c].late = expired]
           /\ UNCHANGED <<locks, failures>>
  <2> DEFINE r == [call[c] EXCEPT !.at = "readCount", !.seen = status, !.late = expired]
  <2>1. call[c] \in Call /\ call' = [call EXCEPT ![c] = r]
    BY <1>2 DEF IInv, Shape
  <2>2. r.at = "readCount" /\ (r.late => expired)
    BY <2>1 DEF Call
  <2> HIDE DEF r
  <2>3. SoundCall(r)
    BY <2>2 DEF SoundCall, Ranked, SelectPoints, ClosePoints
  <2> QED BY <1>2, <2>1, <2>3, SoundCallStep DEF ReadJob
<1> QED BY <1>1, <1>2 DEF ReadJob

\* A selection begins when there are bids to select from.
LEMMA BeginSelectSound ==
  ASSUME IInv, Steady, NEW c \in Calls, BeginSelect(c), UNCHANGED <<chain, announced, failures>>,
         Sound => expired /\ bids # <<>>
  PROVE  Steady'
<1>1. CASE Return(c)
  BY <1>1, SoundReturn
<1>2. CASE \E point \in {"precheck", "hydrate"} : Move(c, point)
  <2>1. PICK point \in {"precheck", "hydrate"} : Move(c, point)
    BY <1>2
  <2>2. point \in Points /\ point \notin ClosePoints \cup Ranked /\ point # "inspectCount"
    BY DEF Points, SelectPoints, ClosePoints, Ranked
  <2> QED BY <2>1, <2>2, SoundMove
<1> QED BY <1>1, <1>2 DEF BeginSelect

\* A cancellation begins when there are none.
LEMMA BeginCloseSound ==
  ASSUME IInv, Steady, NEW c \in Calls, BeginClose(c), UNCHANGED <<chain, announced, failures>>,
         Sound => expired /\ bids = <<>>
  PROVE  Steady'
<1>1. CASE Return(c)
  BY <1>1, SoundReturn
<1>2. CASE Move(c, "joinClose")
  <2>1. /\ "joinClose" \in Points
        /\ "joinClose" \notin SelectPoints \cup ClosePoints \cup Ranked \cup {"readHinted"}
    BY DEF Points, SelectPoints, ClosePoints, Ranked
  <2> QED BY <1>2, <2>1, SoundMove
<1>3. CASE call' = [call EXCEPT ![c].at = "cancel", ![c].attempt = 1]
  <2> DEFINE r == [call[c] EXCEPT !.at = "cancel", !.attempt = 1]
  <2>1. call[c] \in Call /\ call' = [call EXCEPT ![c] = r]
    BY <1>3 DEF IInv, Shape
  <2>2. r.at = "cancel" /\ r.late = call[c].late
    BY <2>1 DEF Call
  <2> HIDE DEF r
  <2>3. Sound => SoundCall(r)
    BY <2>2 DEF Sound, SoundCall, Ranked, SelectPoints
  <2> QED BY <2>1, <2>3, SoundCallStep
<1> QED BY <1>1, <1>2, <1>3 DEF BeginClose

LEMMA ReadCountSound == ASSUME IInv, Steady, NEW c \in Calls, ReadCount(c) PROVE Steady'
<1>1. CASE Fail
  BY <1>1, FailSound
<1>2. CASE Decide(c, BidCount) /\ UNCHANGED failures
  <2>1. UNCHANGED <<chain, announced, failures>> /\ bids \in Seq(Agents)
    BY <1>2 DEF ReadCount, IInv, Shape
  <2>2. Sound /\ Closable(c) => expired
    BY DEF Closable, Sound, SoundCall
  <2>3. BidCount > 0 <=> bids # <<>>
    BY <2>1, EmptySeq DEF BidCount
  <2> QED BY <1>2, <2>1, <2>2, <2>3, BeginSelectSound, BeginCloseSound, SoundReturn DEF Decide
<1> QED BY <1>1, <1>2 DEF ReadCount

LEMMA ReadHintedSound == ASSUME IInv, Steady, NEW c \in Calls, ReadHinted(c) PROVE Steady'
<1>1. CASE Fail
  BY <1>1, FailSound
<1>2. CASE BeginSelect(c) /\ UNCHANGED failures
  <2>1. Sound => expired /\ bids # <<>>
    BY DEF ReadHinted, At, Sound, SoundCall
  <2> QED BY <1>2, <2>1, BeginSelectSound DEF ReadHinted
<1> QED BY <1>1, <1>2 DEF ReadHinted

LEMMA HydrateSound == ASSUME IInv, Steady, NEW c \in Calls, Hydrate(c) PROVE Steady'
<1>1. CASE Fail
  BY <1>1, FailSound
<1>2. CASE ~Fail
  <2>1. (Move(c, "precheck") \/ Return(c)) /\ UNCHANGED <<chain, announced, failures>>
    BY <1>2 DEF Hydrate
  <2>2. Sound => expired /\ bids # <<>>
    BY DEF Hydrate, At, Sound, SoundCall, SelectPoints
  <2>3. "precheck" \in Points /\ "precheck" \notin ClosePoints \cup Ranked
    BY DEF Points, SelectPoints, ClosePoints, Ranked
  <2> QED BY <2>1, <2>2, <2>3, SoundMove, SoundReturn
<1> QED BY <1>1, <1>2

LEMMA PrecheckSound == ASSUME IInv, Steady, NEW c \in Calls, Precheck(c) PROVE Steady'
<1>1. CASE Fail
  BY <1>1, FailSound
<1>2. CASE ~Fail
  <2>1. (Move(c, "bids") \/ Return(c)) /\ UNCHANGED <<chain, announced, failures>>
    BY <1>2 DEF Precheck
  <2>2. Sound => expired /\ bids # <<>>
    BY DEF Precheck, At, Sound, SoundCall, SelectPoints
  <2>3. "bids" \in Points /\ "bids" \notin ClosePoints \cup Ranked
    BY DEF Points, SelectPoints, ClosePoints, Ranked
  <2> QED BY <2>1, <2>2, <2>3, SoundMove, SoundReturn
<1> QED BY <1>1, <1>2

\* The ranking is of the bids on chain, which nothing can change any more.
LEMMA ReadBidsSound == ASSUME IInv, Steady, NEW c \in Calls, ReadBids(c) PROVE Steady'
<1>1. CASE Fail
  BY <1>1, FailSound
<1>2. CASE ~Fail
  <2> DEFINE best == BestIndex(bids)
             r == [call[c] EXCEPT !.at = "select", !.attempt = 1, !.pick = bids[best],
                                  !.index = best]
  <2>1. /\ UNCHANGED <<chain, announced, failures>>
        /\ Return(c) \/ call' = [call EXCEPT ![c].at = "select", ![c].attempt = 1,
                                             ![c].pick = bids[best], ![c].index = best]
    BY <1>2 DEF ReadBids
  <2>2. Sound => expired /\ bids # <<>>
    BY DEF ReadBids, At, Sound, SoundCall, SelectPoints
  <2>3. CASE Return(c)
    BY <2>1, <2>3, SoundReturn
  <2>4. CASE ~Return(c)
    <3> HIDE DEF best
    <3>1. call[c] \in Call /\ call' = [call EXCEPT ![c] = r]
      BY <2>1, <2>4 DEF IInv, Shape
    <3>2. r.at = "select" /\ r.pick = bids[best] /\ r.index = best /\ r.late = call[c].late
      BY <3>1 DEF Call
    <3> HIDE DEF r
    <3>3. Sound => SoundCall(r)
      <4>1. r.pick = bids[BestIndex(bids)] /\ r.index = BestIndex(bids)
        BY <3>2 DEF best
      <4> QED BY <2>2, <3>2, <4>1 DEF Sound, SoundCall, ClosePoints
    <3> QED BY <2>1, <3>1, <3>3, SoundCallStep
  <2> QED BY <2>3, <2>4
<1> QED BY <1>1, <1>2

\* What is appended to the pool is as right as the call that sends it.
LEMMA SoundSend ==
  ASSUME IInv, Steady, NEW c \in Calls, NEW tx, NEW point \in {"selectSent", "cancelSent"},
         pool' = Append(pool, tx), Move(c, point),
         UNCHANGED <<status, bids, winner, expired, announced, failures>>,
         point = "selectSent" => call[c].at = "select",
         point = "cancelSent" => call[c].at = "cancel",
         Sound => SoundTx(tx)
  PROVE  Steady'
<1> DEFINE r == [call[c] EXCEPT !.at = point]
<1>1. call[c] \in Call /\ call' = [call EXCEPT ![c] = r]
  BY DEF Move, IInv, Shape
<1>2. r.at = point /\ r.late = call[c].late /\ r.index = call[c].index /\ r.pick = call[c].pick
  BY <1>1 DEF Call
<1>3. call'[c] = r /\ \A d \in Calls \ {c} : call'[d] = call[d]
  BY <1>1 DEF IInv, Shape
<1> HIDE DEF r
<1>4. Sound => SoundCall(r)
  BY <1>2 DEF Sound, SoundCall, Ranked, SelectPoints, ClosePoints
<1>5. Sound => \A i \in DOMAIN pool' : SoundTx(pool'[i])
  <2>1. \A i \in DOMAIN pool' : pool'[i] = tx \/ (i \in DOMAIN pool /\ pool'[i] = pool[i])
    <3>1. pool \in Seq(Tx) /\ Len(pool) \in Nat /\ DOMAIN pool = 1..Len(pool)
      BY DEF IInv, Shape
    <3>2. /\ DOMAIN Append(pool, tx) = 1..(Len(pool) + 1)
          /\ \A i \in 1..(Len(pool) + 1) :
               Append(pool, tx)[i] = IF i = Len(pool) + 1 THEN tx ELSE pool[i]
      BY <3>1
    <3> QED BY <3>1, <3>2
  <2> QED BY <2>1 DEF Sound
<1>6. Sound => announced' \subseteq {winner} \ {None}
  BY DEF Sound, SoundEnd
<1> QED BY <1>3, <1>4, <1>5, <1>6, SoundStep

LEMMA SendSelectSound == ASSUME IInv, Steady, NEW c \in Calls, SendSelect(c) PROVE Steady'
<1>1. CASE Return(c) /\ UNCHANGED pool
  BY <1>1, SoundReturn DEF SendSelect, chain
<1>2. CASE /\ pool' = Append(pool, [call |-> c, kind |-> "select", index |-> call[c].index])
           /\ Move(c, "selectSent")
  <2> DEFINE tx == [call |-> c, kind |-> "select", index |-> call[c].index]
  <2>1. tx.kind = "select" /\ tx.index = call[c].index /\ pool' = Append(pool, tx)
    BY <1>2
  <2> HIDE DEF tx
  <2>2. Sound => SoundTx(tx)
    BY <2>1 DEF SendSelect, At, Sound, SoundCall, SoundTx, Ranked, SelectPoints
  <2> QED BY <1>2, <2>1, <2>2, SoundSend DEF SendSelect, At
<1> QED BY <1>1, <1>2 DEF SendSelect

LEMMA SelectTransientSound ==
  ASSUME IInv, Steady, NEW c \in Calls, SelectTransient(c) PROVE Steady'
BY FailSound DEF SelectTransient

\* WINNER_SELECTED names the pick of a selection that was mined, the best bid.
LEMMA SelectReceiptSound == ASSUME IInv, Steady, NEW c \in Calls, SelectReceipt(c) PROVE Steady'
<1>1. UNCHANGED <<chain, failures>> /\ Return(c)
  BY DEF SelectReceipt
<1>2. CASE UNCHANGED announced
  BY <1>1, <1>2, SoundReturn
<1>3. CASE call[c].at = "selectMined" /\ announced' = announced \cup {call[c].pick}
  <2>1. ASSUME Sound
        PROVE  announced' \subseteq {winner} \ {None}
    <3>1. /\ call[c].pick = bids[BestIndex(bids)] /\ status = "AUDITING"
          /\ bids # <<>> /\ bids \in Seq(Agents)
      BY <1>3, <2>1 DEF Sound, SoundCall, Ranked, SelectPoints, IInv, Shape
    <3>2. winner = bids[BestIndex(bids)] /\ announced \subseteq {winner} \ {None}
      BY <2>1, <3>1 DEF Sound, SoundEnd
    <3>3. bids[BestIndex(bids)] \in Agents
      BY <3>1, BestIndexIsBest, ElementOfSeq
    <3> QED BY <1>3, <3>1, <3>2, <3>3, SlotsAssumption
  <2>2. call'[c] = Idle /\ \A d \in Calls \ {c} : call'[d] = call[d]
    BY <1>1 DEF Return, IInv, Shape
  <2>3. Sound => \A i \in DOMAIN pool' : SoundTx(pool'[i])
    BY <1>1 DEF chain, Sound
  <2> QED BY <1>1, <2>1, <2>2, <2>3, IdleSound, SoundStep DEF chain
<1> QED BY <1>2, <1>3 DEF SelectReceipt, Mined, At

LEMMA SendCancelSound == ASSUME IInv, Steady, NEW c \in Calls, SendCancel(c) PROVE Steady'
<1>1. CASE CancelFails(c, "reason") /\ UNCHANGED pool
  BY <1>1, SoundReturn DEF SendCancel, CancelFails, TerminalError, chain
<1>2. CASE /\ pool' = Append(pool, [call |-> c, kind |-> "cancel", index |-> 0])
           /\ Move(c, "cancelSent")
  <2> DEFINE tx == [call |-> c, kind |-> "cancel", index |-> 0]
  <2>1. tx.kind = "cancel" /\ pool' = Append(pool, tx)
    BY <1>2
  <2> HIDE DEF tx
  <2>2. Sound => SoundTx(tx)
    BY <2>1 DEF SendCancel, At, Sound, SoundCall, SoundTx, ClosePoints
  <2> QED BY <1>2, <2>1, <2>2, SoundSend DEF SendCancel, At
<1> QED BY <1>1, <1>2 DEF SendCancel

LEMMA CancelTransientSound ==
  ASSUME IInv, Steady, NEW c \in Calls, CancelTransient(c) PROVE Steady'
BY FailSound DEF CancelTransient

LEMMA CancelReceiptSound == ASSUME IInv, Steady, NEW c \in Calls, CancelReceipt(c) PROVE Steady'
<1>1. UNCHANGED <<chain, announced, failures>> /\ Return(c)
  BY DEF CancelReceipt, CancelFails, TerminalError
<1> QED BY <1>1, SoundReturn

LEMMA InspectSound == ASSUME IInv, Steady, NEW c \in Calls, Inspect(c) PROVE Steady'
<1>1. CASE Fail
  BY <1>1, FailSound
<1>2. CASE ~Fail
  <2>1. /\ UNCHANGED <<chain, announced, failures>>
        /\ Return(c) \/ (Move(c, "inspectCount") /\ expired)
    BY <1>2 DEF Inspect
  <2>2. /\ "inspectCount" \in Points
        /\ "inspectCount" \notin SelectPoints \cup ClosePoints \cup Ranked \cup {"readHinted"}
    BY DEF Points, ReconcilePoints, SelectPoints, ClosePoints, Ranked
  <2> QED BY <2>1, <2>2, SoundMove, SoundReturn
<1> QED BY <1>1, <1>2

\* The reconcile loop hands over an auction with bids, and closes one without.
LEMMA InspectCountSound == ASSUME IInv, Steady, NEW c \in Calls, InspectCount(c) PROVE Steady'
<1>1. CASE Fail
  BY <1>1, FailSound
<1>2. CASE ~Fail
  <2>1. /\ UNCHANGED <<chain, announced, failures>>
        /\ \/ /\ BidCount > 0
              /\ \E d \in Calls \ {c} :
                   call' = [call EXCEPT ![c] = Idle, ![d] = Begun("readHinted")]
           \/ BidCount = 0 /\ BeginClose(c)
    BY <1>2 DEF InspectCount
  <2>2. Sound => expired
    BY DEF InspectCount, At, Sound, SoundCall
  <2>3. bids \in Seq(Agents)
    BY DEF IInv, Shape
  <2>4. CASE BidCount = 0 /\ BeginClose(c)
    <3>1. bids = <<>>
      BY <2>3, <2>4, EmptySeq DEF BidCount
    <3> QED BY <2>1, <2>2, <2>4, <3>1, BeginCloseSound
  <2>5. ASSUME BidCount > 0, NEW d \in Calls \ {c},
               call' = [call EXCEPT ![c] = Idle, ![d] = Begun("readHinted")]
        PROVE  Steady'
    <3>1. bids # <<>>
      BY <2>3, <2>5, EmptySeq DEF BidCount
    <3>2. /\ call'[c] = Idle /\ call'[d] = Begun("readHinted")
          /\ \A e \in Calls \ {c, d} : call'[e] = call[e]
      BY <2>5 DEF IInv, Shape
    <3>3. Sound => SoundCall(Begun("readHinted"))
      BY <2>2, <3>1 DEF SoundCall, Begun, Idle, Ranked, SelectPoints, ClosePoints
    <3> QED BY <2>1, <3>2, <3>3, IdleSound, SoundRead
  <2> QED BY <2>1, <2>4, <2>5
<1> QED BY <1>1, <1>2

LEMMA JoinCloseSound == ASSUME IInv, Steady, NEW c \in Calls, JoinClose(c) PROVE Steady'
BY SoundReturn DEF JoinClose

LEMMA TimerFiresSound == ASSUME IInv, Steady, NEW c \in Calls, TimerFires(c) PROVE Steady'
<1>1. /\ call' = [call EXCEPT ![c] = Begun("readJob")]
      /\ UNCHANGED <<chain, announced, failures>>
  BY DEF TimerFires
<1> QED BY <1>1, IdleSound, SoundCallStep

LEMMA ReportPublishedSound ==
  ASSUME IInv, Steady, NEW c \in Calls, ReportPublished(c) PROVE Steady'
<1>1. CASE Fail
  BY <1>1, FailSound
<1>2. CASE ~Fail
  <2>1. /\ call' = [call EXCEPT ![c] = Begun("readJob")] \/ UNCHANGED call
        /\ UNCHANGED <<chain, announced, failures>>
    BY <1>2 DEF ReportPublished
  <2>2. CASE UNCHANGED call
    BY <2>1, <2>2, SoundRead
  <2> QED BY <2>1, <2>2, IdleSound, SoundCallStep
<1> QED BY <1>1, <1>2

LEMMA ReconcileStartsSound ==
  ASSUME IInv, Steady, NEW c \in Calls, ReconcileStarts(c) PROVE Steady'
<1>1. /\ call' = [call EXCEPT ![c] = Begun("inspect")]
      /\ UNCHANGED <<chain, announced, failures>>
  BY DEF ReconcileStarts
<1> QED BY <1>1, IdleSound, SoundCallStep

LEMMA BootstrapSound == ASSUME Steady, Bootstrap PROVE Steady'
<1>1. CASE Fail
  BY <1>1, FailSound
<1>2. CASE ~Fail
  <2>1. UNCHANGED <<chain, call, announced, failures>>
    BY <1>2 DEF Bootstrap
  <2> QED BY <2>1, SoundRead
<1> QED BY <1>1, <1>2

LEMMA HandleBidSubmittedSound ==
  ASSUME Steady, NEW a \in Agents, HandleBidSubmitted(a) PROVE Steady'
<1>1. UNCHANGED <<chain, call, announced, failures>>
  BY DEF HandleBidSubmitted
<1> QED BY <1>1, SoundRead

LEMMA JobCancelledEventSound == ASSUME Steady, JobCancelledEvent PROVE Steady'
<1>1. UNCHANGED <<chain, call, announced, failures>>
  BY DEF JobCancelledEvent
<1> QED BY <1>1, SoundRead

\* The event names the winner on chain.
LEMMA WinnersSelectedEventSound ==
  ASSUME IInv, Steady, WinnersSelectedEvent PROVE Steady'
<1>1. /\ UNCHANGED <<chain, call, failures>> /\ status = "AUDITING"
      /\ announced' = announced \cup {winner} \/ announced' = announced
  BY DEF WinnersSelectedEvent
<1>2. ASSUME Sound
      PROVE  announced' \subseteq {winner} \ {None}
  <2>1. /\ announced \subseteq {winner} \ {None}
        /\ bids # <<>> /\ winner = bids[BestIndex(bids)] /\ bids \in Seq(Agents)
    BY <1>1, <1>2 DEF Sound, SoundEnd, IInv, Shape
  <2>2. winner \in Agents
    BY <2>1, BestIndexIsBest, ElementOfSeq
  <2> QED BY <1>1, <2>1, <2>2, SlotsAssumption
<1>3. Sound => \A i \in DOMAIN pool' : SoundTx(pool'[i])
  BY <1>1 DEF chain, Sound
<1> QED BY <1>1, <1>2, <1>3, SoundStep DEF chain

\* Before the deadline nobody has learned or sent anything yet.
LEMMA SubmitBidSound == ASSUME Steady, NEW a \in Agents, SubmitBid(a) PROVE Steady'
<1>1. /\ UNCHANGED <<status, winner, expired, pool, call, announced, failures>>
      /\ status = "OPEN" /\ ~expired
  BY DEF SubmitBid, memory
<1> SUFFICES ASSUME Sound
             PROVE  Sound'
  BY <1>1 DEF Steady
<1>2. SoundEnd'
  BY <1>1 DEF Sound, SoundEnd
<1>3. ASSUME NEW c \in Calls
      PROVE  SoundCall(call[c])'
  <2>1. SoundCall(call[c]) /\ call'[c] = call[c]
    BY <1>1 DEF Sound
  <2> QED BY <1>1, <2>1 DEF SoundCall, Ranked, SelectPoints
<1>4. ASSUME NEW i \in DOMAIN pool'
      PROVE  SoundTx(pool[i])'
  BY <1>1 DEF Sound, SoundTx
<1> QED BY <1>2, <1>3, <1>4 DEF Sound

LEMMA ExpireSound == ASSUME Steady, Expire PROVE Steady'
<1>1. /\ UNCHANGED <<status, bids, winner, pool, call, announced, failures>> /\ expired' = TRUE
  BY DEF Expire, memory
<1> SUFFICES ASSUME Sound
             PROVE  Sound'
  BY <1>1 DEF Steady
<1>2. SoundEnd'
  BY <1>1 DEF Sound, SoundEnd
<1>3. ASSUME NEW c \in Calls
      PROVE  SoundCall(call[c])'
  <2>1. SoundCall(call[c]) /\ call'[c] = call[c]
    BY <1>1 DEF Sound
  <2> QED BY <1>1, <2>1 DEF SoundCall
<1>4. ASSUME NEW i \in DOMAIN pool'
      PROVE  SoundTx(pool[i])'
  BY <1>1 DEF Sound, SoundTx
<1> QED BY <1>2, <1>3, <1>4 DEF Sound

\* What is mined first ends the auction rightly; what comes later reverts.
LEMMA MineSound == ASSUME IInv, Steady, Mine PROVE Steady'
<1> DEFINE tx == Head(pool)
           ok == Succeeds(tx)
           place == Outcome(tx.kind, ok)
<1>1. pool \in Seq(Tx) /\ pool # <<>> /\ tx = pool[1] /\ 1 \in DOMAIN pool
  BY EmptySeq DEF Mine, IInv, Shape
<1>2. tx.kind \in {"select", "cancel"}
  BY <1>1, PoolEntry DEF Tx
<1>3. \A i \in DOMAIN pool' : pool'[i] = pool[i + 1] /\ i + 1 \in DOMAIN pool
  <2>1. pool' = Tail(pool)
    BY DEF Mine
  <2> HIDE DEF Tx
  <2> QED BY <1>1, <2>1, HeadTailProperties
<1>4. /\ status' = IF ~ok THEN status ELSE IF tx.kind = "select" THEN "AUDITING" ELSE "CANCELLED"
      /\ winner' = IF ok /\ tx.kind = "select" THEN bids[tx.index] ELSE winner
      /\ call' = IF tx.call = None THEN call ELSE [call EXCEPT ![tx.call].at = place]
      /\ UNCHANGED <<bids, expired, announced, failures>>
  BY DEF Mine
<1>5. ok => status = "OPEN"
  BY DEF Succeeds
<1>6. tx.call # None => tx.call \in Calls /\ call[tx.call].at = Sent(tx.kind)
  BY <1>1, PoolEntry DEF IInv, SendersWait, Tx
<1>7. /\ tx.kind = "select" => place = IF ok THEN "selectMined" ELSE "selectReverted"
      /\ tx.kind = "cancel" => place \in {"cancelMined", "cancelReverted"}
  BY <1>2 DEF Outcome
<1> HIDE DEF tx, ok, place
<1> SUFFICES ASSUME Sound
             PROVE  Sound'
  BY <1>4 DEF Steady
<1>8. SoundTx(tx)
  BY <1>1 DEF Sound
<1>9. SoundEnd'
  BY <1>2, <1>4, <1>5, <1>8 DEF Sound, SoundEnd, SoundTx
<1>10. ASSUME NEW c \in Calls
       PROVE  SoundCall(call[c])'
  <2>1. SoundCall(call[c]) /\ (status = "AUDITING" => status' = "AUDITING")
    BY <1>4, <1>5 DEF Sound
  <2>2. CASE c # tx.call \/ tx.call = None
    <3>1. call'[c] = call[c]
      BY <1>4, <1>6, <2>2 DEF IInv, Shape
    <3> QED BY <1>4, <2>1, <3>1 DEF SoundCall
  <2>3. CASE c = tx.call /\ tx.call # None
    <3> DEFINE r == [call[c] EXCEPT !.at = place]
    <3>1. call'[c] = r /\ call[c] \in Call
      BY <1>4, <2>3 DEF IInv, Shape
    <3>2. r.at = place /\ r.late = call[c].late /\ r.index = call[c].index /\ r.pick = call[c].pick
      BY <3>1 DEF Call
    <3> HIDE DEF r
    <3>3. CASE tx.kind = "select"
      <4>1. call[c].at = "selectSent" /\ place \in {"selectMined", "selectReverted"}
            /\ (place = "selectMined" => status' = "AUDITING")
        BY <1>4, <1>6, <1>7, <2>3, <3>3 DEF Sent
      <4> QED BY <1>4, <2>1, <3>1, <3>2, <4>1 DEF SoundCall, Ranked, SelectPoints, ClosePoints
    <3>4. CASE tx.kind = "cancel"
      <4>1. place \in {"cancelMined", "cancelReverted"}
        BY <1>7, <3>4
      <4> QED BY <1>4, <1>8, <2>1, <3>1, <3>2, <3>4, <4>1
              DEF SoundCall, SoundTx, Ranked, SelectPoints
    <3> QED BY <1>2, <3>3, <3>4
  <2> QED BY <2>2, <2>3
<1>11. ASSUME NEW i \in DOMAIN pool'
       PROVE  SoundTx(pool[i])'
  BY <1>3, <1>4 DEF Sound, SoundTx
<1> QED BY <1>9, <1>10, <1>11 DEF Sound

\* What was sent before the restart stays as right as it was.
LEMMA CrashSound == ASSUME IInv, Steady, Crash PROVE Steady'
<1>1. /\ UNCHANGED <<status, bids, winner, expired, announced, failures>>
      /\ call' = [c \in Calls |-> Idle] /\ pool' = Orphaned(pool, Calls)
  BY DEF Crash
<1>2. pool \in Seq(Tx) /\ DOMAIN pool' = DOMAIN pool
  BY <1>1 DEF Orphaned, IInv, Shape
<1>3. ASSUME NEW i \in DOMAIN pool
      PROVE  pool'[i].kind = pool[i].kind /\ pool'[i].index = pool[i].index
  <2>1. pool[i] \in Tx
    BY PoolEntry
  <2>2. pool'[i] = IF pool[i].call \in Calls THEN [pool[i] EXCEPT !.call = None] ELSE pool[i]
    BY <1>1 DEF Orphaned
  <2> QED BY <2>1, <2>2 DEF Tx
<1>4. Sound => \A i \in DOMAIN pool' : SoundTx(pool'[i])
  BY <1>2, <1>3 DEF Sound, SoundTx
<1>5. Sound => announced' \subseteq {winner} \ {None}
  BY <1>1 DEF Sound, SoundEnd
<1> QED BY <1>1, <1>4, <1>5, IdleSound, SoundStep

LEMMA InitSound == ASSUME Init PROVE Steady
<1>1. \A c \in Calls : call[c] = Idle
  BY DEF Init
<1>2. pool = <<>> /\ DOMAIN pool = {} /\ status = "OPEN" /\ winner = None /\ announced = {}
      /\ failures = 0
  BY DEF Init
<1> QED BY <1>1, <1>2, IdleSound DEF Steady, Sound, SoundEnd

LEMMA NextSound == ASSUME IInv, Steady, [Next]_vars PROVE Steady'
<1>1. CASE UNCHANGED vars
  BY <1>1, SoundRead DEF vars, memory
<1>2. ASSUME NEW c \in Calls, Continue(c)
      PROVE  Steady'
  BY <1>2, ReadJobSound, ReadCountSound, ReadHintedSound, HydrateSound, PrecheckSound,
     ReadBidsSound, SendSelectSound, SelectTransientSound, SelectReceiptSound, SendCancelSound,
     CancelTransientSound, CancelReceiptSound, JoinCloseSound, InspectSound, InspectCountSound
  DEF Continue
<1>3. ASSUME NEW c \in Calls, TimerFires(c) \/ ReportPublished(c) \/ ReconcileStarts(c)
      PROVE  Steady'
  BY <1>3, TimerFiresSound, ReportPublishedSound, ReconcileStartsSound
<1>4. ASSUME NEW a \in Agents, HandleBidSubmitted(a) \/ SubmitBid(a)
      PROVE  Steady'
  BY <1>4, HandleBidSubmittedSound, SubmitBidSound
<1>5. CASE Bootstrap \/ WinnersSelectedEvent \/ JobCancelledEvent \/ Expire \/ Mine \/ Crash
  BY <1>5, BootstrapSound, WinnersSelectedEventSound, JobCancelledEventSound, ExpireSound,
     MineSound, CrashSound
<1> QED BY <1>1, <1>2, <1>3, <1>4, <1>5 DEF Next

\* The bids are fixed when the first call learns that the deadline has passed,
\* so that without a failed read everything learned, sent, mined and announced
\* is about the best bid of the final list, or about an auction without bids.
THEOREM SteadyHolds == Spec => []Steady
<1>1. Init => Steady
  BY InitSound
<1>2. IInv /\ Steady /\ [Next]_vars => Steady'
  BY NextSound
<1> QED BY <1>1, <1>2, InductiveInvariant, PTL DEF Spec

\* While the reads succeed, the winner on chain has the highest score of all the
\* bids, WINNER_SELECTED names it and nobody else, and an auction is cancelled
\* only if nobody has bid, through any interleaving of selections,
\* cancellations, timers, reports, the reconcile loop and restarts.
THEOREM BestBidWinsHolds == Spec => []BestBidWins
<1>1. IInv /\ Steady => BestBidWins
  <2> SUFFICES ASSUME IInv, Sound
               PROVE  /\ status = "AUDITING" =>
                           \A i \in DOMAIN bids : Score[bids[i]] <= Score[winner]
                      /\ announced \subseteq {winner} \ {None}
                      /\ status = "CANCELLED" => bids = <<>>
    BY DEF Steady, BestBidWins
  <2>1. bids \in Seq(Agents)
    BY DEF IInv, Shape
  <2> QED BY <2>1, BestIndexIsBest DEF Sound, SoundEnd
<1> QED BY <1>1, InductiveInvariant, SteadyHolds, PTL

-----------------------------------------------------------------------------
(***************************************************************************)
(* The chain of Hedera schedules.                                          *)
(***************************************************************************)

ScheduleRecord == [active : BOOLEAN, mode : {"timed", "redeploy"}, current : Nat]

\* Nothing is pending but what the record names, unless somebody triggered an
\* audit by hand.
ChainInv ==
    /\ sched \in ScheduleRecord /\ created \in Nat /\ byHand \in BOOLEAN
    /\ ~byHand => /\ pending = IF sched.current = 0 THEN {} ELSE {sched.current}
                  /\ sched.active /\ sched.mode = "timed" => sched.current # 0
                  /\ ~sched.active => sched.current = 0

\* A schedule is created, or the record deactivated, when no other is pending.
LEMMA CreateKeeps ==
  ASSUME created \in Nat, NEW s \in ScheduleRecord, s.active, NEW left, byHand' \in BOOLEAN,
         ~byHand' => left = {}, Scheduled!CreateSchedule(s, left)
  PROVE  ChainInv'
<1>1. CASE /\ created' = created + 1
           /\ sched' = [s EXCEPT !.current = created + 1]
           /\ pending' = left \cup {created + 1}
  <2>1. /\ sched' \in ScheduleRecord /\ sched'.current = created + 1 /\ sched'.active
        /\ created + 1 # 0 /\ created' \in Nat
    BY <1>1 DEF ScheduleRecord
  <2> QED BY <1>1, <2>1 DEF ChainInv
<1>2. CASE /\ UNCHANGED created
           /\ sched' = Scheduled!Inactive(s) /\ pending' = left \ {s.current}
  <2>1. sched' \in ScheduleRecord /\ sched'.current = 0 /\ ~sched'.active
    BY <1>2 DEF ScheduleRecord, Scheduled!Inactive
  <2> QED BY <1>2, <2>1 DEF ChainInv
<1> QED BY <1>1, <1>2 DEF Scheduled!CreateSchedule

\* triggerAudit, called by Hedera or by hand.
LEMMA TriggerKeeps ==
  ASSUME ChainInv, NEW left, byHand' \in BOOLEAN, ~byHand' => left = {}, Scheduled!TriggerAudit(left)
  PROVE  ChainInv'
<1>1. PICK s : s = [sched EXCEPT !.current = 0] OBVIOUS
<1>2. s \in ScheduleRecord /\ s.active /\ s.current = 0 /\ s.mode = sched.mode
  BY <1>1 DEF ChainInv, ScheduleRecord, Scheduled!TriggerAudit
<1>3. CASE sched.mode = "timed"
  <2>1. Scheduled!CreateSchedule(s, left) BY <1>1, <1>3 DEF Scheduled!TriggerAudit
  <2> QED BY <1>2, <2>1, CreateKeeps DEF ChainInv
<1>4. CASE sched.mode # "timed"
  <2>1. sched' = s /\ pending' = left /\ UNCHANGED created BY <1>1, <1>4 DEF Scheduled!TriggerAudit
  <2> QED BY <1>2, <1>4, <2>1 DEF ChainInv
<1> QED BY <1>3, <1>4

LEMMA ScheduleKeeps ==
  ASSUME ChainInv, NEW mode \in {"timed", "redeploy"}, Scheduled!ScheduleAudit(mode)
  PROVE  ChainInv'
<1>1. PICK s, left : s = [sched EXCEPT !.mode = mode, !.active = TRUE]
                     /\ left = pending \ Scheduled!Replaced(sched)
  OBVIOUS
<1>2. s \in ScheduleRecord /\ s.active /\ s.mode = mode BY <1>1 DEF ChainInv, ScheduleRecord
<1>3. byHand' = byHand BY DEF Scheduled!ScheduleAudit
<1>4. ~byHand' => left = {} BY <1>1, <1>3 DEF ChainInv, Scheduled!Replaced
<1>5. CASE mode = "timed"
  <2>1. Scheduled!CreateSchedule(s, left) BY <1>1, <1>5 DEF Scheduled!ScheduleAudit
  <2> QED BY <1>2, <1>3, <1>4, <2>1, CreateKeeps DEF ChainInv
<1>6. CASE mode # "timed"
  <2>1. sched' = [s EXCEPT !.current = 0] /\ pending' = left /\ UNCHANGED created
    BY <1>1, <1>6 DEF Scheduled!ScheduleAudit
  <2>2. sched' \in ScheduleRecord /\ sched'.current = 0 /\ sched'.mode = mode /\ sched'.active
    BY <1>2, <2>1 DEF ScheduleRecord
  <2> QED BY <1>3, <1>4, <1>6, <2>1, <2>2 DEF ChainInv
<1> QED BY <1>5, <1>6

LEMMA CancelKeeps == ASSUME ChainInv, Scheduled!CancelSchedule PROVE ChainInv'
<1>1. /\ pending' = pending \ {sched.current} /\ sched' = Scheduled!Inactive(sched)
      /\ UNCHANGED <<created, byHand>>
  BY DEF Scheduled!CancelSchedule
<1>2. sched' \in ScheduleRecord /\ sched'.current = 0 /\ ~sched'.active
  BY <1>1 DEF ChainInv, ScheduleRecord, Scheduled!Inactive
<1> QED BY <1>1, <1>2 DEF ChainInv

LEMMA RedeployKeeps == ASSUME ChainInv, Scheduled!OnRedeployDetected PROVE ChainInv'
<1>1. PICK s, left : s = [sched EXCEPT !.current = 0] /\ left = pending \ {sched.current} OBVIOUS
<1>2. s \in ScheduleRecord /\ s.active
  BY <1>1 DEF ChainInv, ScheduleRecord, Scheduled!OnRedeployDetected
<1>3. byHand' = byHand /\ Scheduled!CreateSchedule(s, left) BY <1>1 DEF Scheduled!OnRedeployDetected
<1>4. ~byHand' => left = {} BY <1>1, <1>3 DEF ChainInv
<1> QED BY <1>2, <1>3, <1>4, CreateKeeps DEF ChainInv

\* The schedule that fires is the one that the record names.
LEMMA FireKeeps == ASSUME ChainInv, NEW id, Scheduled!Fire(id) PROVE ChainInv'
<1>1. id \in pending BY DEF Scheduled!Fire
<1>2. CASE Scheduled!TriggerAudit(pending \ {id}) /\ UNCHANGED byHand
  <2>1. PICK left : left = pending \ {id} OBVIOUS
  <2>2. ~byHand' => left = {} BY <1>1, <1>2, <2>1 DEF ChainInv
  <2>3. byHand' \in BOOLEAN /\ Scheduled!TriggerAudit(left) BY <1>2, <2>1 DEF ChainInv
  <2> QED BY <2>2, <2>3, TriggerKeeps
<1>3. CASE ~sched.active /\ pending' = pending \ {id} /\ UNCHANGED <<sched, created, byHand>>
  BY <1>1, <1>3 DEF ChainInv
<1> QED BY <1>2, <1>3 DEF Scheduled!Fire

LEMMA ByHandKeeps == ASSUME ChainInv, Scheduled!TriggerByHand PROVE ChainInv'
<1>1. PICK left : left = pending OBVIOUS
<1>2. byHand' = TRUE /\ Scheduled!TriggerAudit(left) BY <1>1 DEF Scheduled!TriggerByHand
<1>3. byHand' \in BOOLEAN /\ (~byHand' => left = {}) BY <1>2
<1> QED BY <1>2, <1>3, TriggerKeeps

\* However often a schedule is replaced, cancelled, fired or refused, there is
\* one chain of Hedera schedules, unless somebody triggers an audit by hand.
THEOREM OneChainHolds == Scheduled!Spec => []OneChain
<1>1. Scheduled!Init => ChainInv
  <2> SUFFICES ASSUME Scheduled!Init PROVE ChainInv OBVIOUS
  <2>1. /\ sched = [active |-> FALSE, mode |-> "timed", current |-> 0]
        /\ pending = {} /\ created = 0 /\ byHand = FALSE
    BY DEF Scheduled!Init
  <2>2. sched \in ScheduleRecord /\ sched.active = FALSE /\ sched.current = 0
    BY <2>1 DEF ScheduleRecord
  <2> QED BY <2>1, <2>2 DEF ChainInv
<1>2. ChainInv /\ [Scheduled!Next]_Scheduled!scheduleVars => ChainInv'
  <2> SUFFICES ASSUME ChainInv, [Scheduled!Next]_Scheduled!scheduleVars PROVE ChainInv' OBVIOUS
  <2>1. CASE UNCHANGED <<sched, pending, created, byHand>> BY <2>1 DEF ChainInv
  <2>2. CASE Scheduled!Next
    <3>1. ASSUME NEW mode \in {"timed", "redeploy"}, Scheduled!ScheduleAudit(mode) PROVE ChainInv'
      BY <3>1, ScheduleKeeps
    <3>2. ASSUME NEW t, Scheduled!Handling(t) PROVE UNCHANGED <<sched, pending, created, byHand>>
      BY <3>2 DEF Scheduled!Handling, Scheduled!AuditTriggered, Scheduled!PublishDiscovery,
                  Scheduled!DiscoverySettles, Scheduled!ReportFailure, Scheduled!contractVars
    <3>3. ASSUME Scheduled!Retrying \/ Scheduled!Restart PROVE UNCHANGED <<sched, pending, created, byHand>>
      BY <3>3 DEF Scheduled!Retrying, Scheduled!RetryTick, Scheduled!RetryPublishes,
                  Scheduled!RetrySettles, Scheduled!RetryReports, Scheduled!Restart, Scheduled!contractVars
    <3> QED BY <2>1, <2>2, <3>1, <3>2, <3>3, CancelKeeps, ByHandKeeps, RedeployKeeps, FireKeeps
            DEF Scheduled!Next
  <2>3. CASE UNCHANGED Scheduled!scheduleVars
    BY <2>1, <2>3 DEF Scheduled!scheduleVars, Scheduled!contractVars
  <2> QED BY <2>2, <2>3
<1>3. ChainInv => OneChain BY DEF ChainInv, OneChain, Scheduled!OneChain
<1> QED BY <1>1, <1>2, <1>3, PTL DEF Scheduled!Spec

-----------------------------------------------------------------------------
(***************************************************************************)
(* Slashes of an agent and of its delegators.                              *)
(***************************************************************************)

\* The appeal has ended for good and the orchestrator has not heard of it.
Unheard(s) == \E event \in Slashes!Final : <<event, s>> \in heralds

\* A slash that is final is announced once; then it is sent once; then it has
\* been paid.  Each excludes the others, unless DelegatedStaking does not obey
\* the orchestrator: then a slash is paid at most when it is initiated.
OneStage(s) ==
    /\ propagated[s] \in {0, 1}
    /\ appealStatus[s] = "none" => propagated[s] = 0
    /\ appealStatus[s] # "denied" => ~Unheard(s) /\ s \notin calls
    /\ ~(<<"AppealDenied", s>> \in heralds /\ <<"AppealExpired", s>> \in heralds)
    /\ s \in calls => ~Unheard(s)
    /\ ~Slashes!Direct /\ appealStatus[s] # "denied" => propagated[s] = 0
    /\ Slashes!Obeys("orchestrator") /\ (Unheard(s) \/ s \in calls) => propagated[s] = 0

RelayInv ==
    /\ DOMAIN appealStatus = SlashIds /\ propagated \in [SlashIds -> Nat]
    /\ heralds \subseteq {"SlashInitiated", "AppealDenied", "AppealExpired"} \X SlashIds
    /\ calls \subseteq SlashIds
    /\ \A s \in SlashIds : OneStage(s)

\* DelegatedStaking obeys one of the two.
LEMMA OneMaster == Slashes!Direct => ~Slashes!Obeys("orchestrator")
BY DEF Slashes!Direct, Slashes!Obeys

\* What StakingManager does: a record that is not denied yet may become so, and
\* then one event tells of it; and where it asks for the payment itself, a record
\* that has just come to be may be paid for.
LEMMA VerdictKeeps ==
  ASSUME RelayInv, NEW ended \in SUBSET SlashIds, NEW verdict, NEW events, verdict # "none",
         \A s \in ended : appealStatus[s] # "denied",
         DOMAIN appealStatus' = SlashIds,
         \A s \in SlashIds : appealStatus'[s] = IF s \in ended THEN verdict ELSE appealStatus[s],
         heralds' = heralds \cup events, UNCHANGED <<wiring, calls>>,
         propagated' \in [SlashIds -> Nat],
         \A s \in SlashIds :
            \/ propagated'[s] = propagated[s]
            \/ /\ s \in ended /\ Slashes!Direct /\ appealStatus[s] = "none"
               /\ propagated'[s] = propagated[s] + 1,
         \/ /\ verdict # "denied" /\ events \subseteq {"SlashInitiated"} \X SlashIds
         \/ \E event \in Slashes!Final : verdict = "denied" /\ events = {event} \X ended
  PROVE  RelayInv'
<1>1. heralds' \subseteq {"SlashInitiated", "AppealDenied", "AppealExpired"} \X SlashIds
  BY DEF RelayInv, Slashes!Final
<1>2. /\ Slashes!Direct' = Slashes!Direct
      /\ Slashes!Obeys("orchestrator")' = Slashes!Obeys("orchestrator")
  BY DEF Slashes!Direct, Slashes!Obeys
<1>3. ASSUME NEW s \in SlashIds PROVE OneStage(s)'
  <2>1. OneStage(s)
    BY DEF RelayInv
  <2>2. CASE s \notin ended
    <3>1. \A event \in Slashes!Final : <<event, s>> \in heralds' <=> <<event, s>> \in heralds
      BY <2>2 DEF Slashes!Final
    <3>2. propagated'[s] = propagated[s]
      BY <2>2
    <3> QED BY <1>2, <2>1, <2>2, <3>1, <3>2 DEF OneStage, Unheard, Slashes!Final
  <2>3. CASE s \in ended /\ verdict # "denied" /\ events \subseteq {"SlashInitiated"} \X SlashIds
    <3>1. \A event \in Slashes!Final : <<event, s>> \in heralds' <=> <<event, s>> \in heralds
      BY <2>3 DEF Slashes!Final
    <3>2. /\ propagated'[s] \in {0, 1}
          /\ ~Slashes!Direct \/ Slashes!Obeys("orchestrator") => propagated'[s] = propagated[s]
      BY <2>1, OneMaster DEF OneStage
    <3>3. appealStatus[s] # "denied" /\ appealStatus'[s] = verdict
      BY <2>3
    <3> QED BY <1>2, <2>1, <2>3, <3>1, <3>2, <3>3 DEF OneStage, Unheard, Slashes!Final
  <2>4. CASE /\ s \in ended /\ verdict = "denied"
             /\ \E event \in Slashes!Final : events = {event} \X ended
    <3>1. PICK event \in Slashes!Final : events = {event} \X ended
      BY <2>4
    <3>2. appealStatus[s] # "denied" /\ appealStatus'[s] = "denied"
      BY <2>4
    <3>3. ~Unheard(s) /\ s \notin calls /\ (~Slashes!Direct => propagated[s] = 0)
      BY <2>1, <3>2 DEF OneStage
    <3>4. \A other \in Slashes!Final : <<other, s>> \in heralds' <=> other = event
      BY <2>4, <3>1, <3>3 DEF Unheard
    <3>5. ~(<<"AppealDenied", s>> \in heralds' /\ <<"AppealExpired", s>> \in heralds')
      BY <3>4 DEF Slashes!Final
    <3>6. /\ propagated'[s] \in {0, 1}
          /\ Slashes!Obeys("orchestrator") => propagated'[s] = 0
      BY <2>1, <3>3, OneMaster DEF OneStage
    <3> QED BY <1>2, <3>2, <3>3, <3>5, <3>6 DEF OneStage
  <2> QED BY <2>2, <2>3, <2>4
<1> QED BY <1>1, <1>3 DEF RelayInv

\* What StakingManager does to one record that has been there.
LEMMA VerdictOf ==
  ASSUME RelayInv, NEW s \in SlashIds, appealStatus[s] # "denied", NEW verdict, NEW event,
         verdict # "none",
         appealStatus' = [appealStatus EXCEPT ![s] = verdict],
         heralds' = heralds \cup event, UNCHANGED <<wiring, calls, propagated>>,
         \/ verdict # "denied" /\ event \subseteq {<<"SlashInitiated", s>>}
         \/ verdict = "denied" /\ event = {<<"AppealDenied", s>>}
  PROVE  RelayInv'
<1>1. /\ DOMAIN appealStatus' = SlashIds
      /\ \A u \in SlashIds : appealStatus'[u] = IF u \in {s} THEN verdict ELSE appealStatus[u]
  BY DEF RelayInv
<1>2. \/ /\ verdict # "denied" /\ event \subseteq {"SlashInitiated"} \X SlashIds
      \/ \E e \in Slashes!Final : verdict = "denied" /\ event = {e} \X {s}
  BY DEF Slashes!Final
<1>3. /\ {s} \in SUBSET SlashIds /\ \A u \in {s} : appealStatus[u] # "denied"
      /\ UNCHANGED <<wiring, calls>> /\ heralds' = heralds \cup event /\ verdict # "none"
  OBVIOUS
<1>4. RelayInv /\ propagated' \in [SlashIds -> Nat]
  BY DEF RelayInv
<1>5. \A u \in SlashIds :
        \/ propagated'[u] = propagated[u]
        \/ /\ u \in {s} /\ Slashes!Direct /\ appealStatus[u] = "none"
           /\ propagated'[u] = propagated[u] + 1
  OBVIOUS
<1> QED BY ONLY <1>1, <1>2, <1>3, <1>4, <1>5, VerdictKeeps

\* A new record, whose payment StakingManager may ask for at once.
LEMMA InitiateKeeps ==
  ASSUME RelayInv, NEW s \in SlashIds, Slashes!InitiateSlash(s)
  PROVE  RelayInv'
<1>1. /\ appealStatus[s] = "none" /\ appealStatus' = [appealStatus EXCEPT ![s] = "pending"]
      /\ heralds' = heralds \cup {<<"SlashInitiated", s>>} /\ UNCHANGED <<wiring, calls>>
  BY DEF Slashes!InitiateSlash, Slashes!Becomes
<1>2. \/ Slashes!Direct /\ propagated' = [propagated EXCEPT ![s] = @ + 1]
      \/ UNCHANGED propagated
  BY DEF Slashes!InitiateSlash, Slashes!Mined
<1>3. /\ DOMAIN appealStatus' = SlashIds
      /\ \A u \in SlashIds : appealStatus'[u] = IF u \in {s} THEN "pending" ELSE appealStatus[u]
  BY <1>1 DEF RelayInv
<1>4. propagated \in [SlashIds -> Nat]
  BY DEF RelayInv
<1>5. propagated' \in [SlashIds -> Nat]
  BY <1>2, <1>4
<1>6. \A u \in SlashIds :
        \/ propagated'[u] = propagated[u]
        \/ /\ u \in {s} /\ Slashes!Direct /\ appealStatus[u] = "none"
           /\ propagated'[u] = propagated[u] + 1
  BY <1>1, <1>2, <1>4
<1>7. /\ {s} \in SUBSET SlashIds /\ \A u \in {s} : appealStatus[u] # "denied"
      /\ "pending" # "none" /\ "pending" # "denied"
      /\ {<<"SlashInitiated", s>>} \subseteq {"SlashInitiated"} \X SlashIds
      /\ heralds' = heralds \cup {<<"SlashInitiated", s>>} /\ UNCHANGED <<wiring, calls>>
  BY <1>1
<1>8. RelayInv
  OBVIOUS
<1> QED BY ONLY <1>3, <1>5, <1>6, <1>7, <1>8, VerdictKeeps

\* What the orchestrator hears and sends.
LEMMA RelayKeeps ==
  ASSUME RelayInv, NEW u \in SlashIds, Slashes!Relay(u)
  PROVE  RelayInv'
<1>1. calls \subseteq SlashIds /\ propagated \in [SlashIds -> Nat]
  BY DEF RelayInv
<1>2. UNCHANGED <<wiring, appealStatus>> /\ heralds' \subseteq heralds /\ calls' \subseteq calls \cup {u}
  <2>1. CASE Slashes!SlashInitiated(u)
    BY <2>1 DEF Slashes!SlashInitiated
  <2>2. CASE \E event \in Slashes!Final : Slashes!FinalizeSlash(u, event)
    BY <2>2 DEF Slashes!FinalizeSlash
  <2>3. CASE Slashes!Propagate(u)
    BY <2>3 DEF Slashes!Propagate
  <2> QED BY <2>1, <2>2, <2>3 DEF Slashes!Relay
<1>3. /\ Slashes!Direct' = Slashes!Direct
      /\ Slashes!Obeys("orchestrator")' = Slashes!Obeys("orchestrator")
  BY <1>2 DEF Slashes!Direct, Slashes!Obeys
<1>4. propagated' \in [SlashIds -> Nat]
  <2>1. UNCHANGED propagated \/ propagated' = [propagated EXCEPT ![u] = @ + 1]
    BY DEF Slashes!Relay, Slashes!SlashInitiated, Slashes!FinalizeSlash, Slashes!Propagate,
       Slashes!Mined
  <2> QED BY <1>1, <2>1
<1>5. ASSUME NEW s \in SlashIds PROVE OneStage(s)'
  <2>1. OneStage(s)
    BY DEF RelayInv
  <2>2. CASE Slashes!SlashInitiated(u)
    <3>1. UNCHANGED <<appealStatus, calls, propagated>>
      BY <2>2 DEF Slashes!SlashInitiated
    <3> QED BY <1>2, <1>3, <2>1, <3>1 DEF OneStage, Unheard
  <2>3. ASSUME NEW event \in Slashes!Final, Slashes!FinalizeSlash(u, event)
        PROVE  OneStage(s)'
    <3>1. /\ <<event, u>> \in heralds /\ heralds' = heralds \ {<<event, u>>}
          /\ calls' \subseteq calls \cup {u} /\ UNCHANGED propagated
      BY <2>3 DEF Slashes!FinalizeSlash
    <3>2. CASE s # u
      BY <1>2, <1>3, <2>1, <3>1, <3>2 DEF OneStage, Unheard
    <3>3. CASE s = u
      <4>1. ~Unheard(s)'
        BY <2>1, <3>1, <3>3 DEF OneStage, Unheard, Slashes!Final
      <4>2. Unheard(s)
        BY <3>1, <3>3 DEF Unheard
      <4> QED BY <1>2, <1>3, <2>1, <3>1, <3>3, <4>1, <4>2 DEF OneStage, Unheard
    <3> QED BY <3>2, <3>3
  <2>4. CASE Slashes!Propagate(u)
    <3>1. /\ u \in calls /\ calls' = calls \ {u} /\ UNCHANGED heralds
          /\ \/ Slashes!Obeys("orchestrator") /\ propagated' = [propagated EXCEPT ![u] = @ + 1]
             \/ UNCHANGED propagated
      BY <2>4 DEF Slashes!Propagate, Slashes!Mined
    <3>2. CASE s # u
      BY <1>2, <1>3, <2>1, <3>1, <3>2 DEF OneStage, Unheard, RelayInv
    <3>3. CASE s = u
      <4>1. appealStatus[s] = "denied" /\ ~Unheard(s) /\ propagated'[s] \in {0, 1}
        BY <2>1, <3>1, <3>3 DEF OneStage, RelayInv
      <4> QED BY <1>2, <1>3, <2>1, <3>1, <3>3, <4>1 DEF OneStage, Unheard
    <3> QED BY <3>2, <3>3
  <2> QED BY <2>2, <2>3, <2>4 DEF Slashes!Relay
<1>6. /\ DOMAIN appealStatus' = SlashIds /\ calls' \subseteq SlashIds
      /\ heralds' \subseteq {"SlashInitiated", "AppealDenied", "AppealExpired"} \X SlashIds
  BY <1>1, <1>2 DEF RelayInv
<1> QED BY <1>4, <1>5, <1>6 DEF RelayInv

LEMMA RelayRestarts ==
  ASSUME RelayInv, Slashes!Restart
  PROVE  RelayInv'
<1>1. UNCHANGED <<wiring, appealStatus>> /\ heralds' = {} /\ calls' = {}
  BY DEF Slashes!Restart
<1>2. /\ Slashes!Direct' = Slashes!Direct
      /\ Slashes!Obeys("orchestrator")' = Slashes!Obeys("orchestrator")
  BY <1>1 DEF Slashes!Direct, Slashes!Obeys
<1>3. PICK mined \in SUBSET {s \in calls : Slashes!Obeys("orchestrator")} :
        propagated' = [s \in SlashIds |-> propagated[s] + IF s \in mined THEN 1 ELSE 0]
  BY DEF Slashes!Restart
<1>4. propagated' \in [SlashIds -> Nat]
  BY <1>3 DEF RelayInv
<1>5. ASSUME NEW s \in SlashIds PROVE OneStage(s)'
  <2>1. OneStage(s) /\ propagated'[s] = propagated[s] + IF s \in mined THEN 1 ELSE 0
    BY <1>3 DEF RelayInv
  <2>2. CASE s \in mined
    <3>1. s \in calls /\ Slashes!Obeys("orchestrator")
      BY <2>2
    <3> QED BY <1>1, <1>2, <2>1, <2>2, <3>1 DEF OneStage, Unheard
  <2>3. CASE s \notin mined
    BY <1>1, <1>2, <2>1, <2>3 DEF OneStage, Unheard
  <2> QED BY <2>2, <2>3
<1> QED BY <1>1, <1>4, <1>5 DEF RelayInv

\* For any slashes, in whatever order their events are heard, and with any
\* failures and restarts, propagateSlash takes effect at most once for each,
\* although StakingManager and the orchestrator both ask for it; and unless it is
\* StakingManager that DelegatedStaking obeys, only when its appeal has failed.
THEOREM PayAtMostOnceHolds == Slashes!Spec => []Slashes!PayAtMostOnce
<1>1. Slashes!Init => RelayInv
  BY DEF Slashes!Init, RelayInv, OneStage, Unheard
<1>2. RelayInv /\ [Slashes!Next]_(Slashes!slashVars) => RelayInv'
  <2> SUFFICES ASSUME RelayInv, [Slashes!Next]_(Slashes!slashVars)
               PROVE  RelayInv'
    OBVIOUS
  <2>1. ASSUME NEW s \in SlashIds, Slashes!InitiateSlash(s) PROVE RelayInv'
    BY <2>1, InitiateKeeps
  <2>2. ASSUME NEW s \in SlashIds, Slashes!FileAppeal(s) PROVE RelayInv'
    <3>1. /\ appealStatus[s] # "denied" /\ appealStatus' = [appealStatus EXCEPT ![s] = "appealed"]
          /\ heralds' = heralds \cup {} /\ UNCHANGED <<wiring, calls, propagated>>
      BY <2>2 DEF Slashes!FileAppeal, Slashes!Announced, Slashes!Becomes
    <3> QED BY <3>1, VerdictOf
  <2>3. ASSUME NEW s \in SlashIds, Slashes!ResolveAppeal(s) PROVE RelayInv'
    <3>1. /\ appealStatus[s] # "denied" /\ UNCHANGED <<wiring, calls, propagated>>
          /\ \/ /\ appealStatus' = [appealStatus EXCEPT ![s] = "approved"]
                /\ heralds' = heralds \cup {}
             \/ /\ appealStatus' = [appealStatus EXCEPT ![s] = "denied"]
                /\ heralds' = heralds \cup {<<"AppealDenied", s>>}
      BY <2>3 DEF Slashes!ResolveAppeal, Slashes!Announced, Slashes!Becomes
    <3>2. CASE /\ appealStatus' = [appealStatus EXCEPT ![s] = "approved"]
               /\ heralds' = heralds \cup {}
      BY <3>1, <3>2, VerdictOf
    <3>3. CASE /\ appealStatus' = [appealStatus EXCEPT ![s] = "denied"]
               /\ heralds' = heralds \cup {<<"AppealDenied", s>>}
      BY <3>1, <3>3, VerdictOf
    <3> QED BY <3>1, <3>2, <3>3
  <2>4. ASSUME NEW closed \in SUBSET SlashIds, Slashes!FinalizeExpiredAppeals(closed)
        PROVE  RelayInv'
    <3>1. /\ \A s \in closed : appealStatus[s] # "denied"
          /\ appealStatus' = [s \in SlashIds |-> IF s \in closed THEN "denied" ELSE appealStatus[s]]
          /\ heralds' = heralds \cup {<<"AppealExpired", s>> : s \in closed}
          /\ UNCHANGED <<wiring, calls, propagated>>
      BY <2>4 DEF Slashes!FinalizeExpiredAppeals, Slashes!relaying
    <3>2. /\ "AppealExpired" \in Slashes!Final
          /\ {<<"AppealExpired", s>> : s \in closed} = {"AppealExpired"} \X closed
      BY DEF Slashes!Final
    <3>3. /\ RelayInv /\ closed \in SUBSET SlashIds /\ "denied" # "none"
          /\ propagated' \in [SlashIds -> Nat] /\ DOMAIN appealStatus' = SlashIds
      BY <3>1 DEF RelayInv
    <3>4. \A s \in SlashIds : appealStatus'[s] = IF s \in closed THEN "denied" ELSE appealStatus[s]
      BY <3>1
    <3>5. \A s \in SlashIds :
            \/ propagated'[s] = propagated[s]
            \/ /\ s \in closed /\ Slashes!Direct /\ appealStatus[s] = "none"
               /\ propagated'[s] = propagated[s] + 1
      BY <3>1
    <3>6. \A s \in closed : appealStatus[s] # "denied"
      BY <3>1
    <3>7. PICK told : told = {"AppealExpired"} \X closed
      OBVIOUS
    <3>8. /\ heralds' = heralds \cup told /\ UNCHANGED <<wiring, calls>>
          /\ \/ "denied" # "denied" /\ told \subseteq {"SlashInitiated"} \X SlashIds
             \/ \E event \in Slashes!Final : "denied" = "denied" /\ told = {event} \X closed
      BY <3>1, <3>2, <3>7
    <3> QED BY ONLY <3>3, <3>4, <3>5, <3>6, <3>8, VerdictKeeps
  <2>5. CASE UNCHANGED Slashes!slashVars
    <3>1. UNCHANGED <<wiring, appealStatus, heralds, calls, propagated>>
      BY <2>5 DEF Slashes!slashVars
    <3>2. \A s \in SlashIds : OneStage(s)' = OneStage(s)
      BY <3>1 DEF OneStage, Unheard, Slashes!Direct, Slashes!Obeys
    <3> QED BY <3>1, <3>2 DEF RelayInv
  <2> QED BY <2>1, <2>2, <2>3, <2>4, <2>5, RelayKeeps, RelayRestarts DEF Slashes!Next
<1>3. RelayInv => Slashes!PayAtMostOnce
  <2> SUFFICES ASSUME RelayInv, NEW s \in SlashIds
               PROVE  propagated[s] <= IF Slashes!Due(s) THEN 1 ELSE 0
    BY DEF Slashes!PayAtMostOnce
  <2>1. propagated[s] \in {0, 1} /\ (~Slashes!Due(s) => propagated[s] = 0)
    BY DEF RelayInv, OneStage, Slashes!Due
  <2>2. CASE Slashes!Due(s)
    BY <2>1, <2>2
  <2>3. CASE ~Slashes!Due(s)
    BY <2>1, <2>3
  <2> QED BY <2>2, <2>3
<1> QED BY <1>1, <1>2, <1>3, PTL DEF Slashes!Spec
=============================================================================
