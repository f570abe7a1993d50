-------------------------- MODULE ShadowScoresProofs --------------------------
(***************************************************************************)
(* Proofs about ReadyQueue and about ShadowScores, which extends it, for   *)
(* every value of their constants.                                         *)
(*                                                                         *)
(* Part 1, the queue alone: types, the holdback (when `now` is written in  *)
(* UTC), the completeness of completed games, the late metric, and, when   *)
(* no upsert of the pending table fails, the kept identities and the       *)
(* refinement of GameLifecycle.                                            *)
(* Part 2, queue and shadow scorer together: every step of the pair is one *)
(* of the queue, and committed scores are those of committed completed     *)
(* games.                                                                  *)
(***************************************************************************)
EXTENDS ShadowScores, FiniteSetTheorems, WellFoundedInduction, TLAPS

-----------------------------------------------------------------------------
(* Part 1: the ready queue.                                                *)


-----------------------------------------------------------------------------
(* Table operations and prediction visibility.                             *)

LEMMA PutTyped ==
    ASSUME NEW T, NEW rows, TableOf(rows, T), NEW g \in Games, NEW r \in rows
    PROVE  TableOf(rows, PutRow(T, g, r))
  BY DEF TableOf, PutRow

LEMMA DropTyped ==
    ASSUME NEW T, NEW rows, TableOf(rows, T), NEW g
    PROVE  TableOf(rows, DropRow(T, g))
  BY DEF TableOf, DropRow

LEMMA Rounding ==
    ASSUME NEW x \in Int, NEW n \in Nat \ {0}
    PROVE  /\ ((x + n - 1) \div n) * n \in Int
           /\ x <= ((x + n - 1) \div n) * n
  OBVIOUS

\* A bet is never visible before its payout plus the availability delay.
LEMMA Visibility ==
    ASSUME TypeOK, NEW b \in Bets
    PROVE  PV(b) \in Int /\ payout[b] + AvailDelay <= PV(b)
<1>. DEFINE x == payout[b] + AvailDelay
<1>1. x \in Int
  BY DelayAssumption DEF TypeOK
<1>. HIDE DEF x
<1>2. /\ ((x + Grid - 1) \div Grid) * Grid \in Int
      /\ x <= ((x + Grid - 1) \div Grid) * Grid
  BY <1>1, Rounding, DelayAssumption
<1>. QED
  BY <1>2 DEF PV, x

\* The bets of a game in the batch, counted.
LEMMA BatchCount ==
    ASSUME TypeOK, NEW g
    PROVE  BatchOf(g) \in SUBSET Bets /\ Cardinality(BatchOf(g)) \in Nat
<1>1. BatchOf(g) \subseteq Bets
  BY DEF BatchOf, TypeOK
<1>. QED
  BY <1>1, GamesAssumption, FS_Subset, FS_CardinalityType

LEMMA PendingRowTyped ==
    ASSUME TypeOK, NEW g \in Games, NEW first \in Int
    PROVE  PendingRow(g, first, BatchOf(g)) \in PendingRows
<1>1. CASE g \in DOMAIN pending
  <2>1. pending[g] \in PendingRows
    BY <1>1 DEF TypeOK, TableOf
  <2>. QED
    BY <1>1, <2>1, BatchCount, DelayAssumption
       DEF PendingRow, PendingRows, Smaller, InitialCount, DueTs
<1>2. CASE g \notin DOMAIN pending
  BY <1>2, BatchCount, DelayAssumption DEF PendingRow, PendingRows, DueTs
<1>. QED
  BY <1>1, <1>2

LEMMA CompletedRowTyped ==
    ASSUME TypeOK, NEW g \in DOMAIN pending
    PROVE  CompletedRow(g, Refetch(g)) \in CompletedRows
<1>1. pending[g] \in PendingRows
  BY DEF TypeOK, TableOf
<1>2. Refetch(g) \in SUBSET Bets
  BY DEF Refetch
<1>3. now \in Int
  BY DEF TypeOK
<1>4. (pending[g].attempts > 0 \/ Cardinality(Refetch(g)) > pending[g].initial) \in BOOLEAN
  OBVIOUS
<1>. QED
  BY <1>1, <1>2, <1>3, <1>4 DEF CompletedRow, CompletedRows, PendingRows

-----------------------------------------------------------------------------
(* The inductive invariant.  What must hold of the two tables is stated of *)
(* the transaction's view and of the committed one, because a rollback     *)
(* makes the second the first.                                             *)

DueInv(P) == ZoneSkew = 0 => \A g \in DOMAIN P : P[g].due >= P[g].first + Holdback

HeldBack(C) == ZoneSkew = 0 => \A g \in DOMAIN C : C[g].at >= C[g].first + Holdback

SawAll(C) ==
    \A g \in DOMAIN C, b \in Bets :
        /\ GameOf[b] = g /\ Arrived(b) /\ etl[b] < C[g].at
        /\ PV(b) <= C[g].at
        => b \in C[g].bets \/ payout[b] < clock - Lookback

TablesInv(P, C) ==
    /\ DOMAIN P \cap DOMAIN C = {}
    /\ DueInv(P)
    /\ HeldBack(C)
    /\ SawAll(C)
    /\ \A g \in DOMAIN C : C[g].at <= clock

TimeInv == now <= clock /\ \A b \in Bets : Absent <= etl[b] /\ etl[b] <= clock

\* The transaction only adds to what is committed.
OpenInv ==
    /\ DOMAIN saved.pending \subseteq DOMAIN pending \cup DOMAIN completed
    /\ DOMAIN saved.completed \subseteq DOMAIN completed
    /\ pc = "idle" => pending = saved.pending /\ completed = saved.completed

LoopInv ==
    pc = "process" =>
        \A g \in todo : g \in DOMAIN pending \ DOMAIN completed /\ ReadsAsDue(g)

\* Without failing upserts the loop leaves no game of the batch behind.
BatchInv ==
    ~EnqueueMayFail =>
        /\ pc = "enqueue" => \A b \in DOMAIN batch :
               GameOf[b] \in todo \cup DOMAIN pending \cup DOMAIN completed
        /\ pc \in {"process", "score"} => \A b \in DOMAIN batch :
               GameOf[b] \in DOMAIN pending \cup DOMAIN completed

IInv ==
    /\ TypeOK
    /\ TimeInv
    /\ TablesInv(pending, completed)
    /\ TablesInv(saved.pending, saved.completed)
    /\ OpenInv
    /\ LoopInv
    /\ BatchInv
    /\ ~EnqueueMayFail => IdentityKept

-----------------------------------------------------------------------------
LEMMA TypeStep == ASSUME IInv, [Next]_vars PROVE TypeOK'
<1>. USE DEF TypeOK
<1>. TypeOK
  BY DEF IInv
<1>1. CASE Tick
  BY <1>1 DEF Tick, warehouse, tables
<1>2. ASSUME NEW b \in Bets, NEW lag \in PayoutLags, Ingest(b, lag) PROVE TypeOK'
  BY <1>2, DelayAssumption DEF Ingest, tables
<1>3. ASSUME NEW b \in Bets, Reingest(b) PROVE TypeOK'
  BY <1>3 DEF Reingest, tables
<1>4. CASE Fetch
  <2>1. DOMAIN batch' \subseteq Bets /\ \A b \in DOMAIN batch' : batch'[b] \in Int
    BY <1>4 DEF Fetch, NewBets
  <2>. QED
    BY <1>4, <2>1 DEF Fetch, warehouse, tables
<1>5. CASE BeginQueue
  <2>1. todo' \subseteq Games
    BY <1>5, GamesAssumption DEF BeginQueue, Touched
  <2>. QED
    BY <1>5, <2>1 DEF BeginQueue, warehouse, tables
<1>6. ASSUME NEW g \in Games, SkipCompleted(g) PROVE TypeOK'
  BY <1>6 DEF SkipCompleted, warehouse, tables
<1>7. ASSUME NEW g \in Games, Enqueue(g) PROVE TypeOK'
  <2>1. PICK first \in Earliest({PV(b) : b \in BatchOf(g)}) :
            pending' = PutRow(pending, g, PendingRow(g, first, BatchOf(g)))
    BY <1>7 DEF Enqueue
  <2>2. first \in Int
    BY <2>1, Visibility, BatchCount DEF Earliest
  <2>3. TableOf(PendingRows, pending')
    BY <2>1, <2>2, PendingRowTyped, PutTyped
  <2>. QED
    BY <1>7, <2>3 DEF Enqueue, warehouse
<1>8. CASE ListDue
  BY <1>8 DEF ListDue, warehouse, tables, TableOf
<1>9. ASSUME NEW g \in Games, RefetchEmpty(g) PROVE TypeOK'
  BY <1>9 DEF RefetchEmpty, warehouse, tables
<1>10. ASSUME NEW g \in Games, Defer(g) PROVE TypeOK'
  <2>1. PICK ready \in Latest({PV(b) : b \in Refetch(g)}) :
            pending' = [pending EXCEPT ![g].attempts = @ + 1, ![g].due = DueTs(ready)]
    BY <1>10 DEF Defer
  <2>2. ready \in Int
    BY <2>1, Visibility DEF Latest, Refetch
  <2>3. DueTs(ready) \in Int
    BY <2>2, DelayAssumption DEF DueTs
  <2>4. TableOf(PendingRows, pending')
    BY <2>1, <2>3 DEF TableOf, PendingRows
  <2>. QED
    BY <1>10, <2>4 DEF Defer, warehouse
<1>11. ASSUME NEW g \in Games, Complete(g) PROVE TypeOK'
  <2>1. g \in DOMAIN pending
    BY <1>11 DEF Complete, IInv, LoopInv
  <2>2. TableOf(CompletedRows, completed')
    BY <1>11, <2>1, CompletedRowTyped, PutTyped DEF Complete
  <2>3. TableOf(PendingRows, pending')
    BY <1>11, DropTyped DEF Complete
  <2>. QED
    BY <1>11, <2>2, <2>3 DEF Complete, warehouse
<1>12. CASE QueueFails
  BY <1>12 DEF QueueFails, warehouse, tables
<1>13. CASE EndQueue
  BY <1>13 DEF EndQueue, warehouse, tables
<1>14. CASE Commit
  BY <1>14 DEF Commit, warehouse, tables, NoRows
<1>15. CASE Abort
  BY <1>15 DEF Abort, Rollback, warehouse, NoRows
<1>16. CASE UNCHANGED vars
  BY <1>16 DEF vars, warehouse, tables
<1>. QED
  BY <1>1, <1>2, <1>3, <1>4, <1>5, <1>6, <1>7, <1>8, <1>9, <1>10, <1>11, <1>12,
     <1>13, <1>14, <1>15, <1>16 DEF Next, Cycle

LEMMA TimeStep == ASSUME IInv, [Next]_vars PROVE TimeInv'
<1>. USE DEF IInv, TypeOK, TimeInv, Absent
<1>1. CASE Tick
  BY <1>1 DEF Tick, warehouse
<1>2. ASSUME NEW b \in Bets, NEW lag \in PayoutLags, Ingest(b, lag) PROVE TimeInv'
  BY <1>2 DEF Ingest
<1>3. ASSUME NEW b \in Bets, Reingest(b) PROVE TimeInv'
  BY <1>3 DEF Reingest
<1>4. CASE BeginQueue
  BY <1>4 DEF BeginQueue, warehouse
<1>5. CASE UNCHANGED <<clock, now, etl>>
  BY <1>5
<1>6. Tick \/ (\E b \in Bets, lag \in PayoutLags : Ingest(b, lag))
      \/ (\E b \in Bets : Reingest(b)) \/ BeginQueue \/ UNCHANGED <<clock, now, etl>>
  BY DEF Next, Cycle, SkipCompleted, Enqueue, ListDue, RefetchEmpty, Defer, Complete,
         QueueFails, EndQueue, Commit, Abort, Fetch, warehouse, vars
<1>. QED
  BY <1>1, <1>2, <1>3, <1>4, <1>5, <1>6

\* A list of the steps that write the tables; all others leave them alone.
LEMMA TableWrites ==
    ASSUME [Next]_vars
    PROVE  \/ UNCHANGED <<tables, saved>>
           \/ \E g \in Games : Enqueue(g) \/ Defer(g) \/ Complete(g)
           \/ Commit
           \/ Abort
  BY DEF Next, Cycle, Tick, Ingest, Reingest, Fetch, BeginQueue, SkipCompleted, ListDue,
         RefetchEmpty, QueueFails, EndQueue, vars

\* What was in the warehouse before a past time t was there before the step, and
\* what has left the lookback stays out of it.
LEMMA WorldStep ==
    ASSUME IInv, [Next]_vars, NEW b \in Bets, NEW t \in Int, t <= clock
    PROVE  /\ clock <= clock'
           /\ Arrived(b)' /\ etl'[b] < t =>
                  Arrived(b) /\ etl[b] < t /\ payout'[b] = payout[b]
           /\ Arrived(b) /\ payout[b] < clock - Lookback =>
                  payout'[b] < clock' - Lookback
<1>. USE DelayAssumption DEF IInv, TypeOK, TimeInv, Arrived, Absent
<1>1. CASE Tick
  BY <1>1 DEF Tick, warehouse
<1>2. ASSUME NEW c \in Bets, NEW lag \in PayoutLags, Ingest(c, lag)
      PROVE  /\ clock' = clock
             /\ b # c => etl'[b] = etl[b] /\ payout'[b] = payout[b]
             /\ b = c => etl'[b] = clock /\ ~Arrived(b)
  BY <1>2 DEF Ingest
<1>3. ASSUME NEW c \in Bets, Reingest(c)
      PROVE  /\ clock' = clock /\ payout' = payout
             /\ b # c => etl'[b] = etl[b]
             /\ b = c => etl'[b] = clock
  BY <1>3 DEF Reingest
<1>4. Tick \/ (\E c \in Bets, lag \in PayoutLags : Ingest(c, lag))
      \/ (\E c \in Bets : Reingest(c)) \/ UNCHANGED <<clock, warehouse>>
  BY DEF Next, Cycle, SkipCompleted, Enqueue, ListDue, RefetchEmpty, Defer, Complete,
         QueueFails, EndQueue, Commit, Abort, Fetch, BeginQueue, vars
<1>. QED
  BY <1>1, <1>2, <1>3, <1>4 DEF warehouse

\* Rows that a step leaves alone keep what was true of them.
LEMMA SawAllKept ==
    ASSUME IInv, [Next]_vars, NEW g \in Games, NEW row \in CompletedRows,
           row.at <= clock,
           \A b \in Bets :
               GameOf[b] = g /\ Arrived(b) /\ etl[b] < row.at /\ PV(b) <= row.at
               => b \in row.bets \/ payout[b] < clock - Lookback
    PROVE  /\ row.at <= clock'
           /\ \A b \in Bets :
               GameOf[b] = g /\ Arrived(b)' /\ etl'[b] < row.at /\ PV(b)' <= row.at
               => b \in row.bets \/ payout'[b] < clock' - Lookback
<1>1. row.at \in Int
  BY DEF CompletedRows
<1>2. row.at <= clock'
  <2>1. clock' = clock \/ clock' = clock + 1
    BY DEF Next, Cycle, Tick, Ingest, Reingest, Fetch, BeginQueue, SkipCompleted, Enqueue,
           ListDue, RefetchEmpty, Defer, Complete, QueueFails, EndQueue, Commit, Abort, vars
  <2>. QED
    BY <1>1, <2>1 DEF IInv, TypeOK
<1>3. ASSUME NEW b \in Bets, GameOf[b] = g, Arrived(b)', etl'[b] < row.at, PV(b)' <= row.at
      PROVE  b \in row.bets \/ payout'[b] < clock' - Lookback
  <2>1. Arrived(b) /\ etl[b] < row.at /\ payout'[b] = payout[b]
    BY <1>1, <1>3, WorldStep
  <2>2. PV(b)' = PV(b)
    BY <2>1 DEF PV
  <2>. QED
    BY <1>1, <1>3, <2>1, <2>2, WorldStep
<1>. QED
  BY <1>2, <1>3

\* A game that is completed now has been refetched now.
LEMMA CompletedNow ==
    ASSUME IInv, NEW g \in Games, Complete(g)
    PROVE  LET row == CompletedRow(g, Refetch(g))
           IN  /\ row.at <= clock
               /\ ZoneSkew = 0 => row.at >= row.first + Holdback
               /\ \A b \in Bets :
                      GameOf[b] = g /\ Arrived(b) /\ etl[b] < row.at /\ PV(b) <= row.at
                      => b \in row.bets \/ payout[b] < clock - Lookback
<1>. USE DEF CompletedRow
<1>1. g \in DOMAIN pending /\ pending[g].due <= now + ZoneSkew
  BY DEF Complete, IInv, LoopInv, ReadsAsDue
<1>2. pending[g] \in PendingRows
  BY <1>1 DEF IInv, TypeOK, TableOf
<1>3. ZoneSkew = 0 => now >= pending[g].first + Holdback
  BY <1>1, <1>2, DelayAssumption DEF IInv, TypeOK, TablesInv, DueInv, PendingRows
<1>4. ASSUME NEW b \in Bets, GameOf[b] = g, Arrived(b), PV(b) <= now,
             ~(payout[b] < clock - Lookback)
      PROVE  b \in Refetch(g)
  <2>1. payout[b] + AvailDelay <= clock
    BY <1>4, Visibility, DelayAssumption DEF IInv, TypeOK, TimeInv
  <2>. QED
    BY <1>4, <2>1, DelayAssumption DEF Refetch, Eligible, IInv, TypeOK
<1>5. now <= clock
  BY DEF IInv, TimeInv
<1>. QED
  BY <1>3, <1>4, <1>5

-----------------------------------------------------------------------------
\* Tables that a step does not write keep their invariant while time passes and
\* the warehouse fills.
LEMMA CompletedKept ==
    ASSUME IInv, [Next]_vars, NEW C, TableOf(CompletedRows, C), SawAll(C),
           \A g \in DOMAIN C : C[g].at <= clock
    PROVE  /\ \A g \in DOMAIN C : C[g].at <= clock'
           /\ \A g \in DOMAIN C, b \in Bets :
                  GameOf[b] = g /\ Arrived(b)' /\ etl'[b] < C[g].at /\ PV(b)' <= C[g].at
                  => b \in C[g].bets \/ payout'[b] < clock' - Lookback
<1>1. ASSUME NEW g \in DOMAIN C
      PROVE  /\ C[g].at <= clock'
             /\ \A b \in Bets :
                    GameOf[b] = g /\ Arrived(b)' /\ etl'[b] < C[g].at /\ PV(b)' <= C[g].at
                    => b \in C[g].bets \/ payout'[b] < clock' - Lookback
  <2>1. g \in Games /\ C[g] \in CompletedRows /\ C[g].at <= clock
    BY DEF TableOf
  <2>2. \A b \in Bets :
            GameOf[b] = g /\ Arrived(b) /\ etl[b] < C[g].at /\ PV(b) <= C[g].at
            => b \in C[g].bets \/ payout[b] < clock - Lookback
    BY DEF SawAll
  <2>. QED
    BY <2>1, <2>2, SawAllKept
<1>. QED
  BY <1>1

LEMMA CommittedStep == ASSUME IInv, [Next]_vars PROVE TablesInv(saved.pending, saved.completed)'
<1>1. CASE saved' = saved
  <2>1. TableOf(CompletedRows, saved.completed) /\ TablesInv(saved.pending, saved.completed)
    BY DEF IInv, TypeOK
  <2>. QED
    BY <1>1, <2>1, CompletedKept DEF TablesInv, DueInv, HeldBack, SawAll
<1>2. CASE Commit
  <2>1. /\ saved'.pending = pending /\ saved'.completed = completed
        /\ UNCHANGED <<clock, warehouse>>
    BY <1>2 DEF Commit
  <2>2. TablesInv(pending, completed)
    BY DEF IInv
  <2>. QED
    BY <2>1, <2>2 DEF TablesInv, DueInv, HeldBack, SawAll, Arrived, PV, warehouse
<1>3. saved' = saved \/ Commit
  BY DEF Next, Cycle, Tick, Ingest, Reingest, Fetch, BeginQueue, SkipCompleted, Enqueue,
         ListDue, RefetchEmpty, Defer, Complete, QueueFails, EndQueue, Abort, vars
<1>. QED
  BY <1>1, <1>2, <1>3

LEMMA EnqueuedDue ==
    ASSUME IInv, NEW g \in Games, Enqueue(g)
    PROVE  DueInv(pending') /\ DOMAIN pending' = DOMAIN pending \cup {g}
<1>1. PICK first \in Earliest({PV(b) : b \in BatchOf(g)}) :
          pending' = PutRow(pending, g, PendingRow(g, first, BatchOf(g)))
  BY DEF Enqueue
<1>. DEFINE row == PendingRow(g, first, BatchOf(g))
<1>2. first \in Int
  BY <1>1, Visibility, BatchCount DEF Earliest, IInv
<1>3. row \in PendingRows
  BY <1>2, PendingRowTyped DEF IInv
<1>4. row.due = row.first + Holdback
  BY DEF PendingRow, DueTs
<1>. HIDE DEF row
<1>5. row.due >= row.first + Holdback
  BY <1>3, <1>4, DelayAssumption DEF PendingRows
<1>6. DueInv(pending)
  BY DEF IInv, TablesInv
<1>7. pending' = PutRow(pending, g, row)
  BY <1>1 DEF row
<1>8. /\ DOMAIN pending' = DOMAIN pending \cup {g}
      /\ pending'[g] = row
      /\ \A h \in DOMAIN pending : h # g => pending'[h] = pending[h]
  BY <1>7 DEF PutRow
<1>. QED
  BY <1>5, <1>6, <1>8 DEF DueInv

LEMMA DeferredDue ==
    ASSUME IInv, NEW g \in Games, Defer(g)
    PROVE  DueInv(pending') /\ DOMAIN pending' = DOMAIN pending
<1>1. PICK ready \in Latest({PV(b) : b \in Refetch(g)}) :
          /\ ready > now
          /\ pending' = [pending EXCEPT ![g].attempts = @ + 1, ![g].due = DueTs(ready)]
  BY DEF Defer
<1>2. ready \in Int
  BY <1>1, Visibility DEF Latest, Refetch, IInv
<1>3. g \in DOMAIN pending /\ pending[g] \in PendingRows /\ pending[g].due <= now + ZoneSkew
  BY DEF Defer, IInv, LoopInv, ReadsAsDue, TypeOK, TableOf
<1>4. ASSUME ZoneSkew = 0
      PROVE  DueTs(ready) >= pending[g].first + Holdback
  <2>1. pending[g].first + Holdback <= now
    BY <1>3, <1>4, DelayAssumption DEF IInv, TypeOK, TablesInv, DueInv, PendingRows
  <2>. QED
    BY <1>1, <1>2, <1>3, <2>1, DelayAssumption DEF IInv, TypeOK, DueTs, PendingRows
<1>5. /\ DOMAIN pending' = DOMAIN pending
      /\ pending'[g].due = DueTs(ready) /\ pending'[g].first = pending[g].first
      /\ \A h \in DOMAIN pending : h # g => pending'[h] = pending[h]
  BY <1>1, <1>3 DEF PendingRows
<1>6. DueInv(pending)
  BY DEF IInv, TablesInv
<1>. QED
  BY <1>4, <1>5, <1>6 DEF DueInv

LEMMA OpenTablesStep == ASSUME IInv, [Next]_vars PROVE TablesInv(pending, completed)'
<1>. DEFINE Kept == /\ HeldBack(completed) /\ DueInv(pending)
                    /\ DOMAIN pending \cap DOMAIN completed = {}
                    /\ TableOf(CompletedRows, completed)
                    /\ SawAll(completed) /\ \A g \in DOMAIN completed : completed[g].at <= clock
<1>1. Kept
  BY DEF IInv, TypeOK, TablesInv
<1>2. CASE UNCHANGED <<pending, completed>>
  BY <1>1, <1>2, CompletedKept DEF TablesInv, DueInv, HeldBack, SawAll
<1>3. ASSUME NEW g \in Games, Enqueue(g) PROVE TablesInv(pending, completed)'
  <2>1. completed' = completed /\ g \notin DOMAIN completed
    BY <1>3 DEF Enqueue, AlreadyCompleted
  <2>. QED
    BY <1>1, <1>3, <2>1, EnqueuedDue, CompletedKept DEF TablesInv, DueInv, HeldBack, SawAll
<1>4. ASSUME NEW g \in Games, Defer(g) PROVE TablesInv(pending, completed)'
  <2>1. completed' = completed
    BY <1>4 DEF Defer
  <2>. QED
    BY <1>1, <1>4, <2>1, DeferredDue, CompletedKept DEF TablesInv, DueInv, HeldBack, SawAll
<1>5. ASSUME NEW g \in Games, Complete(g) PROVE TablesInv(pending, completed)'
  <2>. DEFINE row == CompletedRow(g, Refetch(g))
  <2>1. /\ completed' = PutRow(completed, g, row) /\ pending' = DropRow(pending, g)
        /\ UNCHANGED <<clock, warehouse>>
    BY <1>5 DEF Complete
  <2>2. /\ row.at <= clock
        /\ ZoneSkew = 0 => row.at >= row.first + Holdback
        /\ \A b \in Bets :
               GameOf[b] = g /\ Arrived(b) /\ etl[b] < row.at /\ PV(b) <= row.at
               => b \in row.bets \/ payout[b] < clock - Lookback
    BY <1>5, CompletedNow
  <2>. HIDE DEF row
  <2>3. /\ DOMAIN completed' = DOMAIN completed \cup {g}
        /\ completed'[g] = row
        /\ \A h \in DOMAIN completed : h # g => completed'[h] = completed[h]
    BY <2>1 DEF PutRow
  <2>4. /\ DOMAIN pending' = DOMAIN pending \ {g}
        /\ \A h \in DOMAIN pending' : pending'[h] = pending[h]
    BY <2>1 DEF DropRow
  <2>5. DueInv(pending')
    BY <1>1, <2>4 DEF DueInv
  <2>6. HeldBack(completed') /\ \A h \in DOMAIN completed' : completed'[h].at <= clock
    BY <1>1, <2>2, <2>3 DEF HeldBack
  <2>7. SawAll(completed')
    BY <1>1, <2>2, <2>3 DEF SawAll
  <2>8. DOMAIN pending' \cap DOMAIN completed' = {}
    BY <1>1, <2>3, <2>4
  <2>. QED
    BY <2>1, <2>5, <2>6, <2>7, <2>8
       DEF TablesInv, DueInv, HeldBack, SawAll, Arrived, PV, warehouse
<1>6. CASE Abort
  <2>1. pending' = saved'.pending /\ completed' = saved'.completed
    BY <1>6 DEF Abort, Rollback
  <2>. QED
    BY <2>1, CommittedStep DEF TablesInv, DueInv, HeldBack, SawAll
<1>. QED
  BY <1>2, <1>3, <1>4, <1>5, <1>6, TableWrites DEF Commit, tables

\* What each writing step does to the keys of the tables.
LEMMA KeysStep ==
    ASSUME IInv, NEW g \in Games
    PROVE  /\ Enqueue(g) => /\ DOMAIN pending' = DOMAIN pending \cup {g}
                            /\ completed' = completed /\ g \notin DOMAIN completed
           /\ Defer(g) => DOMAIN pending' = DOMAIN pending /\ completed' = completed
           /\ Complete(g) => /\ DOMAIN pending' = DOMAIN pending \ {g}
                             /\ DOMAIN completed' = DOMAIN completed \cup {g}
<1>1. Complete(g) => /\ DOMAIN pending' = DOMAIN pending \ {g}
                     /\ DOMAIN completed' = DOMAIN completed \cup {g}
  BY DEF Complete, DropRow, PutRow
<1>2. Enqueue(g) => completed' = completed /\ g \notin DOMAIN completed
  BY DEF Enqueue, AlreadyCompleted
<1>3. Defer(g) => completed' = completed
  BY DEF Defer
<1>. QED
  BY <1>1, <1>2, <1>3, EnqueuedDue, DeferredDue

LEMMA OpenStep == ASSUME IInv, [Next]_vars PROVE OpenInv'
<1>. OpenInv
  BY DEF IInv
<1>1. ASSUME NEW g \in Games, Enqueue(g) \/ Defer(g) \/ Complete(g) PROVE OpenInv'
  <2>1. saved' = saved /\ pc' # "idle"
    BY <1>1 DEF Enqueue, Defer, Complete
  <2>. QED
    BY <1>1, <2>1, KeysStep DEF OpenInv
<1>2. CASE Commit
  BY <1>2 DEF Commit, OpenInv, tables
<1>3. CASE Abort
  BY <1>3 DEF Abort, Rollback, OpenInv
<1>4. CASE UNCHANGED <<tables, saved>> /\ (pc' = "idle" => pc = "idle")
  BY <1>4 DEF OpenInv, tables
<1>5. \/ UNCHANGED <<tables, saved>> /\ (pc' = "idle" => pc = "idle")
      \/ \E g \in Games : Enqueue(g) \/ Defer(g) \/ Complete(g)
      \/ Commit
      \/ Abort
  BY DEF Next, Cycle, Tick, Ingest, Reingest, Fetch, BeginQueue, SkipCompleted, ListDue,
         RefetchEmpty, QueueFails, EndQueue, vars
<1>. QED
  BY <1>1, <1>2, <1>3, <1>4, <1>5

LEMMA LoopStep == ASSUME IInv, [Next]_vars PROVE LoopInv'
<1>. USE DEF LoopInv
<1>. LoopInv
  BY DEF IInv
<1>1. ASSUME NEW g \in Games, Enqueue(g) \/ SkipCompleted(g) PROVE LoopInv'
  BY <1>1 DEF Enqueue, SkipCompleted
<1>2. CASE ListDue
  BY <1>2 DEF ListDue, ReadsAsDue, tables
<1>3. ASSUME NEW g \in Games, RefetchEmpty(g) PROVE LoopInv'
  BY <1>3 DEF RefetchEmpty, ReadsAsDue, tables
<1>4. ASSUME NEW g \in Games, Defer(g) PROVE LoopInv'
  <2>1. \A h \in todo' : h # g /\ h \in todo /\ pending'[h] = pending[h]
    BY <1>4 DEF Defer
  <2>. QED
    BY <1>4, <2>1, KeysStep DEF Defer, ReadsAsDue
<1>5. ASSUME NEW g \in Games, Complete(g) PROVE LoopInv'
  <2>1. \A h \in todo' : h # g /\ h \in todo
    BY <1>5 DEF Complete
  <2>2. \A h \in DOMAIN pending : h # g => pending'[h] = pending[h]
    BY <1>5 DEF Complete, DropRow
  <2>. QED
    BY <1>5, <2>1, <2>2, KeysStep DEF Complete, ReadsAsDue
<1>6. CASE pc' # "process"
  BY <1>6
<1>7. CASE UNCHANGED <<pc, todo, tables, now>>
  BY <1>7 DEF ReadsAsDue, tables
<1>8. \/ pc' # "process"
      \/ UNCHANGED <<pc, todo, tables, now>>
      \/ ListDue
      \/ \E g \in Games : \/ Enqueue(g) \/ SkipCompleted(g) \/ RefetchEmpty(g)
                          \/ Defer(g) \/ Complete(g)
  BY DEF Next, Cycle, Tick, Ingest, Reingest, Fetch, BeginQueue, QueueFails, EndQueue,
         Commit, Abort, vars
<1>. QED
  BY <1>1, <1>2, <1>3, <1>4, <1>5, <1>6, <1>7, <1>8

LEMMA BatchStep == ASSUME IInv, [Next]_vars PROVE BatchInv'
<1>. SUFFICES ASSUME ~EnqueueMayFail PROVE BatchInv'
  BY DEF BatchInv
<1>. USE DEF BatchInv
<1>. BatchInv
  BY DEF IInv
<1>1. CASE BeginQueue
  BY <1>1 DEF BeginQueue, Touched
<1>2. ASSUME NEW g \in Games, SkipCompleted(g) PROVE BatchInv'
  BY <1>2 DEF SkipCompleted, AlreadyCompleted, tables
<1>3. ASSUME NEW g \in Games, Enqueue(g) PROVE BatchInv'
  <2>1. batch' = batch /\ todo' = todo \ {g} /\ pc = "enqueue" /\ pc' = "enqueue"
    BY <1>3 DEF Enqueue
  <2>2. DOMAIN pending' = DOMAIN pending \cup {g} /\ completed' = completed
    BY <1>3, KeysStep
  <2>3. \A b \in DOMAIN batch : GameOf[b] \in todo \cup DOMAIN pending \cup DOMAIN completed
    BY <2>1
  <2>4. \A b \in DOMAIN batch' :
            GameOf[b] \in todo' \cup DOMAIN pending' \cup DOMAIN completed'
    BY <2>1, <2>2, <2>3
  <2>. QED
    BY <2>1, <2>4
<1>4. CASE ListDue
  BY <1>4 DEF ListDue, tables
<1>5. ASSUME NEW g \in Games, Defer(g) \/ Complete(g) PROVE BatchInv'
  <2>1. batch' = batch /\ pc = "process" /\ pc' = "process"
    BY <1>5 DEF Defer, Complete
  <2>. QED
    BY <1>5, <2>1, KeysStep
<1>6. CASE QueueFails \/ EndQueue
  BY <1>6 DEF QueueFails, EndQueue, tables
<1>7. CASE UNCHANGED <<batch, tables, pc>> /\ (pc = "enqueue" => todo' = todo)
  BY <1>7 DEF tables
<1>8. CASE pc' \in {"idle", "fetched"}
  BY <1>8
<1>9. \/ BeginQueue \/ ListDue \/ QueueFails \/ EndQueue
      \/ \E g \in Games : SkipCompleted(g) \/ Enqueue(g) \/ Defer(g) \/ Complete(g)
      \/ UNCHANGED <<batch, tables, pc>> /\ (pc = "enqueue" => todo' = todo)
      \/ pc' \in {"idle", "fetched"}
  BY DEF Next, Cycle, Tick, Ingest, Reingest, Fetch, RefetchEmpty, Commit, Abort, vars
<1>. QED
  BY <1>1, <1>2, <1>3, <1>4, <1>5, <1>6, <1>7, <1>8, <1>9

LEMMA IdentityStep ==
    ASSUME IInv, [Next]_vars, ~EnqueueMayFail
    PROVE  IdentityKept'
<1>. IdentityKept
  BY DEF IInv
<1>1. CASE Commit
  <2>1. passed' \subseteq passed \cup DOMAIN batch
    BY <1>1 DEF Commit
  <2>2. \A b \in passed \cup DOMAIN batch : GameOf[b] \in DOMAIN pending \cup DOMAIN completed
    BY <1>1 DEF Commit, IInv, BatchInv, OpenInv, IdentityKept
  <2>3. saved'.pending = pending /\ saved'.completed = completed
    BY <1>1 DEF Commit
  <2>. QED
    BY <2>1, <2>2, <2>3 DEF IdentityKept
<1>2. CASE UNCHANGED <<saved, passed>>
  BY <1>2 DEF IdentityKept
<1>3. Commit \/ UNCHANGED <<saved, passed>>
  BY DEF Next, Cycle, Tick, Ingest, Reingest, Fetch, BeginQueue, SkipCompleted, Enqueue,
         ListDue, RefetchEmpty, Defer, Complete, QueueFails, EndQueue, Abort, vars
<1>. QED
  BY <1>1, <1>2, <1>3

-----------------------------------------------------------------------------
LEMMA QueueStarts == Init => IInv
<1>. SUFFICES ASSUME Init PROVE IInv
  OBVIOUS
<1>1. /\ DOMAIN pending = {} /\ DOMAIN completed = {}
      /\ DOMAIN saved.pending = {} /\ DOMAIN saved.completed = {}
      /\ DOMAIN batch = {}
  BY DEF Init, NoRows
<1>2. TypeOK
  BY <1>1 DEF Init, TypeOK, TableOf, Absent
<1>3. TimeInv
  BY DEF Init, TimeInv, Absent
<1>4. TablesInv(pending, completed) /\ TablesInv(saved.pending, saved.completed)
  BY <1>1 DEF TablesInv, DueInv, HeldBack, SawAll
<1>5. OpenInv
  BY <1>1 DEF OpenInv, Init
<1>. QED
  BY <1>2, <1>3, <1>4, <1>5 DEF IInv, LoopInv, BatchInv, IdentityKept, Init

LEMMA QueueInductive == IInv /\ [Next]_vars => IInv'
  BY TypeStep, TimeStep, OpenTablesStep, CommittedStep, OpenStep, LoopStep, BatchStep,
     IdentityStep DEF IInv

LEMMA Inductive == Spec => []IInv
  BY QueueStarts, QueueInductive, PTL DEF Spec

\* Type correctness of the tables and of the queue's memory.
THEOREM TypeCorrect == Spec => []TypeOK
<1>1. IInv => TypeOK
  BY DEF IInv
<1>. QED
  BY <1>1, Inductive, PTL

\* With `now` and the due times written in one zone, no game is completed before
\* its first visibility plus the holdback.
THEOREM HoldbackKept == ASSUME ZoneSkew = 0 PROVE Spec => []HoldbackHonoured
<1>1. IInv => HoldbackHonoured
  BY DEF IInv, TablesInv, HeldBack, HoldbackHonoured
<1>. QED
  BY <1>1, Inductive, PTL

\* A completed game holds every bet that was visible at its completion and still
\* in the lookback of the refetch.
THEOREM NothingVisibleMissed == Spec => []NoVisibleBetMissed
<1>1. IInv => NoVisibleBetMissed
  BY DEF IInv, TablesInv, SawAll, NoVisibleBetMissed
<1>. QED
  BY <1>1, Inductive, PTL

\* When upserts of the pending table do not fail, the committed tables know the
\* game of every bet the committed watermark has passed.
THEOREM IdentitiesKept == ASSUME ~EnqueueMayFail PROVE Spec => []IdentityKept
<1>1. IInv => IdentityKept
  BY DEF IInv
<1>. QED
  BY <1>1, Inductive, PTL

-----------------------------------------------------------------------------
\* A commit moves games forward in the lifecycle; all other steps stutter.
LEMMA LifecycleStep ==
    ASSUME IInv, [Next]_vars, IInv', ~EnqueueMayFail
    PROVE  [Lifecycle!Next]_<<[g \in Games |-> Stage(g)], {GameOf[b] : b \in passed}>>
<1>1. CASE Commit
  <2>1. /\ saved'.pending = pending /\ saved'.completed = completed
        /\ passed \subseteq passed'
    BY <1>1 DEF Commit
  <2>2. ASSUME NEW g \in Games
        PROVE  /\ Stage(g)' \in {"unseen", "pending", "completed"}
               /\ Stage(g)' \in Lifecycle!Later(Stage(g))
    <3>1. /\ DOMAIN saved.pending \subseteq DOMAIN pending \cup DOMAIN completed
          /\ DOMAIN saved.completed \subseteq DOMAIN completed
          /\ DOMAIN pending \cap DOMAIN completed = {}
      BY DEF IInv, OpenInv, TablesInv
    <3>. QED
      BY <2>1, <3>1 DEF Stage, Lifecycle!Later
  <2>3. \A g \in {GameOf[b] : b \in passed'} : Stage(g)' # "unseen"
    BY DEF IInv, IdentityKept, Stage
  <2>4. {GameOf[b] : b \in passed'} \subseteq Games
    BY GamesAssumption DEF IInv, TypeOK
  <2>5. {GameOf[b] : b \in passed} \subseteq {GameOf[b] : b \in passed'}
    BY <2>1
  <2>. QED
    BY <2>2, <2>3, <2>4, <2>5 DEF Lifecycle!Next
<1>2. CASE UNCHANGED <<saved, passed>>
  BY <1>2 DEF Stage
<1>3. Commit \/ UNCHANGED <<saved, passed>>
  BY DEF Next, Cycle, Tick, Ingest, Reingest, Fetch, BeginQueue, SkipCompleted, Enqueue,
         ListDue, RefetchEmpty, Defer, Complete, QueueFails, EndQueue, Abort, vars
<1>. QED
  BY <1>1, <1>2, <1>3

\* When upserts of the pending table do not fail, the committed tables implement
\* the player-game lifecycle.
THEOREM LifecycleImplemented == ASSUME ~EnqueueMayFail PROVE Spec => ImplementsLifecycle
<1>1. Init => Lifecycle!Init
  BY DEF Init, NoRows, Stage, Lifecycle!Init
<1>2. IInv /\ [Next]_vars /\ IInv' =>
          [Lifecycle!Next]_<<[g \in Games |-> Stage(g)], {GameOf[b] : b \in passed}>>
  BY LifecycleStep
<1>. QED
  BY <1>1, <1>2, Inductive, PTL DEF Spec, ImplementsLifecycle, Lifecycle!Spec
-----------------------------------------------------------------------------
(* The count of a pending game only falls, whichever batches enqueue it.   *)

CountHolds(row) == row.initial <= Cardinality(row.seen)
NotLateHolds(row) == row.late \/ Cardinality(row.bets) <= Cardinality(row.seen)
Counted(P, C) == /\ \A g \in DOMAIN P : CountHolds(P[g])
                 /\ \A g \in DOMAIN C : NotLateHolds(C[g])
CountInv == Counted(pending, completed) /\ Counted(saved.pending, saved.completed)

LEMMA EnqueuedCount ==
    ASSUME TypeOK, CountInv, NEW g \in Games, NEW first
    PROVE  CountHolds(PendingRow(g, first, BatchOf(g)))
<1>1. Cardinality(BatchOf(g)) \in Nat
  BY BatchCount
<1>2. CASE g \in DOMAIN pending
  <2>1. /\ pending[g].initial \in Nat /\ pending[g].seen \in SUBSET Bets
        /\ pending[g].initial <= Cardinality(pending[g].seen)
    BY <1>2 DEF TypeOK, TableOf, PendingRows, CountInv, Counted, CountHolds
  <2>2. Cardinality(pending[g].seen) \in Nat
    BY <2>1, GamesAssumption, FS_Subset, FS_CardinalityType
  <2>3. /\ PendingRow(g, first, BatchOf(g)).initial
             = InitialCount(pending[g].initial, Cardinality(BatchOf(g)))
        /\ PendingRow(g, first, BatchOf(g)).seen = pending[g].seen
    BY <1>2 DEF PendingRow
  <2>4. InitialCount(pending[g].initial, Cardinality(BatchOf(g))) <= pending[g].initial
    BY <1>1, <2>1 DEF InitialCount, Smaller
  <2>5. InitialCount(pending[g].initial, Cardinality(BatchOf(g))) \in Nat
    BY <1>1, <2>1 DEF InitialCount, Smaller
  <2> QED BY <2>1, <2>2, <2>3, <2>4, <2>5 DEF CountHolds
<1>3. CASE g \notin DOMAIN pending
  BY <1>1, <1>3 DEF PendingRow, CountHolds
<1> QED BY <1>2, <1>3

LEMMA CompletedCount ==
    ASSUME TypeOK, CountInv, NEW g \in DOMAIN pending
    PROVE  NotLateHolds(CompletedRow(g, Refetch(g)))
<1>1. /\ pending[g].initial \in Nat /\ pending[g].seen \in SUBSET Bets
      /\ pending[g].initial <= Cardinality(pending[g].seen)
  BY DEF TypeOK, TableOf, PendingRows, CountInv, Counted, CountHolds
<1>2. Cardinality(pending[g].seen) \in Nat
  BY <1>1, GamesAssumption, FS_Subset, FS_CardinalityType
<1>3. Refetch(g) \subseteq Bets
  BY DEF Refetch
<1>4. Cardinality(Refetch(g)) \in Nat
  BY <1>3, GamesAssumption, FS_Subset, FS_CardinalityType
<1>5. ~(Cardinality(Refetch(g)) > pending[g].initial)
      => Cardinality(Refetch(g)) <= Cardinality(pending[g].seen)
  BY <1>1, <1>2, <1>4
<1>6. /\ CompletedRow(g, Refetch(g)).bets = Refetch(g)
      /\ CompletedRow(g, Refetch(g)).seen = pending[g].seen
      /\ CompletedRow(g, Refetch(g)).late
           = (pending[g].attempts > 0 \/ Cardinality(Refetch(g)) > pending[g].initial)
  BY DEF CompletedRow
<1> QED BY <1>5, <1>6 DEF NotLateHolds

LEMMA CountStep == ASSUME IInv, CountInv, [Next]_vars PROVE CountInv'
<1>1. TypeOK
  BY DEF IInv
<1>2. CASE UNCHANGED <<tables, saved>>
  BY <1>2 DEF tables, CountInv, Counted, CountHolds, NotLateHolds
<1>3. ASSUME NEW g \in Games, Enqueue(g) PROVE CountInv'
  <2>1. PICK first : pending' = PutRow(pending, g, PendingRow(g, first, BatchOf(g)))
    BY <1>3 DEF Enqueue
  <2>2. \A h \in DOMAIN pending' : CountHolds(pending'[h])
    BY <1>1, <2>1, EnqueuedCount DEF PutRow, CountInv, Counted
  <2> QED BY <1>3, <2>2 DEF Enqueue, CountInv, Counted
<1>4. ASSUME NEW g \in Games, Defer(g) PROVE CountInv'
  <2>1. PICK ready : pending' = [pending EXCEPT ![g].attempts = @ + 1, ![g].due = DueTs(ready)]
    BY <1>4 DEF Defer
  <2>2. ASSUME NEW h \in DOMAIN pending' PROVE CountHolds(pending'[h])
    <3>1. h \in DOMAIN pending /\ pending[h] \in PendingRows
      BY <2>1, <2>2, <1>1 DEF TypeOK, TableOf
    <3>2. pending'[h].initial = pending[h].initial /\ pending'[h].seen = pending[h].seen
      BY <2>1, <3>1 DEF PendingRows
    <3> QED BY <3>1, <3>2 DEF CountHolds, CountInv, Counted
  <2> QED BY <1>4, <2>2 DEF Defer, CountInv, Counted
<1>5. ASSUME NEW g \in Games, Complete(g) PROVE CountInv'
  <2>1. /\ completed' = PutRow(completed, g, CompletedRow(g, Refetch(g)))
        /\ pending' = DropRow(pending, g) /\ saved' = saved /\ g \in DOMAIN pending
    BY <1>5 DEF Complete, IInv, LoopInv, Latest
  <2>2. \A h \in DOMAIN completed' : NotLateHolds(completed'[h])
    BY <1>1, <2>1, CompletedCount DEF PutRow, CountInv, Counted
  <2>3. \A h \in DOMAIN pending' : CountHolds(pending'[h])
    BY <2>1 DEF DropRow, CountInv, Counted
  <2> QED BY <2>1, <2>2, <2>3 DEF CountInv, Counted
<1>6. CASE Commit
  <2>1. /\ pending' = pending /\ completed' = completed
        /\ saved'.pending = pending /\ saved'.completed = completed
    BY <1>6 DEF Commit, tables
  <2> QED BY <2>1 DEF CountInv, Counted, CountHolds, NotLateHolds
<1>7. CASE Abort
  <2>1. pending' = saved.pending /\ completed' = saved.completed /\ saved' = saved
    BY <1>7 DEF Abort, Rollback
  <2> QED BY <2>1 DEF CountInv, Counted, CountHolds, NotLateHolds
<1> QED BY <1>2, <1>3, <1>4, <1>5, <1>6, <1>7, TableWrites

\* A completed game that is not reported as late and lost none of the bets the queue
\* first saw holds exactly those.
LEMMA CountMeans == ASSUME TypeOK, CountInv PROVE NotLateIsRight
<1> SUFFICES ASSUME NEW g \in DOMAIN completed, ~completed[g].late,
                    completed[g].seen \subseteq completed[g].bets
             PROVE  completed[g].bets = completed[g].seen
  BY DEF NotLateIsRight
<1>1. completed[g].bets \in SUBSET Bets
  BY DEF TypeOK, TableOf, CompletedRows
<1>2. Cardinality(completed[g].bets) <= Cardinality(completed[g].seen)
  BY DEF CountInv, Counted, NotLateHolds
<1>3. IsFiniteSet(completed[g].bets)
  BY <1>1, GamesAssumption, FS_Subset
<1>4. /\ Cardinality(completed[g].seen) <= Cardinality(completed[g].bets)
      /\ Cardinality(completed[g].seen) = Cardinality(completed[g].bets)
           => completed[g].seen = completed[g].bets
  BY <1>3, FS_Subset
<1>5. Cardinality(completed[g].bets) \in Nat /\ Cardinality(completed[g].seen) \in Nat
  BY <1>3, FS_Subset, FS_CardinalityType
<1> QED BY <1>2, <1>4, <1>5

\* The late-after-score metric has no false negatives, for any number of bets, spread
\* over any batches, re-ingested and enqueued again any number of times.
THEOREM NotLateRight == Spec => []NotLateIsRight
<1>1. Init => CountInv
  BY DEF Init, NoRows, CountInv, Counted
<1>2. IInv /\ CountInv /\ [Next]_vars => CountInv'
  BY CountStep
<1>3. IInv /\ CountInv => NotLateIsRight
  BY CountMeans DEF IInv
<1> QED BY <1>1, <1>2, <1>3, Inductive, PTL DEF Spec

-----------------------------------------------------------------------------
(* Part 2: the queue with the shadow scorer.                               *)


-----------------------------------------------------------------------------
(* Last elements.                                                          *)

\* A set of naturals that is not empty has a least element.
LEMMA LeastNatural ==
    ASSUME NEW S, S \subseteq Nat, S # {}
    PROVE  \E m \in S : \A x \in S : m <= x
<1>1. IsWellFoundedOn(OpToRel(<, Nat), Nat)
  BY NatLessThanWellFounded
<1>2. PICK m \in S : \A x \in S : <<x, m>> \notin OpToRel(<, Nat)
  BY <1>1, WFMin
<1>3. \A x \in S : ~(x < m)
  BY <1>2 DEF OpToRel
<1>4. \A x \in S : m <= x
  BY <1>3
<1> QED BY <1>4

\* Bets have a last one in the order of time and id: the one with the fewest beyond it.
LEMMA LastBet ==
    ASSUME NEW B, B \subseteq Nat, IsFiniteSet(B), B # {},
           NEW time, \A b \in B : time[b] \in Int
    PROVE  \E b \in B : \A c \in B : time[c] < time[b] \/ (time[c] = time[b] /\ c <= b)
<1> DEFINE Beyond(b) == {c \in B : time[b] < time[c] \/ (time[b] = time[c] /\ b < c)}
           Counts == {Cardinality(Beyond(b)) : b \in B}
<1>1. \A b \in B : IsFiniteSet(Beyond(b)) /\ Cardinality(Beyond(b)) \in Nat
  <2> TAKE b \in B
  <2>1. Beyond(b) \subseteq B
    OBVIOUS
  <2>2. IsFiniteSet(Beyond(b))
    BY <2>1, FS_Subset
  <2> QED BY <2>2, FS_CardinalityType
<1>2. Counts \subseteq Nat /\ Counts # {}
  BY <1>1
<1>3. PICK k \in Counts : \A j \in Counts : k <= j
  <2> HIDE DEF Counts
  <2> QED BY <1>2, LeastNatural
<1>4. PICK b \in B : k = Cardinality(Beyond(b))
  OBVIOUS
<1>5. ASSUME NEW c \in Beyond(b) PROVE FALSE
  <2>1. \A d \in Beyond(c) : d \in Beyond(b)
    <3>1. b \in Nat /\ c \in Nat /\ \A d \in B : d \in Nat
      BY <1>5
    <3>2. time[b] \in Int /\ time[c] \in Int
      BY <1>5
    <3>3. c \in B /\ (time[b] < time[c] \/ (time[b] = time[c] /\ b < c))
      BY <1>5
    <3> TAKE d \in Beyond(c)
    <3>4. d \in B /\ d \in Nat /\ time[d] \in Int
      BY <3>1
    <3>5. time[c] < time[d] \/ (time[c] = time[d] /\ c < d)
      OBVIOUS
    <3>6. time[b] < time[d] \/ (time[b] = time[d] /\ b < d)
      BY <3>1, <3>2, <3>3, <3>4, <3>5
    <3> QED BY <3>4, <3>6
  <2>2. c \in B /\ c \in Beyond(b) /\ c \notin Beyond(c)
    BY <1>5
  <2>3. Cardinality(Beyond(c)) <= Cardinality(Beyond(b))
        /\ (Cardinality(Beyond(b)) = Cardinality(Beyond(c)) => Beyond(b) = Beyond(c))
    <3> HIDE DEF Beyond
    <3> QED BY <2>1, <2>2, <1>1, FS_Subset
  <2>4. k <= Cardinality(Beyond(c))
    <3> HIDE DEF Beyond
    <3>1. Cardinality(Beyond(c)) \in Counts
      BY <2>2
    <3> HIDE DEF Counts
    <3> QED BY <1>3, <3>1
  <2> HIDE DEF Beyond
  <2> QED BY <2>2, <2>3, <2>4, <1>4, <1>1
<1>6. ASSUME NEW c \in B PROVE time[c] < time[b] \/ (time[c] = time[b] /\ c <= b)
  <2>1. c \notin Beyond(b)
    BY <1>5
  <2>2. b \in Nat /\ c \in Nat /\ time[b] \in Int /\ time[c] \in Int
    OBVIOUS
  <2> QED BY <2>1, <2>2
<1> QED BY <1>4, <1>6

\* The representative is one of the bets, and the last of them.
LEMMA RepresentativeIsLast ==
    ASSUME TypeOK, NEW B \in SUBSET Bets, B # {}
    PROVE  /\ Representative(B) \in B
           /\ \A c \in B : \/ payout[c] < payout[Representative(B)]
                           \/ payout[c] = payout[Representative(B)] /\ c <= Representative(B)
<1>1. B \subseteq Nat /\ IsFiniteSet(B)
  BY ShadowAssumption, GamesAssumption, FS_Subset
<1>2. \A b \in B : payout[b] \in Int
  BY DEF TypeOK
<1>3. \E b \in B : \A c \in B : payout[c] < payout[b] \/ (payout[c] = payout[b] /\ c <= b)
  BY <1>1, <1>2, LastBet
<1> QED BY <1>3 DEF Representative
-----------------------------------------------------------------------------
(* The queue's steps, seen from here.                                      *)

LEMMA QueueStep == ShadowNext => [Next]_vars
  BY DEF ShadowNext, QueueSteps, ShadowPass, List, FetchAgain, Score, ShadowFails, CommitScores,
         AbortScores, Next, Cycle

\* Queue and shadow scorer together keep every promise of the queue.
THEOREM QueueRefined == ShadowSpec => Spec
<1>1. ShadowInit => Init
  BY DEF ShadowInit
<1>2. [ShadowNext]_<<vars, shadowVars>> => [Next]_vars
  BY QueueStep
<1> QED BY <1>1, <1>2, PTL DEF ShadowSpec, Spec

\* A bet that is in the warehouse stays there under its payout.
LEMMA ArrivedStays ==
    ASSUME IInv, [Next]_vars, NEW b \in Bets, Arrived(b)
    PROVE  Arrived(b)' /\ payout'[b] = payout[b] /\ clock <= clock'
<1> USE DEF IInv, TypeOK, TimeInv, Arrived, Absent
<1>1. CASE Tick
  BY <1>1 DEF Tick, warehouse
<1>2. ASSUME NEW c \in Bets, NEW lag \in PayoutLags, Ingest(c, lag)
      PROVE  clock' = clock /\ b # c /\ etl'[b] = etl[b] /\ payout'[b] = payout[b]
  BY <1>2 DEF Ingest
<1>3. ASSUME NEW c \in Bets, Reingest(c)
      PROVE  /\ clock' = clock /\ payout' = payout
             /\ etl'[b] = etl[b] \/ etl'[b] = clock
  BY <1>3 DEF Reingest
<1>4. Tick \/ (\E c \in Bets, lag \in PayoutLags : Ingest(c, lag))
      \/ (\E c \in Bets : Reingest(c)) \/ UNCHANGED <<clock, warehouse>>
  BY DEF Next, Cycle, SkipCompleted, Enqueue, ListDue, RefetchEmpty, Defer, Complete,
         QueueFails, EndQueue, Commit, Abort, Fetch, BeginQueue, vars
<1> QED
  BY <1>1, <1>2, <1>3, <1>4 DEF warehouse

\* Completed games are only added, or taken back to what is committed.
LEMMA CompletedSteps ==
    ASSUME IInv, [Next]_vars
    PROVE  \/ completed' = completed /\ saved' = saved
           \/ completed' = completed /\ saved'.completed = completed /\ Commit
           \/ completed' = saved.completed /\ saved' = saved /\ Abort
           \/ \E g \in Games : /\ Complete(g) /\ g \notin DOMAIN completed /\ saved' = saved
                               /\ completed' = PutRow(completed, g, CompletedRow(g, Refetch(g)))
                               /\ Refetch(g) # {} /\ pc = "process" /\ pc' = "process"
<1>1. CASE UNCHANGED <<tables, saved>>
  BY <1>1 DEF tables
<1>2. ASSUME NEW g \in Games, Enqueue(g) \/ Defer(g) PROVE completed' = completed /\ saved' = saved
  BY <1>2 DEF Enqueue, Defer
<1>3. ASSUME NEW g \in Games, Complete(g)
      PROVE  /\ g \notin DOMAIN completed /\ saved' = saved
             /\ completed' = PutRow(completed, g, CompletedRow(g, Refetch(g)))
             /\ Refetch(g) # {} /\ pc = "process" /\ pc' = "process"
  BY <1>3 DEF Complete, IInv, LoopInv, Latest
<1>4. CASE Commit
  BY <1>4 DEF Commit, tables
<1>5. CASE Abort
  BY <1>5 DEF Abort, Rollback
<1> QED BY <1>1, <1>2, <1>3, <1>4, <1>5, TableWrites

-----------------------------------------------------------------------------
(* The invariant.                                                          *)

\* The bets of a completed game have arrived and have been visible.
RowKnown(row, g) ==
    /\ row.bets \in SUBSET Bets /\ row.bets # {}
    /\ \A b \in row.bets : GameOf[b] = g /\ Arrived(b) /\ payout[b] + AvailDelay <= clock
Known(C) == \A g \in DOMAIN C : RowKnown(C[g], g)

\* The rows of S are those of games completed as in C.
Backed(S, C) ==
    \A g \in DOMAIN S :
        /\ g \in DOMAIN C
        /\ S[g].ready = Ready(C[g])
        /\ S[g].rep = Representative(C[g].bets)
        /\ S[g].count = Cardinality(C[g].bets)

Out(b) == payout[b] < clock - Lookback

\* The rows of S were scored on their representative, or that one can be fetched no more.
Own(S) == \A g \in DOMAIN S : S[g].bet = S[g].rep \/ Out(S[g].rep)

\* What a pass holds.
PassInv ==
    /\ turn # "to come" => pc = "score"
    /\ turn # "under way" => unfetched = {} /\ DOMAIN reps = {}
    /\ unfetched \subseteq DOMAIN completed
    /\ DOMAIN reps \subseteq DOMAIN completed
    /\ \A g \in DOMAIN reps : \/ reps[g] = Representative(completed[g].bets)
                              \/ Out(Representative(completed[g].bets))

ShadowInv ==
    /\ IInv
    /\ Known(completed) /\ Known(saved.completed)
    /\ Backed(shadow, completed) /\ Backed(savedShadow, saved.completed)
    /\ Own(shadow) /\ Own(savedShadow)
    /\ PassInv

\* Games that were completed keep their bets, representative and ready time.
LEMMA RowStays ==
    ASSUME IInv, [Next]_vars, NEW row, NEW g, RowKnown(row, g)
    PROVE  /\ RowKnown(row, g)'
           /\ Representative(row.bets) \in row.bets
           /\ Representative(row.bets)' = Representative(row.bets)
           /\ Ready(row)' = Ready(row)
           /\ Out(Representative(row.bets)) => Out(Representative(row.bets))'
<1> DEFINE B == row.bets
           rep == Representative(B)
<1>1. B \in SUBSET Bets /\ B # {} /\ TypeOK
  BY DEF RowKnown, IInv
<1>2. \A b \in B : Arrived(b)' /\ payout'[b] = payout[b] /\ clock <= clock'
  BY <1>1, ArrivedStays DEF RowKnown
<1>3. clock \in Int /\ clock' \in Int /\ \A b \in B : payout[b] \in Int
  BY <1>1, TypeStep DEF TypeOK
<1>4. RowKnown(row, g)'
  BY <1>1, <1>2, <1>3, DelayAssumption DEF RowKnown
<1>5. rep \in B
  BY <1>1, RepresentativeIsLast
<1>6. Representative(B)' = rep
  <2>1. \A b \in B : (\A c \in B : payout[c] < payout[b] \/ (payout[c] = payout[b] /\ c <= b))
                     <=> (\A c \in B : payout'[c] < payout'[b] \/ (payout'[c] = payout'[b] /\ c <= b))
    BY <1>2
  <2> HIDE DEF B
  <2> QED BY <2>1 DEF Representative
<1>7. Ready(row)' = Ready(row)
  <2>1. {PV(b) : b \in B}' = {PV(b) : b \in B}
    BY <1>2 DEF PV
  <2> QED BY <2>1 DEF Ready, Latest
<1>8. Out(rep) => Out(rep)'
  <2>1. payout'[rep] = payout[rep] /\ clock <= clock'
    BY <1>2, <1>5
  <2> QED BY <2>1, <1>3, <1>5, <1>6, DelayAssumption DEF Out
<1> QED BY <1>4, <1>5, <1>6, <1>7, <1>8
\* Tables a step leaves alone keep what was true of them, while bets come in.
LEMMA TablesStay ==
    ASSUME IInv, [Next]_vars, NEW C, NEW S, Known(C), Backed(S, C), Own(S)
    PROVE  Known(C)' /\ Backed(S, C)' /\ Own(S)'
<1>1. Known(C)'
  BY RowStays DEF Known
<1>2. ASSUME NEW g \in DOMAIN S
      PROVE  /\ g \in DOMAIN C
             /\ S[g].ready = Ready(C[g])'
             /\ S[g].rep = Representative(C[g].bets)'
             /\ S[g].rep = Representative(C[g].bets)
             /\ S[g].count = Cardinality(C[g].bets)
             /\ Out(S[g].rep) => Out(S[g].rep)'
  <2>1. /\ g \in DOMAIN C /\ S[g].ready = Ready(C[g]) /\ S[g].rep = Representative(C[g].bets)
        /\ S[g].count = Cardinality(C[g].bets) /\ RowKnown(C[g], g)
    BY DEF Backed, Known
  <2>2. /\ Representative(C[g].bets)' = Representative(C[g].bets)
        /\ Ready(C[g])' = Ready(C[g])
        /\ Out(Representative(C[g].bets)) => Out(Representative(C[g].bets))'
    BY <2>1, RowStays
  <2>3. Out(S[g].rep) => Out(S[g].rep)'
    BY <2>1, <2>2 DEF Out
  <2> QED BY <2>1, <2>2, <2>3
<1>3. Backed(S, C)'
  BY <1>2 DEF Backed
<1>4. Own(S)'
  BY <1>2 DEF Own
<1> QED BY <1>1, <1>3, <1>4

\* A game that is completed now is known.
LEMMA CompletedKnown ==
    ASSUME IInv, NEW g \in Games, Complete(g), Refetch(g) # {}
    PROVE  RowKnown(CompletedRow(g, Refetch(g)), g)
<1>1. clock \in Int /\ \A b \in Bets : payout[b] \in Int
  BY DEF IInv, TypeOK
<1>2. \A b \in Refetch(g) : b \in Bets /\ GameOf[b] = g /\ Arrived(b) /\ payout[b] + AvailDelay <= clock
  BY <1>1, DelayAssumption DEF Refetch, Eligible
<1> QED BY <1>2 DEF RowKnown, CompletedRow

LEMMA QueueKeeps ==
    ASSUME ShadowInv, QueueSteps, UNCHANGED shadowVars PROVE ShadowInv'
<1>1. [Next]_vars /\ saved' = saved /\ crashes' = crashes /\ (pc = "score" => pc' = "score")
  BY DEF QueueSteps, Next, Cycle, Tick, Ingest, Reingest, Fetch, BeginQueue, ListDue, QueueFails,
         EndQueue, SkipCompleted, Enqueue, RefetchEmpty, Defer, Complete
<1>2. IInv'
  BY <1>1, QueueInductive DEF ShadowInv
<1>3. PICK C, D, S, R : C = completed /\ D = saved.completed /\ S = shadow /\ R = savedShadow
  OBVIOUS
<1>4. /\ Known(C) /\ Known(D) /\ Backed(S, C) /\ Backed(R, D) /\ Own(S) /\ Own(R)
      /\ S = shadow' /\ R = savedShadow' /\ D = saved'.completed /\ reps' = reps
      /\ turn' = turn /\ unfetched' = unfetched
  BY <1>1, <1>3 DEF ShadowInv, shadowVars, pass
<1>5. /\ Known(C)' /\ Backed(S, C)' /\ Own(S)' /\ Known(D)' /\ Backed(R, D)' /\ Own(R)'
  BY <1>1, <1>4, TablesStay DEF ShadowInv
<1>6. \/ completed' = C
      \/ \E g \in Games : /\ Complete(g) /\ g \notin DOMAIN C /\ Refetch(g) # {}
                          /\ completed' = PutRow(C, g, CompletedRow(g, Refetch(g)))
  <2>1. ~Abort
    BY <1>1 DEF Abort, ShadowInv, IInv, TypeOK
  <2> QED BY <1>1, <1>3, <2>1, CompletedSteps DEF ShadowInv
<1>7. /\ Known(completed)' /\ Backed(shadow, completed)'
      /\ DOMAIN C \subseteq DOMAIN completed' /\ \A h \in DOMAIN C : completed'[h] = C[h]
  <2>1. CASE completed' = C
    BY <2>1, <1>4, <1>5
  <2>2. ASSUME NEW g \in Games, Complete(g), g \notin DOMAIN C, Refetch(g) # {},
               completed' = PutRow(C, g, CompletedRow(g, Refetch(g)))
        PROVE  /\ Known(completed)' /\ Backed(shadow, completed)'
               /\ DOMAIN C \subseteq DOMAIN completed' /\ \A h \in DOMAIN C : completed'[h] = C[h]
    <3>1. PICK row : row = CompletedRow(g, Refetch(g))
      OBVIOUS
    <3>2. RowKnown(row, g)'
      BY <1>1, <2>2, <3>1, CompletedKnown, RowStays DEF ShadowInv
    <3>3. /\ DOMAIN completed' = DOMAIN C \cup {g} /\ completed'[g] = row
          /\ \A h \in DOMAIN C : completed'[h] = C[h]
      <4>1. completed' = PutRow(C, g, row)
        BY <2>2, <3>1
      <4>2. g \notin DOMAIN C
        BY <2>2
      <4> QED BY <4>1, <4>2 DEF PutRow
    <3>4. Known(completed)'
      BY <1>5, <3>2, <3>3 DEF Known
    <3>5. Backed(shadow, completed)'
      BY <1>4, <1>5, <3>3 DEF Backed
    <3> QED BY <3>3, <3>4, <3>5
  <2> QED BY <1>6, <2>1, <2>2
<1>8. PassInv'
  <2>1. ASSUME NEW g \in DOMAIN reps
        PROVE  \/ reps[g] = Representative(completed[g].bets)'
               \/ Out(Representative(completed[g].bets))'
    <3>1. /\ g \in DOMAIN C /\ RowKnown(C[g], g)
          /\ reps[g] = Representative(C[g].bets) \/ Out(Representative(C[g].bets))
      BY <1>3, <1>4 DEF ShadowInv, PassInv, Known
    <3>2. /\ Representative(C[g].bets)' = Representative(C[g].bets)
          /\ Out(Representative(C[g].bets)) => Out(Representative(C[g].bets))'
      BY <1>1, <3>1, RowStays DEF ShadowInv
    <3>3. completed'[g] = C[g]
      BY <1>7, <3>1
    <3> QED BY <3>1, <3>2, <3>3
  <2> QED BY <2>1, <1>1, <1>3, <1>4, <1>7 DEF ShadowInv, PassInv
<1> QED BY <1>2, <1>4, <1>5, <1>7, <1>8 DEF ShadowInv
\* The rows a pass writes are those of completed games, and scored on their own bet.
LEMMA PassWrites ==
    ASSUME ShadowInv, NEW W \in SUBSET DOMAIN reps
    PROVE  Backed(WithScores(W), completed) /\ Own(WithScores(W))
<1>1. ASSUME NEW g \in DOMAIN shadow \cup W
      PROVE  /\ g \in DOMAIN completed
             /\ WithScores(W)[g].ready = Ready(completed[g])
             /\ WithScores(W)[g].rep = Representative(completed[g].bets)
             /\ WithScores(W)[g].count = Cardinality(completed[g].bets)
             /\ WithScores(W)[g].bet = WithScores(W)[g].rep \/ Out(WithScores(W)[g].rep)
  <2>1. CASE g \in DOMAIN shadow
    <3>1. WithScores(W)[g] = shadow[g]
      BY <2>1 DEF WithScores
    <3> QED BY <2>1, <3>1 DEF ShadowInv, Backed, Own
  <2>2. CASE g \notin DOMAIN shadow
    <3>1. WithScores(W)[g] = ShadowRow(g) /\ g \in DOMAIN reps
      BY <2>2 DEF WithScores
    <3>2. /\ ShadowRow(g).ready = Ready(completed[g])
          /\ ShadowRow(g).rep = Representative(completed[g].bets)
          /\ ShadowRow(g).count = Cardinality(completed[g].bets)
          /\ ShadowRow(g).bet = reps[g]
      BY DEF ShadowRow
    <3> QED BY <3>1, <3>2 DEF ShadowInv, PassInv
  <2> QED BY <2>1, <2>2
<1>2. DOMAIN WithScores(W) = DOMAIN shadow \cup W
  BY DEF WithScores
<1> QED BY <1>1, <1>2 DEF Backed, Own

\* A step of the pass leaves the queue alone: scores that were those of completed
\* games still are.
LEMMA PassKeeps ==
    ASSUME ShadowInv, UNCHANGED vars, savedShadow' = savedShadow,
           NEW S, shadow' = S, Backed(S, completed), Own(S)
    PROVE  /\ IInv' /\ Known(completed)' /\ Known(saved.completed)'
           /\ Backed(shadow, completed)' /\ Backed(savedShadow, saved.completed)'
           /\ Own(shadow)' /\ Own(savedShadow)'
<1>1. IInv'
  BY QueueInductive DEF ShadowInv
<1>2. PICK C, D, R : C = completed /\ D = saved.completed /\ R = savedShadow
  OBVIOUS
<1>3. /\ Known(C) /\ Backed(S, C) /\ Own(S) /\ Known(D) /\ Backed(R, D) /\ Own(R)
      /\ IInv
  BY <1>2 DEF ShadowInv
<1>4. Known(C)' /\ Backed(S, C)' /\ Own(S)' /\ Known(D)' /\ Backed(R, D)' /\ Own(R)'
  BY <1>3, TablesStay
<1>5. completed' = C /\ saved'.completed = D /\ savedShadow' = R
  BY <1>2 DEF vars, tables
<1> QED BY <1>1, <1>4, <1>5

\* What a pass holds of completed games stays true while the queue stands.
LEMMA HeldStays ==
    ASSUME ShadowInv, UNCHANGED vars, UNCHANGED turn, turn # "to come" => pc = "score",
           turn # "under way" => unfetched' = {} /\ DOMAIN reps' = {},
           unfetched' \subseteq DOMAIN completed, DOMAIN reps' \subseteq DOMAIN completed,
           \A g \in DOMAIN reps' : \/ reps'[g] = Representative(completed[g].bets)
                                    \/ Out(Representative(completed[g].bets))
    PROVE  PassInv'
<1>1. completed' = completed /\ pc' = pc /\ payout' = payout /\ clock' = clock
  BY DEF vars, tables, warehouse
<1>2. ASSUME NEW g \in DOMAIN reps'
      PROVE  \/ reps'[g] = Representative(completed[g].bets)'
             \/ Out(Representative(completed[g].bets))'
  <2>1. \/ reps'[g] = Representative(completed[g].bets)
        \/ Out(Representative(completed[g].bets))
    BY <1>2
  <2>2. Representative(completed[g].bets)' = Representative(completed[g].bets)
    BY <1>1 DEF Representative
  <2> QED BY <1>1, <2>1, <2>2 DEF Out
<1> QED BY <1>1, <1>2 DEF PassInv

LEMMA ListKeeps == ASSUME ShadowInv, List PROVE ShadowInv'
<1>1. UNCHANGED <<vars, shadow, savedShadow, reps>> /\ turn = "to come" /\ pc = "score"
      /\ turn' = "under way" /\ unfetched' \subseteq DOMAIN completed
  BY DEF List
<1>2. PICK S : S = shadow
  OBVIOUS
<1>3. /\ IInv' /\ Known(completed)' /\ Known(saved.completed)'
      /\ Backed(shadow, completed)' /\ Backed(savedShadow, saved.completed)'
      /\ Own(shadow)' /\ Own(savedShadow)'
  <2>1. Backed(S, completed) /\ Own(S) /\ shadow' = S
    BY <1>1, <1>2 DEF ShadowInv
  <2> QED BY <2>1, <1>1, PassKeeps
<1>4. PassInv'
  <2>1. DOMAIN reps' = {} /\ completed' = completed /\ pc' = pc
    BY <1>1 DEF ShadowInv, PassInv, vars, tables
  <2> QED BY <1>1, <2>1 DEF PassInv
<1> QED BY <1>3, <1>4 DEF ShadowInv

\* What the second fetch gives for a game: its representative, unless that is out.
LEMMA FetchedOwn ==
    ASSUME ShadowInv, NEW g \in DOMAIN completed
    PROVE  \/ RepresentativeRow(g, Refetch(g)) = Representative(completed[g].bets)
           \/ Out(Representative(completed[g].bets))
<1> DEFINE rep == Representative(completed[g].bets)
<1>1. RowKnown(completed[g], g) /\ TypeOK
  BY DEF ShadowInv, Known, IInv
<1>2. rep \in completed[g].bets
  BY <1>1, RepresentativeIsLast DEF RowKnown
<1>3. rep \in Bets /\ GameOf[rep] = g /\ Arrived(rep) /\ payout[rep] + AvailDelay <= clock
  BY <1>1, <1>2 DEF RowKnown
<1>4. clock \in Int /\ payout[rep] \in Int
  BY <1>1, <1>3 DEF TypeOK
<1> HIDE DEF rep
<1>5. rep \in Refetch(g) \/ Out(rep)
  BY <1>3, <1>4, DelayAssumption DEF Refetch, Eligible, Out
<1>6. rep \in Refetch(g) => RepresentativeRow(g, Refetch(g)) = rep
  BY DEF RepresentativeRow, rep
<1> QED BY <1>5, <1>6 DEF rep

LEMMA FetchAgainKeeps == ASSUME ShadowInv, NEW g \in Games, FetchAgain(g) PROVE ShadowInv'
<1>1. /\ UNCHANGED <<vars, shadow, savedShadow, turn>> /\ g \in unfetched
      /\ turn = "under way" /\ pc = "score" /\ unfetched' = unfetched \ {g}
  BY DEF FetchAgain
<1>2. PICK S : S = shadow
  OBVIOUS
<1>3. /\ IInv' /\ Known(completed)' /\ Known(saved.completed)'
      /\ Backed(shadow, completed)' /\ Backed(savedShadow, saved.completed)'
      /\ Own(shadow)' /\ Own(savedShadow)'
  <2>1. Backed(S, completed) /\ Own(S) /\ shadow' = S
    BY <1>1, <1>2 DEF ShadowInv
  <2> QED BY <2>1, <1>1, PassKeeps
<1>4. g \in DOMAIN completed /\ unfetched' \subseteq DOMAIN completed
  BY <1>1 DEF ShadowInv, PassInv
<1>5. /\ DOMAIN reps' \subseteq DOMAIN completed
      /\ \A h \in DOMAIN reps' : \/ reps'[h] = Representative(completed[h].bets)
                                 \/ Out(Representative(completed[h].bets))
  <2>1. CASE Refetch(g) = {}
    BY <2>1 DEF FetchAgain, ShadowInv, PassInv
  <2>2. CASE Refetch(g) # {}
    <3>1. reps' = PutRow(reps, g, RepresentativeRow(g, Refetch(g)))
      BY <2>2 DEF FetchAgain
    <3> QED BY <3>1, <1>4, FetchedOwn DEF PutRow, ShadowInv, PassInv
  <2> QED BY <2>1, <2>2
<1>6. PassInv'
  BY <1>1, <1>4, <1>5, HeldStays
<1> QED BY <1>3, <1>6 DEF ShadowInv

\* The end of a pass, with the rows W written or none.
LEMMA PassOverKeeps ==
    ASSUME ShadowInv, NEW W \in SUBSET DOMAIN reps, UNCHANGED <<vars, savedShadow>>,
           pc = "score", PassOver, shadow' = shadow \/ shadow' = WithScores(W)
    PROVE  ShadowInv'
<1>1. PICK S : S = shadow'
  OBVIOUS
<1>2. Backed(S, completed) /\ Own(S)
  BY <1>1, PassWrites DEF ShadowInv
<1>3. /\ IInv' /\ Known(completed)' /\ Known(saved.completed)'
      /\ Backed(shadow, completed)' /\ Backed(savedShadow, saved.completed)'
      /\ Own(shadow)' /\ Own(savedShadow)'
  BY <1>1, <1>2, PassKeeps
<1>4. PassInv'
  <2>1. turn' = "over" /\ unfetched' = {} /\ DOMAIN reps' = {} /\ pc' = "score"
    BY DEF PassOver, NoRows, vars
  <2> QED BY <2>1 DEF PassInv
<1> QED BY <1>3, <1>4 DEF ShadowInv

LEMMA CommitKeeps == ASSUME ShadowInv, CommitScores PROVE ShadowInv'
<1>1. /\ Commit /\ savedShadow' = shadow /\ shadow' = shadow /\ completed' = completed
      /\ saved'.completed = completed /\ NextCycle /\ UNCHANGED <<clock, warehouse>>
  BY DEF CommitScores, Commit, tables
<1>2. IInv'
  BY <1>1, QueueInductive DEF ShadowInv, Next, Cycle
<1>3. PICK C, S : C = completed /\ S = shadow
  OBVIOUS
<1>4. Known(C)' /\ Backed(S, C)' /\ Own(S)'
  <2>1. Known(C) /\ Backed(S, C) /\ Own(S)
    BY <1>3 DEF ShadowInv
  <2> QED BY <2>1, <1>1, TablesStay DEF ShadowInv, Next, Cycle
<1>5. completed' = C /\ saved'.completed = C /\ shadow' = S /\ savedShadow' = S
  BY <1>1, <1>3
<1>6. PassInv'
  BY <1>1 DEF NextCycle, PassInv, NoRows
<1> QED BY <1>2, <1>4, <1>5, <1>6 DEF ShadowInv, Known, Backed, Own

LEMMA AbortKeeps == ASSUME ShadowInv, AbortScores PROVE ShadowInv'
<1>1. /\ Abort /\ savedShadow' = savedShadow /\ shadow' = savedShadow /\ saved' = saved
      /\ completed' = saved.completed /\ NextCycle
  BY DEF AbortScores, Abort, Rollback, ShadowRollback
<1>2. IInv'
  BY <1>1, QueueInductive DEF ShadowInv, Next
<1>3. PICK C, S : C = saved.completed /\ S = savedShadow
  OBVIOUS
<1>4. Known(C)' /\ Backed(S, C)' /\ Own(S)'
  <2>1. Known(C) /\ Backed(S, C) /\ Own(S)
    BY <1>3 DEF ShadowInv
  <2> QED BY <2>1, <1>1, TablesStay DEF ShadowInv, Next
<1>5. completed' = C /\ saved'.completed = C /\ shadow' = S /\ savedShadow' = S
  BY <1>1, <1>3
<1>6. PassInv'
  BY <1>1 DEF NextCycle, PassInv, NoRows
<1> QED BY <1>2, <1>4, <1>5, <1>6 DEF ShadowInv, Known, Backed, Own

LEMMA ShadowInductive == ASSUME ShadowInv, [ShadowNext]_<<vars, shadowVars>> PROVE ShadowInv'
<1>1. CASE ShadowPass
  <2>1. ASSUME NEW missing \in SUBSET (DOMAIN reps \cap MissableGames), Score(missing)
        PROVE  ShadowInv'
    BY <2>1, PassOverKeeps DEF Score
  <2>2. ASSUME NEW W \in SUBSET DOMAIN reps, ShadowFails(W) PROVE ShadowInv'
    BY <2>2, PassOverKeeps DEF ShadowFails
  <2> QED BY <1>1, <2>1, <2>2, ListKeeps, FetchAgainKeeps DEF ShadowPass
<1>2. CASE UNCHANGED <<vars, shadowVars>>
  <2>1. PICK S : S = shadow
    OBVIOUS
  <2>2. UNCHANGED <<vars, savedShadow, turn, unfetched, reps>> /\ shadow' = S
    BY <1>2, <2>1 DEF shadowVars, pass
  <2>3. /\ IInv' /\ Known(completed)' /\ Known(saved.completed)'
        /\ Backed(shadow, completed)' /\ Backed(savedShadow, saved.completed)'
        /\ Own(shadow)' /\ Own(savedShadow)'
    <3>1. Backed(S, completed) /\ Own(S)
      BY <2>1 DEF ShadowInv
    <3> QED BY <3>1, <2>2, PassKeeps
  <2>4. PassInv'
    BY <2>2, HeldStays DEF ShadowInv, PassInv
  <2> QED BY <2>3, <2>4 DEF ShadowInv
<1> QED BY <1>1, <1>2, QueueKeeps, CommitKeeps, AbortKeeps DEF ShadowNext

\* The invariant holds in every state of queue and shadow scorer together.
LEMMA ShadowInvariance == ShadowSpec => []ShadowInv
<1>1. ShadowInit => ShadowInv
  <2>1. ShadowInit => IInv
    BY QueueStarts DEF ShadowInit
  <2>2. DOMAIN NoRows = {}
    BY DEF NoRows
  <2>3. ASSUME ShadowInit
        PROVE  /\ DOMAIN completed = {} /\ DOMAIN saved.completed = {}
               /\ DOMAIN shadow = {} /\ DOMAIN savedShadow = {}
               /\ turn = "to come" /\ unfetched = {} /\ DOMAIN reps = {}
    BY <2>2, <2>3 DEF ShadowInit, Init
  <2>4. ASSUME ShadowInit PROVE PassInv
    BY <2>3, <2>4 DEF PassInv
  <2>5. ASSUME ShadowInit
        PROVE  /\ Known(completed) /\ Known(saved.completed)
               /\ Backed(shadow, completed) /\ Backed(savedShadow, saved.completed)
               /\ Own(shadow) /\ Own(savedShadow)
    BY <2>3, <2>5 DEF Known, Backed, Own
  <2> QED BY <2>1, <2>4, <2>5 DEF ShadowInv
<1> QED BY <1>1, ShadowInductive, PTL DEF ShadowSpec

\* Every committed score is that of a committed completed game as it was completed,
\* whichever part of a cycle raises, is swallowed or is rolled back.
THEOREM ScoresAreBacked == ShadowSpec => []ScoresBacked
<1>1. ShadowInv => ScoresBacked
  BY DEF ShadowInv, Backed, ScoresBacked
<1> QED BY <1>1, ShadowInvariance, PTL

\* A game is scored on the bet its row names as long as that one can be fetched.
THEOREM RepresentativesScored == ShadowSpec => []RepresentativeScored
<1>1. ShadowInv => RepresentativeScored
  BY DEF ShadowInv, Own, Out, RepresentativeScored
<1> QED BY <1>1, ShadowInvariance, PTL
===============================================================================
